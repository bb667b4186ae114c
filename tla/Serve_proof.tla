------------------------------ MODULE Serve_proof ------------------------------
(***************************************************************************)
(* Proofs about Serve for every list of symbols, every venue and every     *)
(* number of updates: what is served once the server listens, and how      *)
(* fresh an answer is.                                                     *)
(***************************************************************************)
EXTENDS Serve, FiniteSetTheorems, TLAPS

-----------------------------------------------------------------------------
\* The inductive invariant.

Serves == config.output = "serve"

\* Nothing is built before the subscription; the tasks that have been awaited are over.
Builds ==
  /\ main \in {"start", "subscribing"} => \A i \in Task : task[i] = "none"
  /\ \A i \in Task : i \in 1..awaited => task[i] \in {"built", "panicked"}
  /\ Serves /\ main = "streaming" => awaited = Len(config.list)

\* A handler that was built is the multiplexor's, or has been replaced.
Handlers ==
  /\ gone \subseteq 1..awaited
  /\ \A s \in DOMAIN writers :
       writers[s] \in Task /\ writers[s] \in 1..awaited /\ task[writers[s]] = "built"
  /\ \A i \in Task :
       i \in 1..awaited /\ task[i] = "built" =>
         /\ i \in gone \/ (Built[i] \in DOMAIN writers /\ writers[Built[i]] = i)
         /\ main \notin {"ended", "exited"} => Built[i] \in DOMAIN writers

\* The builds whose factory has been sent.
Offered == {i \in Task : task[i] \in {"sent", "built"}}
Entry == {<<Built[i], i>> : i \in Task}

\* Factories are on their way or have been received, and each is registered under its
\* symbol or will be.
Offers ==
  /\ channel \in Seq(Entry)
  /\ Cardinality(Offered) = received + Len(channel)
  /\ \A j \in DOMAIN channel : channel[j][2] \in Offered
  /\ \A k \in DOMAIN registry : registry[k] \in Offered /\ Built[registry[k]] = k
  /\ \A i \in Offered :
       Built[i] \in DOMAIN registry \/ \E j \in DOMAIN channel : channel[j] = <<Built[i], i>>

\* A server that listens has every factory that there will be.
Listening ==
  server = "listening" =>
    channel = <<>> /\ (Offered = Task \/ main \in {"streaming", "ended", "exited"})

\* A request knows a book that has been offered, and how old it was.
Requests ==
  request.found # 0 =>
    request.found \in Offered /\ request.floor \in Nat
      /\ request.floor <= version[request.found]

Echoes ==
  /\ channel = <<>> /\ registry = <<>> /\ received = 0
  /\ server = "off" /\ request = NoRequest
  /\ \A i \in Task : task[i] # "sent"

IInv ==
  /\ TypeOK /\ Builds /\ Handlers
  /\ IF Serves THEN Offers /\ Listening /\ Requests ELSE Echoes

-----------------------------------------------------------------------------
\* The list.

LEMMA List ==
  ASSUME TypeOK, Serves
  PROVE  LET n == Len(config.list) IN
         /\ n \in Nat /\ Task = 1..n /\ Len(Built) = n /\ Awaits = n
         /\ IsFiniteSet(Task) /\ Cardinality(Task) = n
         /\ \A i \in Task : Upper[Built[i]] = Built[i]
<1> DEFINE list == config.list
           n == Len(list)
<1>1. list \in Seq(Text)
  BY ListsAssumption DEF TypeOK
<1>2. n \in Nat /\ DOMAIN list = 1..n /\ \A i \in 1..n : list[i] \in Text
  BY <1>1
<1>3. Built = [i \in 1..n |-> Upper[list[i]]]
  BY <1>2 DEF Built, Symbols, Serves
<1>4. Task = 1..n
  BY <1>3 DEF Task
<1>5. Len(Built) = n
  <2>1. Built \in Seq(Text)
    <3>1. \A i \in 1..n : Upper[list[i]] \in Text
      BY <1>2, SpellingAssumption
    <3> HIDE DEF n, list
    <3> QED
      BY <1>2, <1>3, <3>1
  <2> HIDE DEF n
  <2> QED
    BY <1>2, <1>3, <2>1
<1>6. IsFiniteSet(Task) /\ Cardinality(Task) = n
  <2> HIDE DEF n
  <2> QED
    BY <1>2, <1>4, FS_Interval
<1>7. \A i \in Task : Upper[Built[i]] = Built[i]
  BY <1>2, <1>3, <1>4, SpellingAssumption
<1> QED
  BY <1>2, <1>4, <1>5, <1>6, <1>7 DEF Awaits

LEMMA SameList ==
  ASSUME UNCHANGED config
  PROVE  /\ Built' = Built /\ Task' = Task /\ Awaits' = Awaits
         /\ Entry' = Entry /\ Serves' = Serves
<1>1. Built' = Built
  BY DEF Built
<1> QED
  BY <1>1 DEF Task, Awaits, Entry, Serves

LEMMA FewOffers ==
  ASSUME TypeOK, Serves
  PROVE  /\ IsFiniteSet(Offered) /\ Cardinality(Offered) \in Nat
         /\ Cardinality(Offered) <= Len(config.list)
         /\ Cardinality(Offered) = Len(config.list) => Offered = Task
<1>1. Offered \subseteq Task
  BY DEF Offered
<1> QED
  BY <1>1, List, FS_Subset, FS_CardinalityType

LEMMA InitIInv == Init => IInv
<1> SUFFICES ASSUME Init PROVE IInv
  OBVIOUS
<1>1. config.list \in Lists /\ config.list \in Seq(Text) /\ Len(config.list) \in Nat
  BY ListsAssumption DEF Init
<1>2. TypeOK
  BY <1>1, BoundAssumption DEF Init, TypeOK, Awaits
<1>3. Builds /\ Handlers
  BY DEF Init, Builds, Handlers
<1>4. Offered = {}
  BY DEF Init, Offered
<1>5. Offers
  BY <1>4, FS_EmptySet DEF Init, Offers
<1> QED
  BY <1>2, <1>3, <1>5 DEF Init, IInv, Listening, Requests, Echoes, NoRequest

-----------------------------------------------------------------------------
\* The main task.

LEMMA SameTasks ==
  ASSUME UNCHANGED <<config, task>>
  PROVE  Offered' = Offered
BY SameList DEF Offered

LEMMA StartStep == IInv /\ Start => IInv'
<1> SUFFICES ASSUME IInv, Start PROVE IInv'
  OBVIOUS
<1> USE SameList, SameTasks
<1>1. TypeOK'
  BY DEF IInv, Start, TypeOK
<1>2. Builds' /\ Handlers'
  BY DEF IInv, Start, Builds, Handlers
<1>3. CASE Serves
  BY <1>1, <1>2, <1>3 DEF IInv, Start, Offers, Listening, Requests
<1>4. CASE ~ Serves
  BY <1>1, <1>2, <1>4 DEF IInv, Start, Echoes, Serves
<1> QED
  BY <1>3, <1>4

LEMMA SubscribeStep == IInv /\ Subscribe => IInv'
<1> SUFFICES ASSUME IInv, Subscribe PROVE IInv'
  OBVIOUS
<1> USE SameList
<1>1. \A i \in Task : task[i] = "none"
  BY DEF IInv, Builds, Subscribe
<1>2. TypeOK'
  BY <1>1 DEF IInv, Subscribe, TypeOK, service
<1>3. \A i \in Task : task'[i] \in {"none", "fetching"}
  BY <1>1 DEF Subscribe
<1>4. Builds' /\ Handlers'
  BY <1>1, <1>3 DEF IInv, Subscribe, Builds, Handlers
<1>5. Offered' = Offered
  BY <1>1, <1>3 DEF Offered, Subscribe
<1>6. CASE Serves
  <2>1. UNCHANGED <<config, channel, received, registry, server, request, version>>
    BY DEF Subscribe, service
  <2>2. Offers /\ Listening /\ Requests
    BY <1>6 DEF IInv
  <2>3. Offers'
    BY <1>5, <2>1, <2>2 DEF Offers
  <2>4. Listening'
    BY <1>5, <2>1, <2>2 DEF Listening, Subscribe
  <2>5. Requests'
    BY <1>5, <2>1, <2>2 DEF Requests
  <2> QED
    BY <1>2, <1>4, <1>6, <2>1, <2>3, <2>4, <2>5 DEF IInv
<1>7. CASE ~ Serves
  BY <1>2, <1>3, <1>4, <1>7 DEF IInv, Subscribe, Echoes, service
<1> QED
  BY <1>6, <1>7

LEMMA FetchStep == ASSUME IInv, NEW i \in Task, Fetch(i) PROVE IInv'
<1> USE SameList
<1>1. Serves /\ TypeOK /\ UNCHANGED <<config, main, awaited, writers, gone, version, service, request>>
  BY DEF Fetch, IInv, Serves
<1>2. PICK t \in {"sent", "panicked"} :
        /\ task' = [task EXCEPT ![i] = t]
        /\ channel' = IF t = "sent" THEN Append(channel, <<Built[i], i>>) ELSE channel
  BY DEF Fetch
<1>3. /\ task[i] = "fetching"
      /\ \A m \in Task : task'[m] = IF m = i THEN t ELSE task[m]
  BY <1>1, <1>2 DEF Fetch, TypeOK
<1>4. i \notin 1..awaited
  BY <1>3 DEF IInv, Builds
<1>5. Builds'
  BY <1>1, <1>3, <1>4 DEF IInv, Builds, Fetch
<1>6. Handlers'
  BY <1>1, <1>3, <1>4 DEF IInv, Handlers
<1>7. Offered' = IF t = "sent" THEN Offered \cup {i} ELSE Offered
  BY <1>1, <1>3 DEF Offered
<1>8. i \notin Offered
  BY <1>3 DEF Offered
<1>9. IsFiniteSet(Offered) /\ Cardinality(Offered) \in Nat
  BY <1>1, FewOffers
<1>10. channel \in Seq(Entry) /\ <<Built[i], i>> \in Entry /\ Len(channel) \in Nat
  BY <1>1 DEF IInv, Offers, Entry
<1>11. Cardinality(Offered') = received + Len(channel')
  <2>1. CASE t = "sent"
    <3>1. Cardinality(Offered') = Cardinality(Offered) + 1
      BY <1>7, <1>8, <1>9, <2>1, FS_AddElement
    <3>2. Len(channel') = Len(channel) + 1
      BY <1>2, <1>10, <2>1
    <3> QED
      BY <1>1, <1>10, <3>1, <3>2 DEF IInv, Offers, TypeOK
  <2>2. CASE t # "sent"
    BY <1>1, <1>2, <1>7, <2>2 DEF IInv, Offers
  <2> QED
    BY <2>1, <2>2
<1>12. TypeOK'
  <2>1. task' \in [Task -> {"none", "fetching", "sent", "built", "panicked"}]
    BY <1>1, <1>2 DEF TypeOK
  <2>2. received + Len(channel') <= Awaits
    <3>1. Cardinality(Offered') <= Awaits
      BY <1>1, <1>7, List, FS_Subset DEF Offered
    <3> QED
      BY <1>11, <3>1
  <2>3. Len(channel') \in Nat
    BY <1>2, <1>10
  <2>4. \A m \in Task : version'[m] > 0 <=> (task'[m] = "built" /\ config.output = "serve")
    BY <1>1, <1>3 DEF TypeOK
  <2> QED
    BY <1>1, <2>1, <2>2, <2>4 DEF TypeOK, service
<1>13. Offers'
  <2>1. CASE t = "sent"
    <3>1. /\ channel' \in Seq(Entry)
          /\ DOMAIN channel' = DOMAIN channel \cup {Len(channel) + 1}
          /\ \A j \in DOMAIN channel : channel'[j] = channel[j]
          /\ channel'[Len(channel) + 1] = <<Built[i], i>>
      BY <1>2, <1>10, <2>1
    <3>2. \A j \in DOMAIN channel' : channel'[j][2] \in Offered'
      BY <1>1, <1>7, <2>1, <3>1 DEF IInv, Offers
    <3>3. \A k \in DOMAIN registry' : registry'[k] \in Offered' /\ Built[registry'[k]] = k
      BY <1>1, <1>7, <2>1 DEF IInv, Offers, service
    <3>4. \A m \in Offered' :
            Built[m] \in DOMAIN registry' \/ \E j \in DOMAIN channel' : channel'[j] = <<Built[m], m>>
      BY <1>1, <1>7, <2>1, <3>1 DEF IInv, Offers, service
    <3> QED
      BY <1>1, <1>11, <3>1, <3>2, <3>3, <3>4 DEF Offers, service
  <2>2. CASE t # "sent"
    BY <1>1, <1>2, <1>7, <2>2 DEF IInv, Offers, service
  <2> QED
    BY <2>1, <2>2
<1>14. Listening'
  BY <1>1, <1>8 DEF IInv, Listening, Fetch, service
<1>15. Requests'
  BY <1>1, <1>7 DEF IInv, Requests
<1> QED
  BY <1>1, <1>5, <1>6, <1>12, <1>13, <1>14, <1>15 DEF IInv

LEMMA PublishStep == ASSUME IInv, NEW i \in Task, Publish(i) PROVE IInv'
<1> USE SameList
<1>1. /\ TypeOK /\ task[i] = "sent"
      /\ UNCHANGED <<config, main, awaited, writers, gone, channel, service, request>>
      /\ version' = [version EXCEPT ![i] = 1] /\ task' = [task EXCEPT ![i] = "built"]
  BY DEF Publish, IInv
<1>2. Serves
  BY <1>1 DEF IInv, Echoes
<1>3. /\ \A m \in Task : task'[m] = IF m = i THEN "built" ELSE task[m]
      /\ \A m \in Task : version'[m] = IF m = i THEN 1 ELSE version[m]
      /\ \A m \in Task : version[m] \in Nat
      /\ version[i] = 0
  BY <1>1, BoundAssumption DEF TypeOK
<1>4. TypeOK'
  <2>1. task' \in [Task -> {"none", "fetching", "sent", "built", "panicked"}]
    BY <1>1 DEF TypeOK
  <2>2. version' \in [Task -> 0..MaxVersion]
    BY <1>1, BoundAssumption DEF TypeOK
  <2>3. \A m \in Task : version'[m] > 0 <=> (task'[m] = "built" /\ config.output = "serve")
    BY <1>1, <1>2, <1>3 DEF TypeOK, Serves
  <2> QED
    BY <1>1, <2>1, <2>2, <2>3 DEF TypeOK, service
<1>5. i \notin 1..awaited
  BY <1>1 DEF IInv, Builds
<1>6. Builds' /\ Handlers'
  BY <1>1, <1>3, <1>5 DEF IInv, Builds, Handlers
<1>7. Offered' = Offered
  BY <1>1, <1>3 DEF Offered
<1>8. Offers' /\ Listening'
  BY <1>1, <1>2, <1>7 DEF IInv, Offers, Listening, service
<1>9. Requests'
  BY <1>1, <1>2, <1>3, <1>7 DEF IInv, Requests, Offered
<1> QED
  BY <1>1, <1>2, <1>4, <1>6, <1>8, <1>9 DEF IInv

LEMMA BuildEchoStep == ASSUME IInv, NEW i \in Task, BuildEcho(i) PROVE IInv'
<1> USE SameList
<1>1. /\ TypeOK /\ task[i] = "fetching" /\ ~ Serves /\ config.output = "echo"
      /\ UNCHANGED <<config, main, awaited, writers, gone, version, channel, service, request>>
      /\ task' = [task EXCEPT ![i] = "built"] /\ main = "building"
  BY DEF BuildEcho, IInv, Serves
<1>2. \A m \in Task : task'[m] = IF m = i THEN "built" ELSE task[m]
  BY <1>1 DEF TypeOK
<1>3. TypeOK'
  <2>1. task' \in [Task -> {"none", "fetching", "sent", "built", "panicked"}]
    BY <1>1 DEF TypeOK
  <2>2. \A m \in Task : version[m] > 0 <=> (task'[m] = "built" /\ config.output = "serve")
    BY <1>1, <1>2 DEF TypeOK
  <2> QED
    BY <1>1, <2>1, <2>2 DEF TypeOK, service
<1>4. i \notin 1..awaited
  BY <1>1 DEF IInv, Builds
<1>5. Builds' /\ Handlers'
  BY <1>1, <1>2, <1>4 DEF IInv, Builds, Handlers
<1>6. Echoes'
  BY <1>1, <1>2 DEF IInv, Echoes, service
<1> QED
  BY <1>1, <1>3, <1>5, <1>6 DEF IInv

LEMMA AwaitStep == IInv /\ Await => IInv'
<1> SUFFICES ASSUME IInv, Await PROVE IInv'
  OBVIOUS
<1> USE SameList, SameTasks
<1> DEFINE i == awaited + 1
<1>1. /\ TypeOK /\ awaited \in Nat /\ i \in Task /\ task[i] \in {"built", "panicked"}
      /\ awaited' = i /\ main = "building"
      /\ UNCHANGED <<config, main, task, version, channel, service, request>>
  BY DEF Await, IInv, TypeOK
<1>2. 1..i = (1..awaited) \cup {i} /\ i \notin 1..awaited
  BY <1>1
<1>3. Builds'
  BY <1>1, <1>2 DEF IInv, Builds
<1>4. CASE task[i] = "built"
  <2>1. /\ writers' = Put(writers, Built[i], i)
        /\ gone' = IF Built[i] \in DOMAIN writers THEN gone \cup {writers[Built[i]]} ELSE gone
    BY <1>4 DEF Await
  <2>2. /\ DOMAIN writers' = DOMAIN writers \cup {Built[i]}
        /\ \A s \in DOMAIN writers' : writers'[s] = IF s = Built[i] THEN i ELSE writers[s]
    BY <2>1 DEF Put
  <2>3. i \notin gone /\ \A s \in DOMAIN writers : writers[s] # i
    BY <1>2 DEF IInv, Handlers
  <2>4. \A s \in DOMAIN writers' : Built[writers'[s]] = s /\ writers'[s] \notin gone'
    BY <1>1, <2>1, <2>2, <2>3 DEF TypeOK
  <2>5. TypeOK'
    BY <1>1, <2>4 DEF TypeOK, service
  <2>6. gone' \subseteq 1..i
    BY <1>2, <2>1 DEF IInv, Handlers
  <2>7. \A s \in DOMAIN writers' :
          writers'[s] \in Task /\ writers'[s] \in 1..i /\ task[writers'[s]] = "built"
    BY <1>1, <1>2, <1>4, <2>2 DEF IInv, Handlers
  <2>8. ASSUME NEW m \in Task, m \in 1..i, task[m] = "built"
        PROVE  /\ m \in gone' \/ (Built[m] \in DOMAIN writers' /\ writers'[Built[m]] = m)
               /\ Built[m] \in DOMAIN writers'
    <3>1. CASE m = i
      BY <2>2, <3>1
    <3>2. CASE m # i
      <4>1. /\ m \in gone \/ (Built[m] \in DOMAIN writers /\ writers[Built[m]] = m)
            /\ Built[m] \in DOMAIN writers
        BY <1>1, <1>2, <2>8, <3>2 DEF IInv, Handlers
      <4> QED
        BY <2>1, <2>2, <4>1
    <3> QED
      BY <3>1, <3>2
  <2>9. Handlers'
    BY <1>1, <2>6, <2>7, <2>8 DEF Handlers
  <2> QED
    BY <1>1, <1>3, <2>5, <2>9
       DEF IInv, Offers, Listening, Requests, Echoes, service
<1>5. CASE task[i] # "built"
  <2>1. UNCHANGED <<writers, gone>>
    BY <1>5 DEF Await
  <2>2. TypeOK'
    BY <1>1, <2>1 DEF TypeOK, service
  <2>3. Handlers'
    BY <1>1, <1>2, <1>5, <2>1 DEF IInv, Handlers
  <2> QED
    BY <1>1, <1>3, <2>2, <2>3
       DEF IInv, Offers, Listening, Requests, Echoes, service
<1> QED
  BY <1>4, <1>5

LEMMA StartLoopStep == IInv /\ StartLoop => IInv'
<1> SUFFICES ASSUME IInv, StartLoop PROVE IInv'
  OBVIOUS
<1> USE SameList, SameTasks
<1>1. /\ TypeOK /\ main = "building" /\ main' = "streaming" /\ awaited = Len(Built)
      /\ UNCHANGED <<config, task, awaited, writers, gone, version, channel, service, request>>
  BY DEF StartLoop, IInv
<1>2. Serves => awaited = Len(config.list)
  BY <1>1, List
<1>3. TypeOK' /\ Builds' /\ Handlers'
  BY <1>1, <1>2 DEF IInv, TypeOK, Builds, Handlers, service
<1>4. CASE Serves
  <2>1. Offers' /\ Listening'
    BY <1>1, <1>4 DEF IInv, Offers, Listening, service
  <2>2. Requests'
    BY <1>1, <1>4 DEF IInv, Requests
  <2> QED
    BY <1>1, <1>3, <1>4, <2>1, <2>2 DEF IInv
<1>5. CASE ~ Serves
  BY <1>1, <1>3, <1>5 DEF IInv, Echoes, service
<1> QED
  BY <1>4, <1>5

LEMMA UpdateStep == IInv /\ Update => IInv'
<1> SUFFICES ASSUME IInv, Update PROVE IInv'
  OBVIOUS
<1> USE SameList, SameTasks
<1>1. PICK s \in DOMAIN writers :
        version[writers[s]] < MaxVersion /\ version' = [version EXCEPT ![writers[s]] = @ + 1]
  BY DEF Update
<1>2. /\ TypeOK /\ Serves /\ main = "streaming"
      /\ UNCHANGED <<config, main, task, awaited, writers, gone, channel, service, request>>
  BY DEF Update, IInv, Serves
<1>3. writers[s] \in Task /\ task[writers[s]] = "built"
  BY DEF IInv, Handlers
<1>4. /\ \A m \in Task : version[m] \in Nat
      /\ \A m \in Task : version'[m] = IF m = writers[s] THEN version[m] + 1 ELSE version[m]
  BY <1>1, <1>2 DEF TypeOK
<1>5. TypeOK'
  <2>1. version' \in [Task -> 0..MaxVersion]
    BY <1>1, <1>2, <1>3, <1>4, BoundAssumption DEF TypeOK
  <2>2. \A m \in Task : version'[m] > 0 <=> (task[m] = "built" /\ config.output = "serve")
    BY <1>2, <1>3, <1>4 DEF TypeOK, Serves
  <2> QED
    BY <1>2, <2>1, <2>2 DEF TypeOK, service
<1>6. Builds' /\ Handlers'
  BY <1>2 DEF IInv, Builds, Handlers
<1>7. Requests'
  BY <1>2, <1>4 DEF IInv, Requests, Offered
<1>8. Offers' /\ Listening'
  BY <1>2 DEF IInv, Offers, Listening, service
<1> QED
  BY <1>2, <1>5, <1>6, <1>7, <1>8 DEF IInv

LEMMA EndStreamStep == IInv /\ EndStream => IInv'
<1> SUFFICES ASSUME IInv, EndStream PROVE IInv'
  OBVIOUS
<1> USE SameList, SameTasks
<1>1. /\ TypeOK /\ main' = "ended" /\ writers' = <<>>
      /\ gone' = gone \cup {writers[s] : s \in DOMAIN writers}
      /\ UNCHANGED <<config, task, awaited, version, channel, service, request>>
  BY DEF EndStream, IInv
<1>2. DOMAIN writers' = {}
  BY <1>1
<1>3. TypeOK'
  BY <1>1, <1>2 DEF TypeOK, service
<1>4. Builds' /\ Handlers'
  <2>1. Builds'
    BY <1>1 DEF IInv, Builds
  <2>2. gone' \subseteq 1..awaited
    BY <1>1 DEF IInv, Handlers
  <2>3. \A i \in Task : i \in 1..awaited /\ task[i] = "built" => i \in gone'
    <3>1. \A i \in Task : i \in 1..awaited /\ task[i] = "built" =>
            i \in gone \/ (Built[i] \in DOMAIN writers /\ writers[Built[i]] = i)
      BY DEF IInv, Handlers
    <3>2. \A s \in DOMAIN writers : writers[s] \in gone'
      BY <1>1
    <3> QED
      BY <1>1, <3>1, <3>2
  <2> QED
    BY <1>1, <1>2, <2>1, <2>2, <2>3 DEF Handlers
<1>5. CASE Serves
  <2>1. Offers' /\ Listening'
    BY <1>1, <1>5 DEF IInv, Offers, Listening, service
  <2>2. Requests'
    BY <1>1, <1>5 DEF IInv, Requests
  <2> QED
    BY <1>1, <1>3, <1>4, <1>5, <2>1, <2>2 DEF IInv
<1>6. CASE ~ Serves
  BY <1>1, <1>3, <1>4, <1>6 DEF IInv, Echoes, service
<1> QED
  BY <1>5, <1>6

LEMMA ExitStep == IInv /\ Exit => IInv'
<1> SUFFICES ASSUME IInv, Exit PROVE IInv'
  OBVIOUS
<1> USE SameList, SameTasks
<1>1. TypeOK' /\ Builds' /\ Handlers'
  BY DEF IInv, Exit, TypeOK, Builds, Handlers, service
<1> QED
  BY <1>1 DEF IInv, Exit, Offers, Listening, Requests, Echoes, service

-----------------------------------------------------------------------------
\* The server.

LEMMA ReceiveStep == IInv /\ Receive => IInv'
<1> SUFFICES ASSUME IInv, Receive PROVE IInv'
  OBVIOUS
<1> USE SameList, SameTasks
<1> DEFINE h == Head(channel)[2]
<1>1. /\ TypeOK /\ server = "waiting" /\ channel # <<>>
      /\ registry' = Put(registry, Upper[Head(channel)[1]], h)
      /\ received' = received + 1 /\ channel' = Tail(channel)
      /\ UNCHANGED <<config, stream, server, request, answer>>
  BY DEF Receive, IInv
<1>2. Serves
  BY <1>1 DEF IInv, Echoes
<1>3. Offers
  BY <1>2 DEF IInv
<1>4. /\ channel \in Seq(Entry) /\ Head(channel) = channel[1] /\ 1 \in DOMAIN channel
      /\ Len(channel) \in Nat /\ Len(channel') = Len(channel) - 1
      /\ channel' \in Seq(Entry)
      /\ \A j \in DOMAIN channel : j = 1 \/ (j - 1 \in DOMAIN channel' /\ channel'[j - 1] = channel[j])
      /\ \A j \in DOMAIN channel' : j + 1 \in DOMAIN channel /\ channel'[j] = channel[j + 1]
  BY <1>1, <1>3 DEF Offers
<1>5. h \in Offered /\ h \in Task /\ Head(channel) = <<Built[h], h>>
  BY <1>3, <1>4 DEF Offers, Entry, Offered
<1>6. Upper[Head(channel)[1]] = Built[h]
  BY <1>1, <1>2, <1>5, List
<1>7. /\ DOMAIN registry' = DOMAIN registry \cup {Built[h]}
      /\ \A k \in DOMAIN registry' : registry'[k] = IF k = Built[h] THEN h ELSE registry[k]
  BY <1>1, <1>6 DEF Put
<1>8. TypeOK'
  <2>1. \A k \in DOMAIN registry' : registry'[k] \in Task
    BY <1>1, <1>5, <1>7 DEF TypeOK
  <2>2. received' \in Nat /\ received' + Len(channel') <= Awaits
    BY <1>1, <1>4 DEF TypeOK
  <2> QED
    BY <1>1, <2>1, <2>2 DEF TypeOK, stream
<1>9. Builds' /\ Handlers'
  BY <1>1 DEF IInv, Builds, Handlers, stream
<1>10. Offers'
  <2>1. Cardinality(Offered) = received' + Len(channel')
    BY <1>1, <1>3, <1>4 DEF Offers, TypeOK
  <2>2. \A j \in DOMAIN channel' : channel'[j][2] \in Offered
    BY <1>3, <1>4 DEF Offers
  <2>3. \A k \in DOMAIN registry' : registry'[k] \in Offered /\ Built[registry'[k]] = k
    BY <1>3, <1>5, <1>7 DEF Offers
  <2>4. ASSUME NEW m \in Offered
        PROVE  Built[m] \in DOMAIN registry' \/ \E j \in DOMAIN channel' : channel'[j] = <<Built[m], m>>
    <3>1. CASE Built[m] \in DOMAIN registry
      BY <1>7, <3>1
    <3>2. CASE Built[m] \notin DOMAIN registry
      <4>1. PICK j \in DOMAIN channel : channel[j] = <<Built[m], m>>
        BY <1>3, <3>2 DEF Offers
      <4>2. CASE j = 1
        <5>1. h = m
          BY <1>4, <4>1, <4>2
        <5> QED
          BY <1>7, <5>1
      <4>3. CASE j # 1
        BY <1>4, <4>1, <4>3
      <4> QED
        BY <4>2, <4>3
    <3> QED
      BY <3>1, <3>2
  <2> QED
    BY <1>1, <1>4, <2>1, <2>2, <2>3, <2>4 DEF Offers, stream
<1>11. Listening' /\ Requests'
  BY <1>1, <1>2 DEF IInv, Listening, Requests, stream
<1> QED
  BY <1>1, <1>2, <1>8, <1>9, <1>10, <1>11 DEF IInv, stream

LEMMA ListenStep == IInv /\ Listen => IInv'
<1> SUFFICES ASSUME IInv, Listen PROVE IInv'
  OBVIOUS
<1> USE SameList, SameTasks
<1>1. /\ TypeOK /\ server = "waiting" /\ server' \in {"listening", "panicked"}
      /\ received = Awaits \/ (channel = <<>> /\ Closed)
      /\ UNCHANGED <<config, stream, channel, received, registry, request, answer>>
  BY DEF Listen, IInv
<1>2. Serves /\ Offers
  BY <1>1 DEF IInv, Echoes
<1>3. Listening'
  <2>1. CASE received = Awaits
    <3>1. Cardinality(Offered) = Awaits + Len(channel) /\ Len(channel) \in Nat
      BY <1>2, <2>1 DEF Offers
    <3>2. Len(channel) = 0 /\ Offered = Task
      BY <1>1, <1>2, <3>1, FewOffers, List
    <3>3. channel = <<>>
      BY <1>2, <3>2 DEF Offers
    <3> QED
      BY <1>1, <3>2, <3>3 DEF Listening, stream
  <2>2. CASE channel = <<>> /\ Closed
    BY <1>1, <2>2 DEF Listening, Closed, stream
  <2> QED
    BY <1>1, <2>1, <2>2
<1>4. TypeOK' /\ Builds' /\ Handlers'
  BY <1>1 DEF IInv, TypeOK, Builds, Handlers, stream
<1>5. Offers' /\ Requests'
  BY <1>1, <1>2 DEF IInv, Offers, Requests, stream
<1> QED
  BY <1>1, <1>2, <1>3, <1>4, <1>5 DEF IInv, stream

LEMMA AskStep == IInv /\ Ask => IInv'
<1> SUFFICES ASSUME IInv, Ask PROVE IInv'
  OBVIOUS
<1> USE SameList, SameTasks
<1>1. TypeOK /\ server = "listening" /\ UNCHANGED <<config, stream, channel, service, answer>>
  BY DEF Ask, IInv
<1>2. Serves /\ Offers
  BY <1>1 DEF IInv, Echoes
<1>3. TypeOK' /\ Builds' /\ Handlers'
  BY <1>1 DEF IInv, TypeOK, Builds, Handlers, stream, service
<1>4. Offers' /\ Listening'
  BY <1>1, <1>2 DEF IInv, Offers, Listening, stream, service
<1>5. PICK k : request' = IF k \in DOMAIN registry
                          THEN [key |-> k, found |-> registry[k], floor |-> version[registry[k]]]
                          ELSE [NoRequest EXCEPT !.key = k]
  BY DEF Ask
<1>6. Requests'
  <2>1. CASE k \in DOMAIN registry
    <3>1. registry[k] \in Offered /\ version[registry[k]] \in Nat
      BY <1>1, <1>2, <2>1, BoundAssumption DEF Offers, TypeOK
    <3> QED
      BY <1>1, <1>5, <2>1, <3>1 DEF Requests, stream
  <2>2. CASE k \notin DOMAIN registry
    BY <1>5, <2>2 DEF Requests, NoRequest
  <2> QED
    BY <2>1, <2>2
<1> QED
  BY <1>1, <1>2, <1>3, <1>4, <1>6 DEF IInv

LEMMA AnswerStep == IInv /\ Answer => IInv'
<1> SUFFICES ASSUME IInv, Answer PROVE IInv'
  OBVIOUS
<1> USE SameList, SameTasks
<1>1. TypeOK' /\ Builds' /\ Handlers'
  BY DEF IInv, Answer, TypeOK, Builds, Handlers, stream, service
<1>2. UNCHANGED <<config, stream, channel, service>> /\ request' = NoRequest
  BY DEF Answer
<1>3. CASE Serves
  <2>1. Offers' /\ Listening'
    BY <1>2, <1>3 DEF IInv, Offers, Listening, stream, service
  <2>2. Requests'
    BY <1>2 DEF Requests, NoRequest
  <2> QED
    BY <1>1, <1>2, <1>3, <2>1, <2>2 DEF IInv
<1>4. CASE ~ Serves
  BY <1>1, <1>2, <1>4 DEF IInv, Echoes, stream, service
<1> QED
  BY <1>3, <1>4

LEMMA Step == IInv /\ [Next]_vars => IInv'
<1> SUFFICES ASSUME IInv, [Next]_vars PROVE IInv'
  OBVIOUS
<1>1. CASE UNCHANGED vars
  <2> USE SameList, SameTasks
  <2>1. TypeOK' /\ Builds' /\ Handlers'
    BY <1>1 DEF IInv, TypeOK, Builds, Handlers, vars, stream, service
  <2> QED
    BY <1>1, <2>1 DEF IInv, Offers, Listening, Requests, Echoes, vars, stream, service
<1>2. CASE \E i \in Task : Fetch(i) \/ Publish(i) \/ BuildEcho(i)
  BY <1>2, FetchStep, PublishStep, BuildEchoStep
<1> QED
  BY <1>1, <1>2, StartStep, SubscribeStep, AwaitStep, StartLoopStep, UpdateStep, EndStreamStep,
     ExitStep, ReceiveStep, ListenStep, AskStep, AnswerStep DEF Next

-----------------------------------------------------------------------------
\* The theorems.

(***************************************************************************)
(* The inductive invariant: every factory that was sent is under way or    *)
(* registered, a handler that was built is kept or has been replaced, and  *)
(* a server that listens has nothing left to wait for.                     *)
(***************************************************************************)
THEOREM Invariance == Spec => []IInv
<1> QED
  BY InitIInv, Step, PTL DEF Spec

(***************************************************************************)
(* For every list of symbols, whatever builds fail and in whatever order   *)
(* they end: what streams is served, and a symbol that is listed once is   *)
(* served from the book that its updates go to.                            *)
(***************************************************************************)
THEOREM StreamingIsServed == Spec => []ListedIsServed
<1>1. ASSUME IInv PROVE ListedIsServed
  <2> SUFFICES ASSUME server = "listening", main = "streaming"
               PROVE  /\ DOMAIN registry = DOMAIN writers
                      /\ \A s \in DOMAIN writers : ListedOnce(s) => registry[s] = writers[s]
                      /\ \A s \in DOMAIN writers : registry[s] # writers[s] => registry[s] \in gone
    BY DEF ListedIsServed
  <2>1. Serves /\ TypeOK /\ Offers /\ channel = <<>>
    BY <1>1 DEF IInv, Echoes, Listening
  <2>2. \A i \in Task : i \in 1..awaited
    BY <1>1, <2>1, List DEF IInv, Builds
  <2>3. \A i \in Offered : i \in Task /\ task[i] = "built"
    BY <1>1, <2>2 DEF IInv, Builds, Offered
  <2>4. \A i \in Offered : Built[i] \in DOMAIN writers /\ (i \in gone \/ writers[Built[i]] = i)
    BY <1>1, <2>2, <2>3 DEF IInv, Handlers
  <2>5. \A s \in DOMAIN writers : writers[s] \in Offered /\ Built[writers[s]] = s
    BY <1>1, <2>1 DEF IInv, Handlers, Offered, TypeOK
  <2>6. DOMAIN registry = DOMAIN writers
    <3>1. \A k \in DOMAIN registry : k \in DOMAIN writers
      BY <2>1, <2>4 DEF Offers
    <3>2. \A s \in DOMAIN writers : s \in DOMAIN registry
      BY <2>1, <2>5 DEF Offers
    <3> QED
      BY <3>1, <3>2
  <2>7. \A s \in DOMAIN writers : registry[s] \in Offered /\ Built[registry[s]] = s
    BY <2>1, <2>6 DEF Offers
  <2>8. \A s \in DOMAIN writers : registry[s] # writers[s] => registry[s] \in gone
    BY <2>4, <2>7
  <2>9. ASSUME NEW s \in DOMAIN writers, ListedOnce(s)
        PROVE  registry[s] = writers[s]
    <3> DEFINE same == {i \in Task : Built[i] = s}
    <3>1. IsFiniteSet(same)
      BY <2>1, List, FS_Subset
    <3>2. Cardinality(same) = 1
      BY <2>9 DEF ListedOnce
    <3>3. PICK x : same = {x}
      BY <3>1, <3>2, FS_Singleton
    <3>4. registry[s] \in same /\ writers[s] \in same
      BY <2>3, <2>5, <2>7
    <3> QED
      BY <3>3, <3>4
  <2> QED
    BY <2>6, <2>8, <2>9
<1> QED
  BY Invariance, <1>1, PTL

(***************************************************************************)
(* However a request falls among the updates of its book, the builds and   *)
(* the end of the stream: its answer has every update published before the *)
(* request came, and no book outlives its writer.                          *)
(***************************************************************************)
THEOREM FreshAnswers == Spec => AnswersAreFresh
<1> DEFINE asked == answer'.request
           Fresh == request # NoRequest /\ request' = NoRequest =>
                      IF answer'.book = NotFound THEN asked.found = 0 \/ asked.found \in gone
                      ELSE /\ asked.found \notin gone
                           /\ answer'.book >= asked.floor
                           /\ main = "streaming" => answer'.book >= 1
<1>1. ASSUME IInv, [Next]_vars, request # NoRequest, request' = NoRequest
      PROVE  Answer
  BY <1>1 DEF Next, vars, stream, service, Start, Subscribe, Fetch, Publish, BuildEcho, Await,
              StartLoop, Update, EndStream, Exit, Receive, Listen, Ask
<1>2. ASSUME IInv, [Next]_vars PROVE Fresh
  <2> SUFFICES ASSUME request # NoRequest, request' = NoRequest PROVE Fresh
    OBVIOUS
  <2>1. asked = request /\ answer'.book = Enter(request.found)
    BY <1>1, <1>2 DEF Answer
  <2>2. CASE request.found = 0 \/ request.found \in gone
    BY <2>1, <2>2 DEF Enter
  <2>3. CASE request.found # 0 /\ request.found \notin gone
    <3> DEFINE i == request.found
    <3>1. Serves /\ TypeOK /\ i \in Offered /\ request.floor \in Nat
            /\ request.floor <= version[i]
      BY <1>2, <2>3 DEF IInv, Echoes, Requests
    <3>2. i \in Task /\ version[i] \in Nat
      BY <3>1, BoundAssumption DEF Offered, TypeOK
    <3>3. answer'.book = version[i] /\ answer'.book # NotFound
      BY <2>1, <2>3, <3>2 DEF Enter, NotFound
    <3>4. main = "streaming" => version[i] >= 1
      <4> SUFFICES ASSUME main = "streaming" PROVE version[i] >= 1
        OBVIOUS
      <4>1. task[i] = "built"
        BY <1>2, <3>1, <3>2, List DEF IInv, Builds, Offered
      <4> QED
        BY <3>1, <3>2, <4>1 DEF TypeOK, Serves
    <3> QED
      BY <2>1, <2>3, <3>1, <3>3, <3>4
  <2> QED
    BY <2>2, <2>3
<1> QED
  BY Invariance, <1>2, PTL DEF AnswersAreFresh, Spec

=============================================================================

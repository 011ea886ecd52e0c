----------------------------- MODULE Proxy_proofs -----------------------------
(***************************************************************************)
(* Proofs about Proxy, for any number of threads, aggregators and lines    *)
(* and any capacity: the types, that only a line in a thread's hands can   *)
(* be overtaken, and that every line is in one place.                      *)
(***************************************************************************)
EXTENDS Proxy, FiniteSetTheorems, TLAPS

(* How many lines have left the queue, and where they are. *)
Taken == Len(entered) - Len(queue)
Out   == (Range(hand) \cup Handled) \ {NoMetric}

(* The queue is what is left of the lines that entered, each of them once,  *)
(* and those that have left it are in a thread's hands or handled.          *)
QueueInv ==
  /\ Len(queue) <= Len(entered)
  /\ \A i \in 1..Len(queue) : queue[i] = entered[Taken + i]
  /\ \A i, j \in 1..Len(entered) : entered[i] = entered[j] => i = j
  /\ \A i \in 1..Len(entered) : entered[i] \notin fresh
  /\ Out = {entered[i] : i \in 1..Taken}

IInv == TypeOK /\ QueueInv

-----------------------------------------------------------------------------
LEMMA IndexIsDest ==
  ASSUME destinations \in Nat, destinations # 0, NEW m \in Metric, KeyOf[m] # NoKey
  PROVE  Index(m) \in Dest
<1>1. StrHash[KeyOf[m]] \in Nat
  BY ProxyAssumption
<1> QED
  BY <1>1 DEF Index, Dest

LEMMA SameDest == destinations' = destinations => Dest' = Dest
  BY DEF Dest

LEMMA TypeInit == Init => TypeOK
<1> SUFFICES ASSUME Init PROVE TypeOK
  OBVIOUS
<1>1. sent \in [Dest -> Seq(Metric)]
  BY DEF Init
<1>2. /\ queue \in Seq(Metric) /\ entered \in Seq(Metric)
      /\ Len(queue) <= QueueCapacity
  BY ProxyAssumption DEF Init
<1>3. metrics_dropped \in Nat /\ bad_lines_seen \in Nat
  BY ProxyAssumption DEF Init
<1> QED
  BY <1>1, <1>2, <1>3 DEF Init, TypeOK

LEMMA SubmitType ==
  ASSUME TypeOK, NEW m \in Metric, Submit(m)
  PROVE  /\ queue' \in Seq(Metric) /\ Len(queue') <= QueueCapacity
         /\ entered' \in Seq(Metric) /\ lost' \subseteq Metric
         /\ metrics_dropped' \in Nat
<1>0. Len(queue) \in Nat /\ QueueCapacity \in Nat
  BY ProxyAssumption DEF TypeOK
<1>1. CASE Len(queue) < QueueCapacity
  <2>1. /\ Len(Append(queue, m)) = Len(queue) + 1
        /\ Append(queue, m) \in Seq(Metric) /\ Append(entered, m) \in Seq(Metric)
    BY DEF TypeOK
  <2>2. /\ queue' = Append(queue, m) /\ entered' = Append(entered, m)
        /\ UNCHANGED <<lost, metrics_dropped>>
    BY <1>1 DEF Submit
  <2>3. Len(queue) + 1 <= QueueCapacity
    BY <1>0, <1>1
  <2> QED
    BY <2>1, <2>2, <2>3 DEF TypeOK
<1>2. CASE ~(Len(queue) < QueueCapacity)
  BY <1>2 DEF TypeOK, Submit
<1> QED
  BY <1>1, <1>2

LEMMA ServerStepType == ASSUME TypeOK, ServerStep PROVE TypeOK'
<1>1. ASSUME NEW m \in Metric, Consume(m) PROVE TypeOK'
  BY <1>1, SubmitType, SameDest DEF TypeOK, ServerStep, Consume, threads
<1>2. ASSUME NEW m \in Metric, ConsumeNoMemory(m) PROVE TypeOK'
  BY <1>2, SameDest DEF TypeOK, ServerStep, ConsumeNoMemory, lines, threads
<1>3. CASE Request \/ Reply
  BY <1>3, SameDest DEF TypeOK, ServerStep, Request, Reply, lines, arrival
<1> QED
  BY <1>1, <1>2, <1>3 DEF ServerStep

LEMMA MainStepType == ASSUME TypeOK, MainStep PROVE TypeOK'
<1>1. ASSUME NEW t \in Thread, CreateThread(t) PROVE TypeOK'
  BY <1>1, SameDest DEF TypeOK, MainStep, CreateThread, lines, arrival
<1>2. CASE ConstructorThrows \/ StartServers \/ StopServers \/ LeaveServer \/ DestroyWorker
  BY <1>2, SameDest DEF TypeOK, MainStep, ConstructorThrows, StartServers, StopServers,
                        LeaveServer, DestroyWorker, lines, arrival, threads
<1> QED
  BY <1>1, <1>2 DEF MainStep

LEMMA ForwardType ==
  ASSUME TypeOK, NEW m \in Metric, Forward(m), destinations' = destinations
  PROVE  /\ banned' \subseteq Metric /\ bad' \subseteq Metric /\ kept' \subseteq Metric
         /\ sent' \in [Dest' -> Seq(Metric)]
         /\ bad_lines_seen' \in Nat
<1>1. destinations \in Nat /\ Dest' = Dest
  BY ProxyAssumption DEF TypeOK, Dest
<1>2. CASE destinations = 0
  BY <1>1, <1>2, SameDest DEF TypeOK, Forward
<1>3. CASE destinations # 0 /\ KeyOf[m] # NoKey
  <2>1. Index(m) \in Dest
    BY <1>1, <1>3, IndexIsDest
  <2>2. Append(sent[Index(m)], m) \in Seq(Metric)
    BY <2>1 DEF TypeOK
  <2> QED
    BY <1>1, <1>3, <2>1, <2>2, SameDest DEF TypeOK, Forward
<1>4. CASE destinations # 0 /\ KeyOf[m] = NoKey
  BY <1>1, <1>4, SameDest DEF TypeOK, Forward
<1> QED
  BY <1>2, <1>3, <1>4

LEMMA ThreadStepType == ASSUME TypeOK, NEW t \in Thread, ThreadStep(t) PROVE TypeOK'
<1>1. CASE ReadEnd(t)
  BY <1>1, SameDest DEF TypeOK, ThreadStep, ReadEnd, Appending, lines, arrival
<1>2. CASE StoreTid(t)
  BY <1>2, SameDest DEF TypeOK, ThreadStep, StoreTid, lines, arrival
<1>3. CASE Pop(t)
  <2>1. /\ Head(queue) \in Metric /\ Tail(queue) \in Seq(Metric)
        /\ Len(Tail(queue)) = Len(queue) - 1 /\ Len(queue) \in Nat
    BY <1>3, SameDest DEF TypeOK, Pop
  <2>2. Len(Tail(queue)) <= QueueCapacity
    BY <2>1, ProxyAssumption DEF TypeOK
  <2> QED
    BY <1>3, <2>1, <2>2, SameDest DEF TypeOK, ThreadStep, Pop, arrival, threads
<1>4. CASE Handle(t)
  <2>1. hand[t] \in Metric
    BY <1>4, SameDest DEF TypeOK, Handle
  <2>2. CASE Blacklisted(hand[t])
    BY <1>4, <2>1, <2>2, SameDest DEF TypeOK, ThreadStep, Handle, Ban, arrival, threads
  <2>3. CASE Forward(hand[t])
    BY <1>4, <2>1, <2>3, ForwardType, SameDest DEF TypeOK, ThreadStep, Handle, arrival, threads
  <2> QED
    BY <1>4, <2>2, <2>3 DEF Handle
<1>5. CASE Leave(t)
  BY <1>5, SameDest DEF TypeOK, ThreadStep, Leave, lines, arrival
<1> QED
  BY <1>1, <1>2, <1>3, <1>4, <1>5 DEF ThreadStep

LEMMA TypeStep == TypeOK /\ [Next]_vars => TypeOK'
<1> SUFFICES ASSUME TypeOK, [Next]_vars PROVE TypeOK'
  OBVIOUS
<1>1. CASE up /\ Crash
  BY <1>1, SameDest DEF TypeOK, Crash, lines, arrival, threads
<1>2. CASE UNCHANGED vars
  BY <1>2, SameDest DEF TypeOK, vars, lines, arrival, threads
<1> QED
  BY <1>1, <1>2, ServerStepType, MainStepType, ThreadStepType DEF Next

(* The variables of the proxy keep their types: in particular a line is     *)
(* sent to one of the configured aggregators (worker.cc:99), and the queue  *)
(* never holds more than its capacity (worker.h:50-57).                     *)
THEOREM TypeCorrect == Spec => []TypeOK
  BY TypeInit, TypeStep, PTL DEF Spec

-----------------------------------------------------------------------------
LEMMA QueueInit == Init => QueueInv
<1> SUFFICES ASSUME Init PROVE QueueInv
  OBVIOUS
<1>1. Len(queue) = 0 /\ Len(entered) = 0 /\ Taken = 0
  BY DEF Init, Taken
<1>2. Range(hand) \subseteq {NoMetric}
  BY DEF Init, Range
<1>3. Handled = {}
  BY DEF Init, Handled, Sent, Range
<1> QED
  BY <1>1, <1>2, <1>3 DEF QueueInv, Out

(* Steps that leave the lines that have arrived alone. *)
LEMMA LinesStay ==
  ASSUME IInv, UNCHANGED lines, fresh' \subseteq fresh
  PROVE  QueueInv'
<1>1. Out' = Out /\ Taken' = Taken
  BY DEF Out, Handled, Sent, Range, Dest, Taken, lines
<1> QED
  BY <1>1 DEF IInv, QueueInv, lines

(* A line that is queued is a new one and comes behind all others. *)
LEMMA ConsumeQueue == ASSUME IInv, NEW m \in Metric, Consume(m) PROVE QueueInv'
<1>1. Out' = Out
  BY DEF Consume, Out, Handled, Sent, Range, Dest
<1>2. fresh' = fresh \ {m} /\ m \in fresh /\ Submit(m)
  BY DEF Consume
<1>3. CASE Len(queue) < QueueCapacity
  <2>1. queue' = Append(queue, m) /\ entered' = Append(entered, m)
    BY <1>2, <1>3 DEF Submit
  <2>2. queue \in Seq(Metric) /\ entered \in Seq(Metric)
    BY DEF IInv, TypeOK
  <2>3. /\ Len(queue) \in Nat /\ Len(queue') = Len(queue) + 1
        /\ Len(entered) \in Nat /\ Len(entered') = Len(entered) + 1
        /\ \A i \in 1..Len(queue) : queue'[i] = queue[i]
        /\ queue'[Len(queue) + 1] = m
        /\ \A i \in 1..Len(entered) : entered'[i] = entered[i]
        /\ entered'[Len(entered) + 1] = m
    BY <2>1, <2>2
  <2>4. Taken' = Taken /\ Taken \in 0..Len(entered) /\ Taken + Len(queue) = Len(entered)
    BY <2>3 DEF Taken, IInv, QueueInv
  <2>5. \A i \in 1..Len(queue') : queue'[i] = entered'[Taken' + i]
    <3> SUFFICES ASSUME NEW i \in 1..Len(queue') PROVE queue'[i] = entered'[Taken' + i]
      OBVIOUS
    <3>1. CASE i = Len(queue) + 1
      BY <2>3, <2>4, <3>1
    <3>2. CASE i \in 1..Len(queue)
      BY <2>3, <2>4, <3>2 DEF IInv, QueueInv
    <3> QED
      BY <2>3, <3>1, <3>2
  <2>6. \A i \in 1..Len(entered) : entered[i] # m
    BY <1>2 DEF IInv, QueueInv
  <2>7. \A i, j \in 1..Len(entered') : entered'[i] = entered'[j] => i = j
    <3> SUFFICES ASSUME NEW i \in 1..Len(entered'), NEW j \in 1..Len(entered'),
                        entered'[i] = entered'[j]
                 PROVE  i = j
      OBVIOUS
    <3>1. i \in 1..Len(entered) \/ i = Len(entered) + 1
      BY <2>3
    <3>2. j \in 1..Len(entered) \/ j = Len(entered) + 1
      BY <2>3
    <3> QED
      BY <2>3, <2>6, <3>1, <3>2 DEF IInv, QueueInv
  <2>8. \A i \in 1..Len(entered') : entered'[i] \notin fresh'
    <3> SUFFICES ASSUME NEW i \in 1..Len(entered') PROVE entered'[i] \notin fresh'
      OBVIOUS
    <3>1. i \in 1..Len(entered) \/ i = Len(entered) + 1
      BY <2>3
    <3> QED
      BY <1>2, <2>3, <3>1 DEF IInv, QueueInv
  <2>9. {entered'[i] : i \in 1..Taken'} = {entered[i] : i \in 1..Taken}
    <3>1. 1..Taken \subseteq 1..Len(entered)
      BY <2>3, <2>4
    <3> QED
      BY <2>3, <2>4, <3>1
  <2>10. Len(queue') <= Len(entered')
    BY <2>3, <2>4
  <2>11. Out' = {entered'[i] : i \in 1..Taken'}
    BY <1>1, <2>9 DEF IInv, QueueInv
  <2> QED
    BY <2>5, <2>7, <2>8, <2>10, <2>11 DEF QueueInv
<1>4. CASE ~(Len(queue) < QueueCapacity)
  <2>1. UNCHANGED <<queue, entered>>
    BY <1>2, <1>4 DEF Submit
  <2>2. Taken' = Taken
    BY <2>1 DEF Taken
  <2> QED
    BY <1>1, <1>2, <2>1, <2>2 DEF IInv, QueueInv
<1> QED
  BY <1>3, <1>4

(* The line that a thread takes is the next one of those that entered. *)
LEMMA PopQueue == ASSUME IInv, NEW t \in Thread, Pop(t) PROVE QueueInv'
<1>1. /\ queue \in Seq(Metric) /\ entered \in Seq(Metric)
      /\ hand \in [Thread -> Metric \cup {NoMetric}]
  BY DEF IInv, TypeOK
<1>2. /\ queue # <<>> /\ queue' = Tail(queue)
      /\ hand[t] = NoMetric /\ hand' = [hand EXCEPT ![t] = Head(queue)]
      /\ UNCHANGED <<fresh, entered, destinations, banned, bad, kept, sent>>
  BY DEF Pop, arrival
<1>3. /\ Len(queue) \in Nat \ {0} /\ Len(entered) \in Nat
      /\ Len(queue') = Len(queue) - 1
      /\ \A i \in 1..Len(queue) - 1 : queue'[i] = queue[i + 1]
      /\ Head(queue) = queue[1]
  BY <1>1, <1>2
<1>4. /\ Taken' = Taken + 1 /\ Taken \in Nat
      /\ Taken + Len(queue) = Len(entered)
  BY <1>2, <1>3 DEF Taken, IInv, QueueInv
<1>5. Head(queue) = entered[Taken + 1] /\ Head(queue) \in Metric
  BY <1>1, <1>2, <1>3, <1>4 DEF IInv, QueueInv
<1>6. Out' = Out \cup {Head(queue)}
  <2>1. Handled' = Handled
    BY <1>2 DEF Handled, Sent, Range, Dest
  <2>2. Range(hand') \ {NoMetric} = (Range(hand) \ {NoMetric}) \cup {Head(queue)}
    <3>1. Head(queue) # NoMetric
      BY <1>5, ProxyAssumption
    <3>2. /\ \A u \in Thread : u # t => hand'[u] = hand[u]
          /\ hand'[t] = Head(queue) /\ DOMAIN hand = Thread /\ DOMAIN hand' = Thread
      BY <1>1, <1>2
    <3> QED
      BY <1>2, <3>1, <3>2 DEF Range
  <2>3. Head(queue) # NoMetric
    BY <1>5, ProxyAssumption
  <2> QED
    BY <2>1, <2>2, <2>3 DEF Out
<1>7. {entered[i] : i \in 1..Taken + 1} = {entered[i] : i \in 1..Taken} \cup {entered[Taken + 1]}
  <2>1. 1..Taken + 1 = (1..Taken) \cup {Taken + 1}
    BY <1>4
  <2> QED
    BY <2>1
<1>8. \A i \in 1..Len(queue') : queue'[i] = entered'[Taken' + i]
  BY <1>2, <1>3, <1>4 DEF IInv, QueueInv
<1>9. Out' = {entered'[i] : i \in 1..Taken'}
  BY <1>2, <1>4, <1>5, <1>6, <1>7 DEF IInv, QueueInv
<1> QED
  BY <1>2, <1>3, <1>4, <1>8, <1>9 DEF IInv, QueueInv

(* What a thread does with its line puts it among the handled ones. *)
LEMMA HandleOut == ASSUME IInv, NEW t \in Thread, Handle(t) PROVE Out' = Out
<1>1. /\ hand \in [Thread -> Metric \cup {NoMetric}] /\ hand[t] \in Metric
      /\ hand[t] # NoMetric
      /\ hand' = [hand EXCEPT ![t] = NoMetric]
      /\ destinations \in Nat /\ Dest' = Dest /\ sent \in [Dest -> Seq(Metric)]
  BY SameDest, ProxyAssumption DEF Handle, IInv, TypeOK
<1>2. Handled' = Handled \cup {hand[t]}
  <2>1. CASE /\ UNCHANGED sent
             /\ \/ banned' = banned \cup {hand[t]} /\ UNCHANGED <<bad, kept>>
                \/ bad' = bad \cup {hand[t]} /\ UNCHANGED <<banned, kept>>
                \/ kept' = kept \cup {hand[t]} /\ UNCHANGED <<banned, bad>>
    <3>1. Sent' = Sent
      BY <1>1, <2>1 DEF Sent
    <3> QED
      BY <2>1, <3>1 DEF Handled
  <2>2. CASE /\ destinations # 0 /\ KeyOf[hand[t]] # NoKey
             /\ sent' = [sent EXCEPT ![Index(hand[t])] = Append(@, hand[t])]
             /\ UNCHANGED <<banned, bad, kept>>
    <3> DEFINE d == Index(hand[t])
    <3>1. d \in Dest
      BY <1>1, <2>2, IndexIsDest
    <3> HIDE DEF d
    <3>2. Range(Append(sent[d], hand[t])) = Range(sent[d]) \cup {hand[t]}
      <4>1. sent[d] \in Seq(Metric)
        BY <1>1, <3>1
      <4>2. /\ Len(sent[d]) \in Nat
            /\ DOMAIN sent[d] = 1..Len(sent[d])
            /\ DOMAIN Append(sent[d], hand[t]) = 1..Len(sent[d]) + 1
            /\ \A i \in 1..Len(sent[d]) : Append(sent[d], hand[t])[i] = sent[d][i]
            /\ Append(sent[d], hand[t])[Len(sent[d]) + 1] = hand[t]
        BY <1>1, <4>1
      <4>3. 1..Len(sent[d]) + 1 = (1..Len(sent[d])) \cup {Len(sent[d]) + 1}
        BY <4>2
      <4> QED
        BY <4>2, <4>3 DEF Range
    <3>3. /\ sent'[d] = Append(sent[d], hand[t])
          /\ \A e \in Dest : e # d => sent'[e] = sent[e]
      BY <1>1, <2>2, <3>1 DEF d
    <3>4. Range(sent'[d]) = Range(sent[d]) \cup {hand[t]}
      BY <3>2, <3>3
    <3>5. Sent' = UNION {Range(sent'[e]) : e \in Dest}
      BY <1>1 DEF Sent
    <3>6. Sent' = Sent \cup {hand[t]}
      BY <3>1, <3>3, <3>4, <3>5 DEF Sent
    <3> QED
      BY <2>2, <3>6 DEF Handled
  <2>3. CASE Ban(hand[t])
    BY <2>1, <2>3 DEF Ban
  <2>4. CASE Forward(hand[t])
    BY <2>1, <2>2, <2>4 DEF Forward
  <2> QED
    BY <2>3, <2>4 DEF Handle
<1>3. Range(hand') \ {NoMetric} \subseteq Range(hand)
  BY <1>1 DEF Range
<1>4. Range(hand) \subseteq Range(hand') \cup {hand[t]}
  <2>1. DOMAIN hand = Thread /\ DOMAIN hand' = Thread
    BY <1>1
  <2>2. \A u \in Thread : u # t => hand'[u] = hand[u]
    BY <1>1
  <2> QED
    BY <2>1, <2>2 DEF Range
<1>5. hand[t] \in Range(hand)
  BY <1>1 DEF Range
<1> QED
  BY <1>1, <1>2, <1>3, <1>4, <1>5 DEF Out

LEMMA HandleQueue == ASSUME IInv, NEW t \in Thread, Handle(t) PROVE QueueInv'
<1>1. UNCHANGED <<queue, entered, fresh>>
  BY DEF Handle, arrival
<1>2. Taken' = Taken
  BY <1>1 DEF Taken
<1> QED
  BY <1>1, <1>2, HandleOut DEF IInv, QueueInv

LEMMA IInvStep == IInv /\ [Next]_vars => IInv'
<1> SUFFICES ASSUME IInv, [Next]_vars PROVE QueueInv'
  BY TypeStep DEF IInv
<1>1. ASSUME NEW t \in Thread, ThreadStep(t) PROVE QueueInv'
  <2>1. CASE ReadEnd(t) \/ StoreTid(t) \/ Leave(t)
    BY <2>1, LinesStay DEF ReadEnd, StoreTid, Leave, arrival
  <2> QED
    BY <1>1, <2>1, PopQueue, HandleQueue DEF ThreadStep
<1>2. CASE MainStep
  BY <1>2, LinesStay DEF MainStep, CreateThread, ConstructorThrows, StartServers,
                         StopServers, LeaveServer, DestroyWorker, arrival
<1>3. CASE ServerStep
  <2>1. CASE Request \/ Reply \/ \E m \in Metric : ConsumeNoMemory(m)
    BY <2>1, LinesStay DEF Request, Reply, ConsumeNoMemory, arrival
  <2> QED
    BY <1>3, <2>1, ConsumeQueue DEF ServerStep
<1>4. CASE Crash
  BY <1>4, LinesStay DEF Crash, arrival
<1>5. CASE UNCHANGED vars
  BY <1>5, LinesStay DEF vars, arrival
<1> QED
  BY <1>1, <1>2, <1>3, <1>4, <1>5 DEF Next

(* A line that was queued before one that is handled is handled itself or in *)
(* the hands of a thread: the threads take the lines in their order          *)
(* (worker.cc:69), so at any time no more than one line per thread is late.  *)
THEOREM Overtaking == Spec => []OvertakenIsInHand
<1>1. IInv => OvertakenIsInHand
  <2> SUFFICES ASSUME IInv, NEW m \in Handled, NEW i \in 1..Position(m) - 1
               PROVE  entered[i] \in Range(hand) \cup Handled
    BY DEF OvertakenIsInHand
  <2>1. Taken \in 0..Len(entered) /\ Len(entered) \in Nat /\ DOMAIN entered = 1..Len(entered)
    BY DEF IInv, TypeOK, QueueInv, Taken
  <2>2. m \in Metric
    BY DEF Handled, Sent, Range, IInv, TypeOK
  <2>3. m \in Out
    BY <2>2, ProxyAssumption DEF Out
  <2>4. PICK j \in 1..Taken : entered[j] = m
    BY <2>3 DEF IInv, QueueInv
  <2>5. Position(m) = j
    BY <2>1, <2>4 DEF Position, IInv, QueueInv
  <2>6. i \in 1..Taken
    BY <2>1, <2>4, <2>5
  <2> QED
    BY <2>6 DEF IInv, QueueInv, Out
<1>2. Init => IInv
  BY TypeInit, QueueInit DEF IInv
<1> QED
  BY <1>1, <1>2, IInvStep, PTL DEF Spec

-----------------------------------------------------------------------------
(* The line m is in exactly one of its four places, there once. *)
Single(S) == \E x : S = {x}

Alone(m) ==
  \/ Single(Queued(m)) /\ Held(m) = {} /\ SentAs(m) = {} /\ Aside(m) = {}
  \/ Queued(m) = {} /\ Single(Held(m)) /\ SentAs(m) = {} /\ Aside(m) = {}
  \/ Queued(m) = {} /\ Held(m) = {} /\ Single(SentAs(m)) /\ Aside(m) = {}
  \/ Queued(m) = {} /\ Held(m) = {} /\ SentAs(m) = {} /\ Single(Aside(m))

AllAlone == \A m \in Metric : Alone(m)

LEMMA AloneIsOnePlace == AllAlone => OnePlace
<1> SUFFICES ASSUME NEW m \in Metric, Alone(m) PROVE Places(m) = 1
  BY DEF AllAlone, OnePlace
<1>1. \A S : Single(S) => Cardinality(S) = 1
  BY FS_Singleton DEF Single
<1>2. Cardinality({}) = 0
  BY FS_EmptySet
<1> QED
  BY <1>1, <1>2 DEF Alone, Places

LEMMA NonemptyIsSingle ==
  ASSUME NEW S, NEW x \in S, S = {} \/ Single(S)
  PROVE  S = {x}
BY DEF Single

(* Where a step moves a line from and to, the others stay. *)
LEMMA QueuedStays == ASSUME NEW m, UNCHANGED queue PROVE Queued(m)' = Queued(m)
  BY DEF Queued
LEMMA HeldStays == ASSUME NEW m, UNCHANGED hand PROVE Held(m)' = Held(m)
  BY DEF Held
LEMMA SentStays ==
  ASSUME NEW m, UNCHANGED <<destinations, sent>> PROVE SentAs(m)' = SentAs(m)
  BY DEF SentAs, Dest
LEMMA AsideStays ==
  ASSUME NEW m,
         m \in fresh' <=> m \in fresh, m \in lost' <=> m \in lost,
         m \in banned' <=> m \in banned, m \in bad' <=> m \in bad,
         m \in kept' <=> m \in kept
  PROVE  Aside(m)' = Aside(m)
  BY DEF Aside

LEMMA AllStay == ASSUME AllAlone, UNCHANGED <<lines, fresh, lost>> PROVE AllAlone'
<1> SUFFICES ASSUME NEW m \in Metric PROVE Alone(m)'
  BY DEF AllAlone
<1>1. Queued(m)' = Queued(m) /\ Held(m)' = Held(m)
  BY QueuedStays, HeldStays DEF lines
<1>2. SentAs(m)' = SentAs(m)
  BY SentStays DEF lines
<1>3. Aside(m)' = Aside(m)
  BY AsideStays DEF lines
<1> QED
  BY <1>1, <1>2, <1>3 DEF AllAlone, Alone

LEMMA AloneInit == Init => AllAlone
<1> SUFFICES ASSUME Init, NEW m \in Metric PROVE Alone(m)
  BY DEF AllAlone
<1>1. Queued(m) = {}
  BY DEF Init, Queued
<1>2. Held(m) = {}
  BY ProxyAssumption DEF Init, Held
<1>3. SentAs(m) = {}
  BY DEF Init, SentAs
<1>4. Aside(m) = {"fresh"}
  BY DEF Init, Aside
<1> QED
  BY <1>1, <1>2, <1>3, <1>4 DEF Alone, Single

(* A line that arrives is new: it goes to the queue or is lost. *)
LEMMA ConsumeAlone ==
  ASSUME TypeOK, AllAlone, NEW m \in Metric, Consume(m) \/ ConsumeNoMemory(m)
  PROVE  AllAlone'
<1> SUFFICES ASSUME NEW n \in Metric PROVE Alone(n)'
  BY DEF AllAlone
<1>1. /\ UNCHANGED <<destinations, hand, banned, bad, kept, sent>>
      /\ m \in fresh /\ fresh' = fresh \ {m}
      /\ \/ lost' = lost \cup {m} /\ UNCHANGED queue
         \/ lost' = lost /\ queue' = Append(queue, m)
  BY DEF Consume, ConsumeNoMemory, Submit, lines
<1>2. Held(n)' = Held(n) /\ SentAs(n)' = SentAs(n)
  BY <1>1, HeldStays, SentStays
<1>3. Alone(n)
  BY DEF AllAlone
<1>4. /\ queue \in Seq(Metric) /\ Len(queue) \in Nat /\ DOMAIN queue = 1..Len(queue)
  BY DEF TypeOK
<1>5. CASE n = m
  <2>1. "fresh" \in Aside(m)
    BY <1>1 DEF Aside
  <2>2. Aside(m) = {"fresh"} /\ Queued(m) = {} /\ Held(m) = {} /\ SentAs(m) = {}
    BY <1>3, <1>5, <2>1, NonemptyIsSingle DEF Alone
  <2>3. m \notin lost /\ m \notin banned /\ m \notin bad /\ m \notin kept
    <3>1. /\ "lost" \notin Aside(m) /\ "banned" \notin Aside(m)
          /\ "bad" \notin Aside(m) /\ "kept" \notin Aside(m)
      BY <2>2
    <3> QED
      BY <3>1 DEF Aside
  <2>4. CASE lost' = lost \cup {m} /\ UNCHANGED queue
    <3>1. Aside(m)' = {"lost"}
      BY <1>1, <2>3, <2>4 DEF Aside
    <3>2. Queued(m)' = {}
      BY <2>2, <2>4, QueuedStays
    <3> QED
      BY <1>2, <1>5, <2>2, <3>1, <3>2 DEF Alone, Single
  <2>5. CASE lost' = lost /\ queue' = Append(queue, m)
    <3>1. Aside(m)' = {}
      BY <1>1, <2>3, <2>5 DEF Aside
    <3>2. /\ DOMAIN queue' = 1..Len(queue) + 1
          /\ \A i \in 1..Len(queue) : queue'[i] = queue[i]
          /\ queue'[Len(queue) + 1] = m
      BY <1>4, <2>5
    <3>3. \A i \in 1..Len(queue) : queue[i] # m
      BY <1>4, <2>2 DEF Queued
    <3>4. 1..Len(queue) + 1 = (1..Len(queue)) \cup {Len(queue) + 1}
      BY <1>4
    <3>5. Queued(m)' = {Len(queue) + 1}
      BY <3>2, <3>3, <3>4 DEF Queued
    <3> QED
      BY <1>2, <1>5, <2>2, <3>1, <3>5 DEF Alone, Single
  <2> QED
    BY <1>1, <2>4, <2>5
<1>6. CASE n # m
  <2>1. Aside(n)' = Aside(n)
    BY <1>1, <1>6, AsideStays
  <2>2. Queued(n)' = Queued(n)
    <3>1. CASE UNCHANGED queue
      BY <3>1, QueuedStays
    <3>2. CASE queue' = Append(queue, m)
      <4>1. /\ DOMAIN queue' = (1..Len(queue)) \cup {Len(queue) + 1}
            /\ \A i \in 1..Len(queue) : queue'[i] = queue[i]
            /\ queue'[Len(queue) + 1] = m
        BY <1>4, <3>2
      <4> QED
        BY <1>4, <1>6, <4>1 DEF Queued
    <3> QED
      BY <1>1, <3>1, <3>2
  <2> QED
    BY <1>2, <1>3, <2>1, <2>2 DEF Alone
<1> QED
  BY <1>5, <1>6

(* The line a thread takes leaves the queue; those behind it move up. *)
LEMMA PopAlone == ASSUME TypeOK, AllAlone, NEW t \in Thread, Pop(t) PROVE AllAlone'
<1> SUFFICES ASSUME NEW n \in Metric PROVE Alone(n)'
  BY DEF AllAlone
<1> DEFINE m == Head(queue)
<1>1. /\ UNCHANGED <<destinations, fresh, lost, banned, bad, kept, sent>>
      /\ queue # <<>> /\ queue' = Tail(queue)
      /\ hand[t] = NoMetric /\ hand' = [hand EXCEPT ![t] = m]
  BY DEF Pop, arrival
<1>2. SentAs(n)' = SentAs(n) /\ Aside(n)' = Aside(n)
  BY <1>1, SentStays, AsideStays
<1>3. Alone(n)
  BY DEF AllAlone
<1>4. /\ queue \in Seq(Metric) /\ hand \in [Thread -> Metric \cup {NoMetric}]
      /\ Len(queue) \in Nat \ {0} /\ DOMAIN queue = 1..Len(queue)
      /\ DOMAIN queue' = 1..Len(queue) - 1
      /\ \A i \in 1..Len(queue) - 1 : queue'[i] = queue[i + 1]
      /\ m = queue[1] /\ m \in Metric
  BY <1>1 DEF TypeOK
<1> HIDE DEF m
<1>5. /\ hand'[t] = m /\ \A u \in Thread : u # t => hand'[u] = hand[u]
  BY <1>1, <1>4
<1>6. CASE n = m
  <2>1. 1 \in Queued(n)
    BY <1>4, <1>6 DEF Queued
  <2>2. Queued(n) = {1} /\ Held(n) = {} /\ SentAs(n) = {} /\ Aside(n) = {}
    BY <1>3, <2>1, NonemptyIsSingle DEF Alone
  <2>3. \A i \in 1..Len(queue) : queue[i] = n => i = 1
    BY <1>4, <2>2 DEF Queued
  <2>4. \A i \in 1..Len(queue) - 1 : queue'[i] # n
    BY <1>4, <2>3
  <2>5. Queued(n)' = {}
    BY <1>4, <2>4 DEF Queued
  <2>6. Held(n)' = {t}
    BY <1>5, <1>6, <2>2 DEF Held
  <2> QED
    BY <1>2, <2>2, <2>5, <2>6 DEF Alone, Single
<1>7. CASE n # m
  <2>1. Held(n)' = Held(n)
    BY <1>1, <1>5, <1>7, ProxyAssumption DEF Held
  <2>2. \A i \in 1..Len(queue) : queue[i] = n => i - 1 \in Queued(n)'
    <3> SUFFICES ASSUME NEW i \in 1..Len(queue), queue[i] = n PROVE i - 1 \in Queued(n)'
      OBVIOUS
    <3>1. i # 1
      BY <1>4, <1>7
    <3>2. i - 1 \in 1..Len(queue) - 1 /\ (i - 1) + 1 = i
      BY <1>4, <3>1
    <3>3. queue'[i - 1] = queue[i]
      BY <1>4, <3>2
    <3> QED
      BY <1>4, <3>2, <3>3 DEF Queued
  <2>3. \A i \in Queued(n)' : i \in Int /\ i + 1 \in Queued(n)
    BY <1>4 DEF Queued
  <2>4. CASE Queued(n) = {}
    BY <1>2, <1>3, <2>1, <2>3, <2>4 DEF Alone, Single
  <2>5. CASE Single(Queued(n))
    <3>1. PICK x : Queued(n) = {x}
      BY <2>5 DEF Single
    <3>2. x \in 1..Len(queue) /\ queue[x] = n
      BY <1>4, <3>1 DEF Queued
    <3>3. Queued(n)' = {x - 1}
      <4>1. x - 1 \in Queued(n)'
        BY <2>2, <3>2
      <4>2. \A i \in Queued(n)' : i = x - 1
        BY <2>3, <3>1, <3>2
      <4> QED
        BY <4>1, <4>2
    <3> QED
      BY <1>2, <1>3, <2>1, <3>1, <3>3 DEF Alone, Single
  <2> QED
    BY <1>3, <2>4, <2>5 DEF Alone
<1> QED
  BY <1>6, <1>7

(* The line a thread has in its hands goes to one place. *)
LEMMA HandleAlone == ASSUME TypeOK, AllAlone, NEW t \in Thread, Handle(t) PROVE AllAlone'
<1> SUFFICES ASSUME NEW n \in Metric PROVE Alone(n)'
  BY DEF AllAlone
<1> DEFINE m == hand[t]
<1>1. /\ UNCHANGED <<destinations, queue, fresh, lost>>
      /\ m # NoMetric /\ hand' = [hand EXCEPT ![t] = NoMetric]
      /\ Ban(m) \/ Forward(m)
  BY DEF Handle, arrival
<1>2. hand \in [Thread -> Metric \cup {NoMetric}] /\ m \in Metric
  BY <1>1 DEF TypeOK
<1>3. Queued(n)' = Queued(n) /\ Alone(n) /\ NoMetric # n
  BY <1>1, QueuedStays, ProxyAssumption DEF AllAlone
<1>4. hand'[t] = NoMetric /\ (\A u \in Thread : u # t => hand'[u] = hand[u]) /\ hand[t] = m
  BY <1>1, <1>2
<1>5. sent \in [Dest -> Seq(Metric)] /\ Dest' = Dest /\ destinations \in Nat
  BY <1>1, SameDest, ProxyAssumption DEF TypeOK
<1>6. \/ /\ UNCHANGED sent
         /\ \/ banned' = banned \cup {m} /\ UNCHANGED <<bad, kept>>
            \/ bad' = bad \cup {m} /\ UNCHANGED <<banned, kept>>
            \/ kept' = kept \cup {m} /\ UNCHANGED <<banned, bad>>
      \/ /\ destinations # 0 /\ KeyOf[m] # NoKey
         /\ sent' = [sent EXCEPT ![Index(m)] = Append(@, m)]
         /\ UNCHANGED <<banned, bad, kept>>
  BY <1>1 DEF Ban, Forward
<1> HIDE DEF m
<1>7. ASSUME NEW d \in Dest, sent' = [sent EXCEPT ![d] = Append(@, m)]
      PROVE  SentAs(n)' = SentAs(n) \cup (IF n = m THEN {<<d, Len(sent[d]) + 1>>} ELSE {})
  <2>1. \A e \in Dest : DOMAIN sent[e] = 1..Len(sent[e]) /\ Len(sent[e]) \in Nat
    BY <1>5
  <2>2. /\ \A e \in Dest : e # d => sent'[e] = sent[e]
        /\ sent'[d] = Append(sent[d], m)
    BY <1>5, <1>7
  <2>3. /\ DOMAIN sent'[d] = (DOMAIN sent[d]) \cup {Len(sent[d]) + 1}
        /\ \A i \in DOMAIN sent[d] : sent'[d][i] = sent[d][i]
        /\ sent'[d][Len(sent[d]) + 1] = m
        /\ Len(sent[d]) + 1 \notin DOMAIN sent[d]
    <3>1. sent[d] \in Seq(Metric) /\ Len(sent[d]) \in Nat /\ DOMAIN sent[d] = 1..Len(sent[d])
      BY <1>5
    <3>2. DOMAIN Append(sent[d], m) = 1..Len(sent[d]) + 1
      BY <1>2, <3>1
    <3> QED
      BY <1>2, <2>2, <3>1, <3>2
  <2>4. \A e \in Dest : \A i : <<e, i>> \in SentAs(n)' <=> i \in DOMAIN sent'[e] /\ sent'[e][i] = n
    BY <1>5 DEF SentAs
  <2>5. \A e \in Dest : \A i : <<e, i>> \in SentAs(n) <=> i \in DOMAIN sent[e] /\ sent[e][i] = n
    BY DEF SentAs
  <2>6. \A p \in SentAs(n)' \cup SentAs(n) : \E e \in Dest : \E i : p = <<e, i>>
    BY <1>5 DEF SentAs
  <2>7. \A e \in Dest : \A i :
          <<e, i>> \in SentAs(n)' <=>
            \/ <<e, i>> \in SentAs(n)
            \/ n = m /\ e = d /\ i = Len(sent[d]) + 1
    <3> SUFFICES ASSUME NEW e \in Dest, NEW i
                 PROVE  <<e, i>> \in SentAs(n)' <=>
                          \/ <<e, i>> \in SentAs(n)
                          \/ n = m /\ e = d /\ i = Len(sent[d]) + 1
      OBVIOUS
    <3>1. CASE e # d
      BY <2>2, <2>4, <2>5, <3>1
    <3>2. CASE e = d
      <4>1. i \in DOMAIN sent'[d] /\ sent'[d][i] = n <=>
              \/ i \in DOMAIN sent[d] /\ sent[d][i] = n
              \/ n = m /\ i = Len(sent[d]) + 1
        BY <2>3
      <4> QED
        BY <2>4, <2>5, <3>2, <4>1
    <3> QED
      BY <3>1, <3>2
  <2> QED
    BY <2>6, <2>7
<1>8. CASE n = m
  <2>1. t \in Held(n)
    BY <1>4, <1>8 DEF Held
  <2>2. Held(n) = {t} /\ Queued(n) = {} /\ SentAs(n) = {} /\ Aside(n) = {}
    BY <1>3, <2>1, NonemptyIsSingle DEF Alone
  <2>3. Held(n)' = {}
    BY <1>3, <1>4, <2>2 DEF Held
  <2>4. n \notin fresh /\ n \notin lost /\ n \notin banned /\ n \notin bad /\ n \notin kept
    BY <2>2 DEF Aside
  <2>5. CASE UNCHANGED sent
    <3>1. SentAs(n)' = {}
      BY <1>1, <2>2, <2>5, SentStays
    <3>2. Single(Aside(n)')
      <4>1. CASE banned' = banned \cup {m} /\ UNCHANGED <<bad, kept>>
        <5>1. Aside(n)' = {"banned"}
          BY <1>1, <1>8, <2>4, <4>1 DEF Aside
        <5> QED
          BY <5>1 DEF Single
      <4>2. CASE bad' = bad \cup {m} /\ UNCHANGED <<banned, kept>>
        <5>1. Aside(n)' = {"bad"}
          BY <1>1, <1>8, <2>4, <4>2 DEF Aside
        <5> QED
          BY <5>1 DEF Single
      <4>3. CASE kept' = kept \cup {m} /\ UNCHANGED <<banned, bad>>
        <5>1. Aside(n)' = {"kept"}
          BY <1>1, <1>8, <2>4, <4>3 DEF Aside
        <5> QED
          BY <5>1 DEF Single
      <4>4. CASE /\ destinations # 0 /\ KeyOf[m] # NoKey
                 /\ sent' = [sent EXCEPT ![Index(m)] = Append(@, m)]
        <5>1. Index(m) \in Dest
          BY <1>2, <1>5, <4>4, IndexIsDest
        <5>2. SentAs(n)' # {}
          BY <1>7, <1>8, <4>4, <5>1
        <5> QED
          BY <3>1, <5>2
      <4> QED
        BY <1>6, <4>1, <4>2, <4>3, <4>4
    <3> QED
      BY <1>3, <2>2, <2>3, <3>1, <3>2 DEF Alone
  <2>6. CASE /\ destinations # 0 /\ KeyOf[m] # NoKey
             /\ sent' = [sent EXCEPT ![Index(m)] = Append(@, m)]
             /\ UNCHANGED <<banned, bad, kept>>
    <3>1. Index(m) \in Dest
      BY <1>2, <1>5, <2>6, IndexIsDest
    <3>2. SentAs(n)' = {<<Index(m), Len(sent[Index(m)]) + 1>>}
      BY <1>7, <1>8, <2>2, <2>6, <3>1
    <3>3. Aside(n)' = Aside(n)
      BY <1>1, <2>6, AsideStays
    <3> QED
      BY <1>3, <2>2, <2>3, <3>2, <3>3 DEF Alone, Single
  <2> QED
    BY <1>6, <2>5, <2>6
<1>9. CASE n # m
  <2>1. Held(n)' = Held(n)
    BY <1>3, <1>4, <1>9 DEF Held
  <2>2. Aside(n)' = Aside(n)
    BY <1>1, <1>6, <1>9, AsideStays
  <2>3. SentAs(n)' = SentAs(n)
    <3>1. CASE UNCHANGED sent
      BY <1>1, <3>1, SentStays
    <3>2. CASE /\ destinations # 0 /\ KeyOf[m] # NoKey
               /\ sent' = [sent EXCEPT ![Index(m)] = Append(@, m)]
      <4>1. Index(m) \in Dest
        BY <1>2, <1>5, <3>2, IndexIsDest
      <4> QED
        BY <1>7, <1>9, <3>2, <4>1
    <3> QED
      BY <1>6, <3>1, <3>2
  <2> QED
    BY <1>3, <2>1, <2>2, <2>3 DEF Alone
<1> QED
  BY <1>8, <1>9

LEMMA AloneStep == TypeOK /\ AllAlone /\ [Next]_vars => AllAlone'
<1> SUFFICES ASSUME TypeOK, AllAlone, [Next]_vars PROVE AllAlone'
  OBVIOUS
<1>1. ASSUME NEW t \in Thread, ThreadStep(t) PROVE AllAlone'
  <2>1. CASE ReadEnd(t) \/ StoreTid(t) \/ Leave(t)
    BY <2>1, AllStay DEF ReadEnd, StoreTid, Leave, arrival
  <2> QED
    BY <1>1, <2>1, PopAlone, HandleAlone DEF ThreadStep
<1>2. CASE MainStep
  BY <1>2, AllStay DEF MainStep, CreateThread, ConstructorThrows, StartServers,
                       StopServers, LeaveServer, DestroyWorker, arrival
<1>3. CASE ServerStep
  <2>1. CASE Request \/ Reply
    BY <2>1, AllStay DEF Request, Reply, arrival
  <2> QED
    BY <1>3, <2>1, ConsumeAlone DEF ServerStep
<1>4. CASE Crash \/ UNCHANGED vars
  BY <1>4, AllStay DEF Crash, vars, arrival
<1> QED
  BY <1>1, <1>2, <1>3, <1>4 DEF Next

(* No line is lost without being counted among the lost, and none is sent   *)
(* or dropped twice: every line is in one place, whatever the number of     *)
(* threads that take lines from the queue (worker.cc:66-117).               *)
THEOREM NoLineTwice == Spec => []OnePlace
  BY AloneInit, AloneStep, AloneIsOnePlace, TypeInit, TypeStep, PTL DEF Spec
=============================================================================

--------------------------- MODULE Aggregator_proofs ---------------------------
(***************************************************************************)
(* TLAPS proofs about the aggregator's pipeline.                           *)
(***************************************************************************)
EXTENDS Aggregator, FiniteSetTheorems, TLAPS

(* Every line is routed to a worker that exists.                           *)
LEMMA RouteType == \A m \in Metric : NameOf(m) \in Key /\ Route(m) \in Worker
<1> SUFFICES ASSUME NEW m \in Metric
             PROVE  NameOf(m) \in Key /\ Route(m) \in Worker
  OBVIOUS
<1>1. NameOf(m) \in Key
  BY LinesAssumption DEF NameOf
<1>2. StrHash[NameOf(m)] \in Nat
  BY <1>1, LinesAssumption
<1>3. StrHash[NameOf(m)] % NumWorkers \in 0..(NumWorkers - 1)
  BY <1>2, SizesAssumption
<1> QED
  BY <1>1, <1>3, SizesAssumption DEF Route, Worker

(* A ledger has finitely many bad lines.                                   *)
LEMMA BadLinesType == \A S \in SUBSET Metric : Cardinality(S \cap Malformed) \in Nat
<1> SUFFICES ASSUME NEW S \in SUBSET Metric
             PROVE  Cardinality(S \cap Malformed) \in Nat
  OBVIOUS
<1>1. IsFiniteSet(S \cap Malformed)
  BY FS_Subset, LinesAssumption
<1> QED
  BY <1>1, FS_CardinalityType

(* The rate is an integer division by the configured period.               *)
LEMMA RateType == \A n \in Nat : n \div Frequency \in Nat
  BY SizesAssumption

(* flusher_guard has two slots, and replacing one flusher uses the other.  *)
LEMMA OtherSlot == \A s \in Slot : 1 - s \in Slot /\ 1 - s # s /\ 1 - (1 - s) = s
  BY DEF Slot

(* Outside the head of its loop a worker thread holds a popped line.       *)
HoldsLine == \A w \in Worker : pc[w] # "pop" => metric[w] \in Metric

TypeInv == TypeOK /\ HoldsLine

(* Every step of the consumer, the clock, a worker (worker.cc:36-85) or a  *)
(* flusher (backend_container.h:67-74) keeps every variable in its type.   *)
LEMMA TypeStep == TypeInv /\ [Next]_vars => TypeInv'
<1> SUFFICES ASSUME TypeOK, HoldsLine, [Next]_vars PROVE TypeOK' /\ HoldsLine'
  BY DEF TypeInv
<1> USE DEF TypeOK, arrival, ledger, status, flushing
<1>1. ASSUME NEW m \in Metric, ConsumeNoMemory(m) PROVE TypeOK' /\ HoldsLine'
  BY <1>1 DEF ConsumeNoMemory, HoldsLine
<1>2. ASSUME NEW m \in Metric, Consume(m) PROVE TypeOK' /\ HoldsLine'
  <2>1. PICK w \in Worker : w = Route(m)
    BY RouteType
  <2>2. Submit(w, m)
    BY <1>2, <2>1 DEF Consume
  <2>3. CASE Len(queue[w]) < QueueCapacity
    <3>1. /\ queue' = [queue EXCEPT ![w] = Append(@, m)]
          /\ UNCHANGED <<lost, metrics_dropped>>
      BY <2>2, <2>3 DEF Submit
    <3>2. queue' \in [Worker -> Seq(Metric)]
      BY <3>1
    <3> QED
      BY <1>2, <3>1, <3>2 DEF Consume, HoldsLine
  <2>4. CASE ~(Len(queue[w]) < QueueCapacity)
    <3>1. /\ metrics_dropped' = [metrics_dropped EXCEPT ![w] = @ + 1]
          /\ lost' = lost \cup {m}
          /\ UNCHANGED queue
      BY <2>2, <2>4 DEF Submit
    <3>2. metrics_dropped' \in [Worker -> Nat]
      BY <3>1
    <3> QED
      BY <1>2, <3>1, <3>2 DEF Consume, HoldsLine
  <2> QED
    BY <2>3, <2>4
<1>3. CASE Wake
  BY <1>3, SizesAssumption DEF Wake, HoldsLine
<1>4. CASE Interrupt
  <2>1. interrupt_flag' \in [Worker -> BOOLEAN]
    BY <1>4, Zenon DEF Interrupt
  <2>2. clock' \in 0..NumWorkers
    BY <1>4, SizesAssumption DEF Interrupt
  <2> QED
    BY <1>4, <2>1, <2>2 DEF Interrupt, HoldsLine
<1>5. ASSUME NEW w \in Worker, Pop(w) PROVE TypeOK' /\ HoldsLine'
  <2>1. Head(queue[w]) \in Metric /\ Tail(queue[w]) \in Seq(Metric)
    BY <1>5 DEF Pop
  <2> QED
    BY <1>5, <2>1 DEF Pop, HoldsLine
<1>6. ASSUME NEW w \in Worker, CheckInterrupt(w) PROVE TypeOK' /\ HoldsLine'
  BY <1>6 DEF CheckInterrupt, HoldsLine
<1>7. ASSUME NEW w \in Worker, SpawnFlusher(w) PROVE TypeOK' /\ HoldsLine'
  <2>1. PICK s \in Slot : s = 1 - guard[w]
    BY OtherSlot
  <2>2. 1 \in 1..(NumBackends + 1)
    BY SizesAssumption
  <2>3. /\ fpc' \in [Worker -> [Slot -> {"idle", "lock", "flush"}]]
        /\ fledger' \in [Worker -> [Slot -> SUBSET Metric]]
    BY <1>7, <2>1 DEF SpawnFlusher, StartFlusher
  <2>4. fnext' \in [Worker -> [Slot -> 1..(NumBackends + 1)]]
    BY <1>7, <2>1, <2>2 DEF SpawnFlusher, StartFlusher
  <2>5. fepoch' \in [Worker -> [Slot -> Nat]] /\ epoch' \in [Worker -> Nat]
    BY <1>7, <2>1 DEF SpawnFlusher, StartFlusher
  <2>6. pc' = [pc EXCEPT ![w] = "join"] /\ pc[w] = "spawn"
    BY <1>7 DEF SpawnFlusher, StartFlusher
  <2>7. UNCHANGED <<arrival, interrupt_flag, clock, metric, ledger, status,
                    guard, lmut, sent, order>>
    BY <1>7 DEF SpawnFlusher, StartFlusher
  <2> QED
    BY <2>3, <2>4, <2>5, <2>6, <2>7 DEF HoldsLine
<1>8. ASSUME NEW w \in Worker, JoinFlusher(w) PROVE TypeOK' /\ HoldsLine'
  <2>1. 1 - guard[w] \in Slot
    BY OtherSlot
  <2> QED
    BY <1>8, <2>1 DEF JoinFlusher, HoldsLine
<1>9. ASSUME NEW w \in Worker, RenewLedger(w) PROVE TypeOK' /\ HoldsLine'
  <2>1. Cardinality(current_ledger[w] \cap Malformed) \in Nat
    BY BadLinesType
  <2>2. count[w] \div Frequency \in Nat
    BY RateType
  <2> QED
    BY <1>9, <2>1, <2>2 DEF RenewLedger, SwapLedger, HoldsLine
<1>10. ASSUME NEW w \in Worker, Buffer(w) PROVE TypeOK' /\ HoldsLine'
  <2>1. metric[w] \in Metric
    BY <1>10 DEF Buffer, HoldsLine
  <2> QED
    BY <1>10, <2>1 DEF Buffer, HoldsLine
<1>11. ASSUME NEW w \in Worker, NEW s \in Slot, AcquireContainer(w, s)
       PROVE  TypeOK' /\ HoldsLine'
  <2>1. order' \in [Worker -> Seq(Nat)]
    BY <1>11 DEF AcquireContainer, EnterContainer
  <2>2. lmut' \in (Worker \X Slot) \cup {NoOne}
    BY <1>11 DEF AcquireContainer, EnterContainer
  <2> QED
    BY <1>11, <2>1, <2>2 DEF AcquireContainer, EnterContainer, HoldsLine
<1>12. ASSUME NEW w \in Worker, NEW s \in Slot, FlushStats(w, s)
       PROVE  TypeOK' /\ HoldsLine'
  <2>1. PICK b \in Backend : b = fnext[w][s]
    BY <1>12, SizesAssumption DEF FlushStats, Backend
  <2>2. sent' \in [Backend -> [Metric -> Nat]]
    BY <1>12, <2>1 DEF FlushStats
  <2>3. b + 1 \in 1..(NumBackends + 1)
    BY <2>1, SizesAssumption DEF Backend
  <2>4. fnext' \in [Worker -> [Slot -> 1..(NumBackends + 1)]]
    BY <1>12, <2>1, <2>3 DEF FlushStats
  <2> QED
    BY <1>12, <2>2, <2>4 DEF FlushStats, HoldsLine
<1>13. ASSUME NEW w \in Worker, NEW s \in Slot, ReleaseContainer(w, s)
       PROVE  TypeOK' /\ HoldsLine'
  BY <1>13 DEF ReleaseContainer, LeaveContainer, HoldsLine
<1>14. CASE UNCHANGED vars
  BY <1>14 DEF vars, HoldsLine
<1> QED
  <2> HIDE DEF TypeOK, arrival, ledger, status, flushing
  <2> QED
    BY <1>1, <1>2, <1>3, <1>4, <1>5, <1>6, <1>7, <1>8, <1>9, <1>10, <1>11,
       <1>12, <1>13, <1>14
    DEF Next, ConsumeStep, ClockStep, WorkerStep, FlusherStep

(* The constructors leave every variable in its type (worker.cc:18-34).    *)
LEMMA TypeInit == Init => TypeInv
<1> SUFFICES ASSUME Init PROVE TypeInv
  OBVIOUS
<1>1. 1 \in 1..(NumBackends + 1)
  BY SizesAssumption
<1>2. /\ fpc \in [Worker -> [Slot -> {"idle", "lock", "flush"}]]
      /\ fledger \in [Worker -> [Slot -> SUBSET Metric]]
      /\ fnext \in [Worker -> [Slot -> 1..(NumBackends + 1)]]
      /\ fepoch \in [Worker -> [Slot -> Nat]]
  BY <1>1 DEF Init
<1>3. /\ metrics_dropped \in [Worker -> Nat]
      /\ bad_lines_seen \in [Worker -> Nat]
      /\ metrics_rate \in [Worker -> Nat]
  <2>1. \A f \in [Worker -> Garbage] : f \in [Worker -> Nat]
    BY SizesAssumption
  <2> QED
    BY <2>1 DEF Init
<1>4. clock \in 0..NumWorkers
  BY SizesAssumption DEF Init
<1>5. /\ queue \in [Worker -> Seq(Metric)]
      /\ order \in [Worker -> Seq(Nat)]
      /\ sent \in [Backend -> [Metric -> Nat]]
      /\ guard \in [Worker -> Slot]
  BY DEF Init, Slot
<1>6. TypeOK
  BY <1>2, <1>3, <1>4, <1>5 DEF Init, TypeOK
<1> QED
  BY <1>6 DEF Init, TypeInv, HoldsLine

(* Exclusive ownership.  Here: line m has arrived, was not refused, and    *)
(* belongs to worker w.  Apart: it is in no flusher's copy.  Untouched: no *)
(* backend has been given it.  Clean: all three.                           *)
Here(m, w)   == m \notin fresh /\ m \notin lost /\ Route(m) = w
Apart(m, w)  == \A s \in Slot : m \notin fledger[w][s]
Untouched(m) == \A b \in Backend : sent[b][m] = 0
Clean(m, w)  == Here(m, w) /\ Apart(m, w) /\ Untouched(m)

(* The parts of the inductive invariant: what is known of a line that is   *)
(* queued, popped, collected or in flight at worker w, and where a line of *)
(* worker w can be.                                                        *)
QueueOK(w) ==
  \A i \in 1..Len(queue[w]) :
    /\ Clean(queue[w][i], w)
    /\ pc[w] # "pop" => queue[w][i] # metric[w]
    /\ queue[w][i] \notin current_ledger[w]
    /\ \A j \in 1..Len(queue[w]) : queue[w][i] = queue[w][j] => i = j
HandOK(w) ==
  pc[w] # "pop" => Clean(metric[w], w) /\ metric[w] \notin current_ledger[w]
LedgerOK(w) ==
  \A m \in current_ledger[w] :
    /\ Here(m, w)
    /\ pc[w] \notin {"join", "renew"} => Clean(m, w)
    /\ pc[w] \in {"join", "renew"} => ~Apart(m, w) \/ DoneWith(m)
FlightOK(w) ==
  \A s \in Slot : \A m \in fledger[w][s] :
    /\ Here(m, w)
    /\ \A t \in Slot : t # s => m \notin fledger[w][t]
    /\ \A b \in Backend : /\ b < fnext[w][s] => sent[b][m] = 1
                          /\ ~(b < fnext[w][s]) => sent[b][m] = 0
Placed(m, w) ==
  \/ \E i \in 1..Len(queue[w]) : queue[w][i] = m
  \/ pc[w] # "pop" /\ metric[w] = m
  \/ pc[w] \notin {"join", "renew"} /\ m \in current_ledger[w]
  \/ ~Apart(m, w)
LeakOK(w) == \A m \in Metric : Here(m, w) => Placed(m, w) \/ DoneWith(m)

WorkerInv(w) == /\ QueueOK(w) /\ HandOK(w) /\ LedgerOK(w)
                /\ FlightOK(w) /\ LeakOK(w)
OutsideInv == /\ fresh \cap lost = {}
              /\ \A m \in fresh \cup lost : Untouched(m)
MutexInv   == \A w \in Worker, s \in Slot : fpc[w][s] = "flush" <=> lmut = <<w, s>>

SlotInv    == \A w \in Worker, s \in Slot :
                /\ pc[w] # "join" /\ s # guard[w] => fpc[w][s] = "idle"
                /\ fpc[w][s] = "idle" => fledger[w][s] = {}

IInv == /\ TypeInv /\ OutsideInv /\ MutexInv /\ SlotInv
        /\ \A w \in Worker : WorkerInv(w)

(* A step that leaves worker w's lines where they are.                     *)
Elsewhere(w) ==
  /\ queue'[w] = queue[w] /\ metric'[w] = metric[w]
  /\ pc'[w] = "pop" <=> pc[w] = "pop"
  /\ pc'[w] \in {"join", "renew"} <=> pc[w] \in {"join", "renew"}
  /\ current_ledger'[w] = current_ledger[w]
  /\ fledger'[w] = fledger[w] /\ fnext'[w] = fnext[w]
  /\ \A m \in Metric : Here(m, w)' <=> Here(m, w)
  /\ \A m \in Metric : Here(m, w) => \A b \in Backend : sent'[b][m] = sent[b][m]

(* Such a step keeps what is known of w.                                   *)
LEMMA Frame ==
  ASSUME NEW w \in Worker, TypeOK, HoldsLine, WorkerInv(w), Elsewhere(w)
  PROVE  WorkerInv(w)'
<1> USE DEF WorkerInv
<1>1. \A m \in Metric : Apart(m, w)' <=> Apart(m, w)
  BY DEF Elsewhere, Apart
<1>2. \A m \in Metric : Here(m, w) =>
        /\ Here(m, w)'
        /\ Untouched(m)' <=> Untouched(m)
        /\ DoneWith(m)' <=> DoneWith(m)
  BY DEF Elsewhere, Untouched, DoneWith
<1>3. \A m \in Metric : Clean(m, w) => Clean(m, w)'
  BY <1>1, <1>2 DEF Clean
<1>4. \A i \in 1..Len(queue[w]) : queue[w][i] \in Metric
  BY DEF TypeOK
<1>5. current_ledger[w] \subseteq Metric /\ \A s \in Slot : fledger[w][s] \subseteq Metric
  BY DEF TypeOK
<1>6. QueueOK(w)'
  BY <1>3, <1>4 DEF QueueOK, Elsewhere
<1>7. HandOK(w)'
  BY <1>3 DEF HandOK, Elsewhere, HoldsLine
<1>8. LedgerOK(w)'
  BY <1>1, <1>2, <1>3, <1>5 DEF LedgerOK, Elsewhere
<1>9. FlightOK(w)'
  BY <1>2, <1>5 DEF FlightOK, Elsewhere
<1>11. LeakOK(w)'
  <2> SUFFICES ASSUME NEW m \in Metric, Here(m, w)'
               PROVE  Placed(m, w)' \/ DoneWith(m)'
    BY DEF LeakOK
  <2>1. Here(m, w) /\ (Placed(m, w) \/ DoneWith(m))
    BY DEF LeakOK, Elsewhere
  <2>2. Placed(m, w) => Placed(m, w)'
    BY <1>1 DEF Placed, Elsewhere
  <2> QED
    BY <1>2, <2>1, <2>2
<1> QED
  BY <1>6, <1>7, <1>8, <1>9, <1>11

(* Lines do not move when the memory runs out, the clock ticks, a worker   *)
(* reads its flag or joins a flusher, or a flusher takes the mutex.        *)
LEMMA QuietStep ==
  ASSUME IInv,
         \/ \E m \in Metric : ConsumeNoMemory(m)
         \/ Wake \/ Interrupt
         \/ \E w \in Worker : CheckInterrupt(w) \/ JoinFlusher(w)
         \/ \E w \in Worker, s \in Slot : AcquireContainer(w, s)
         \/ UNCHANGED vars
  PROVE  \A w \in Worker : WorkerInv(w)'
<1> SUFFICES ASSUME NEW v \in Worker PROVE Elsewhere(v)
  BY Frame DEF IInv, TypeInv
<1> USE DEF Elsewhere, Here, IInv, TypeInv, TypeOK, arrival, ledger, status, flushing
<1>1. ASSUME NEW m \in Metric, ConsumeNoMemory(m) PROVE Elsewhere(v)
  BY <1>1 DEF ConsumeNoMemory
<1>2. CASE Wake
  BY <1>2 DEF Wake
<1>3. CASE Interrupt
  BY <1>3 DEF Interrupt
<1>4. ASSUME NEW w \in Worker, CheckInterrupt(w) PROVE Elsewhere(v)
  BY <1>4 DEF CheckInterrupt
<1>5. ASSUME NEW w \in Worker, JoinFlusher(w) PROVE Elsewhere(v)
  BY <1>5 DEF JoinFlusher
<1>6. ASSUME NEW w \in Worker, NEW s \in Slot, AcquireContainer(w, s)
      PROVE  Elsewhere(v)
  BY <1>6 DEF AcquireContainer, EnterContainer
<1>7. CASE UNCHANGED vars
  BY <1>7 DEF vars
<1> QED
  BY <1>1, <1>2, <1>3, <1>4, <1>5, <1>6, <1>7

(* No step of the program gives a backend a line that has not arrived or   *)
(* was refused (aggregator_consumer.cc:35-38, worker.h:63-67).             *)
LEMMA OutsideStep == ASSUME IInv, [Next]_vars PROVE OutsideInv'
<1> USE DEF OutsideInv, Untouched, arrival, ledger, status, flushing
<1>1. ASSUME NEW m \in Metric, ConsumeNoMemory(m) PROVE OutsideInv'
  BY <1>1 DEF ConsumeNoMemory, IInv
<1>2. ASSUME NEW m \in Metric, Consume(m) PROVE OutsideInv'
  <2>1. fresh' = fresh \ {m} /\ (lost' = lost \/ lost' = lost \cup {m}) /\ sent' = sent
    BY <1>2 DEF Consume, Submit
  <2> QED
    BY <1>2, <2>1 DEF Consume, IInv
<1>3. ASSUME NEW w \in Worker, NEW s \in Slot, FlushStats(w, s) PROVE OutsideInv'
  <2>1. \A m \in fledger[w][s] : m \notin fresh \cup lost
    BY DEF IInv, WorkerInv, FlightOK, Here
  <2>2. ASSUME NEW m \in fresh \cup lost, NEW b \in Backend PROVE sent'[b][m] = 0
    BY <1>3, <2>1, <2>2 DEF FlushStats, IInv, TypeInv, TypeOK
  <2> QED
    BY <1>3, <2>2 DEF FlushStats, IInv
<1>4. CASE UNCHANGED <<fresh, lost, sent>>
  BY <1>4 DEF IInv
<1>5. ASSUME NEW w \in Worker, WorkerStep(w) PROVE UNCHANGED <<fresh, lost, sent>>
  BY <1>5 DEF WorkerStep, Pop, CheckInterrupt, SpawnFlusher, StartFlusher,
     JoinFlusher, RenewLedger, SwapLedger, Buffer
<1>6. ASSUME ClockStep \/ UNCHANGED vars PROVE UNCHANGED <<fresh, lost, sent>>
  BY <1>6 DEF ClockStep, Wake, Interrupt, vars
<1>7. ASSUME NEW w \in Worker, NEW s \in Slot,
             AcquireContainer(w, s) \/ ReleaseContainer(w, s)
      PROVE  UNCHANGED <<fresh, lost, sent>>
  BY <1>7 DEF AcquireContainer, EnterContainer, ReleaseContainer, LeaveContainer
<1> QED
  BY <1>1, <1>2, <1>3, <1>4, <1>5, <1>6, <1>7 DEF Next, ConsumeStep, FlusherStep

(* The mutex is held by exactly the flusher that is inside; a slot that    *)
(* flusher_guard does not hold is free unless the worker is joining.       *)
LEMMA SlotStep == ASSUME IInv, [Next]_vars PROVE MutexInv' /\ SlotInv'
<1> USE DEF MutexInv, SlotInv, arrival, ledger, status, flushing
<1>t. /\ fpc \in [Worker -> [Slot -> {"idle", "lock", "flush"}]]
      /\ fledger \in [Worker -> [Slot -> SUBSET Metric]]
      /\ guard \in [Worker -> Slot]
      /\ pc \in [Worker -> {"pop", "check", "spawn", "join", "renew", "buffer"}]
  BY DEF IInv, TypeInv, TypeOK
<1>1. ASSUME NEW w \in Worker, SpawnFlusher(w) PROVE MutexInv' /\ SlotInv'
  <2>1. PICK t \in Slot : t = 1 - guard[w] /\ t # guard[w]
    BY OtherSlot DEF IInv, TypeInv, TypeOK
  <2>2. fpc[w][t] = "idle"
    BY <1>1, <2>1 DEF IInv, SpawnFlusher
  <2>3. /\ fpc' = [fpc EXCEPT ![w][t] = "lock"]
        /\ fledger' = [fledger EXCEPT ![w][t] = current_ledger[w]]
        /\ pc' = [pc EXCEPT ![w] = "join"]
        /\ UNCHANGED <<guard, lmut>>
    BY <1>1, <2>1 DEF SpawnFlusher, StartFlusher
  <2>4. MutexInv'
    <3> SUFFICES ASSUME NEW v \in Worker, NEW s \in Slot
                 PROVE  fpc'[v][s] = "flush" <=> lmut = <<v, s>>
      BY <2>3
    <3>1. fpc'[v][s] = "flush" <=> fpc[v][s] = "flush"
      BY <1>t, <2>2, <2>3
    <3> QED
      BY <3>1 DEF IInv
  <2>5. SlotInv'
    <3> SUFFICES ASSUME NEW v \in Worker, NEW s \in Slot
                 PROVE  /\ pc'[v] # "join" /\ s # guard[v] => fpc'[v][s] = "idle"
                        /\ fpc'[v][s] = "idle" => fledger'[v][s] = {}
      BY <2>3
    <3>1. fpc'[v][s] = IF v = w /\ s = t THEN "lock" ELSE fpc[v][s]
      BY <1>t, <2>3
    <3>2. fledger'[v][s] = IF v = w /\ s = t THEN current_ledger[w] ELSE fledger[v][s]
      BY <1>t, <2>3
    <3>3. pc'[v] = IF v = w THEN "join" ELSE pc[v]
      BY <1>t, <2>3
    <3> QED
      BY <3>1, <3>2, <3>3 DEF IInv
  <2> QED
    BY <2>4, <2>5
<1>2. ASSUME NEW w \in Worker, JoinFlusher(w) PROVE MutexInv' /\ SlotInv'
  <2>1. \A s \in Slot : s # 1 - guard[w] <=> s = guard[w]
    BY DEF Slot, IInv, TypeInv, TypeOK
  <2>2. /\ fpc[w][guard[w]] = "idle"
        /\ guard' = [guard EXCEPT ![w] = 1 - guard[w]]
        /\ pc' = [pc EXCEPT ![w] = "renew"]
        /\ UNCHANGED <<fpc, fledger, lmut>>
    BY <1>2 DEF JoinFlusher
  <2>3. ASSUME NEW v \in Worker, NEW s \in Slot, pc'[v] # "join", s # guard'[v]
        PROVE  fpc[v][s] = "idle"
    <3>1. CASE v = w
      BY <1>t, <2>1, <2>2, <2>3, <3>1
    <3>2. CASE v # w
      BY <1>t, <2>2, <2>3, <3>2 DEF IInv
    <3> QED
      BY <3>1, <3>2
  <2> QED
    BY <2>2, <2>3 DEF IInv
<1>3. ASSUME NEW w \in Worker, NEW s \in Slot, AcquireContainer(w, s)
      PROVE  MutexInv' /\ SlotInv'
  <2>1. \A v \in Worker, t \in Slot : lmut # <<v, t>>
    BY <1>3 DEF AcquireContainer, NoOne, Worker
  <2>2. MutexInv'
    <3> SUFFICES ASSUME NEW v \in Worker, NEW t \in Slot
                 PROVE  fpc'[v][t] = "flush" <=> lmut' = <<v, t>>
      OBVIOUS
    <3>1. fpc[v][t] # "flush"
      BY <2>1 DEF IInv
    <3>2. fpc'[v][t] = "flush" <=> v = w /\ t = s
      BY <1>t, <1>3, <3>1 DEF AcquireContainer, EnterContainer
    <3> QED
      BY <1>3, <3>2 DEF AcquireContainer, EnterContainer
  <2>3. SlotInv'
    <3> SUFFICES ASSUME NEW v \in Worker, NEW t \in Slot
                 PROVE  fpc'[v][t] = "idle" <=> fpc[v][t] = "idle"
      BY <1>3 DEF AcquireContainer, EnterContainer, IInv
    <3> QED
      BY <1>t, <1>3 DEF AcquireContainer, EnterContainer
  <2> QED
    BY <2>2, <2>3
<1>4. ASSUME NEW w \in Worker, NEW s \in Slot, ReleaseContainer(w, s)
      PROVE  MutexInv' /\ SlotInv'
  <2>1. lmut = <<w, s>>
    BY <1>4 DEF ReleaseContainer, LeaveContainer, IInv
  <2>2. MutexInv'
    <3> SUFFICES ASSUME NEW v \in Worker, NEW t \in Slot
                 PROVE  fpc'[v][t] # "flush" /\ lmut' # <<v, t>>
      OBVIOUS
    <3>1. fpc[v][t] = "flush" => v = w /\ t = s
      BY <2>1 DEF IInv
    <3>2. fpc'[v][t] # "flush"
      BY <1>t, <1>4, <3>1 DEF ReleaseContainer, LeaveContainer
    <3> QED
      BY <1>4, <3>2 DEF ReleaseContainer, LeaveContainer, NoOne, Worker
  <2>3. SlotInv'
    <3> SUFFICES ASSUME NEW v \in Worker, NEW t \in Slot
                 PROVE  /\ pc[v] # "join" /\ t # guard[v] => fpc'[v][t] = "idle"
                        /\ fpc'[v][t] = "idle" => fledger'[v][t] = {}
      BY <1>4 DEF ReleaseContainer, LeaveContainer
    <3>1. /\ fpc'[v][t] = IF v = w /\ t = s THEN "idle" ELSE fpc[v][t]
          /\ fledger'[v][t] = IF v = w /\ t = s THEN {} ELSE fledger[v][t]
      BY <1>t, <1>4 DEF ReleaseContainer, LeaveContainer
    <3> QED
      BY <3>1 DEF IInv
  <2> QED
    BY <2>2, <2>3
<1>5. CASE UNCHANGED <<pc, guard, fpc, fledger, lmut>>
  BY <1>5 DEF IInv
<1>6. ASSUME NEW w \in Worker,
             Pop(w) \/ CheckInterrupt(w) \/ RenewLedger(w) \/ Buffer(w)
      PROVE  MutexInv' /\ SlotInv'
  <2>1. /\ UNCHANGED <<guard, fpc, fledger, lmut>>
        /\ \A v \in Worker : pc'[v] # "join" => pc[v] # "join"
    BY <1>6 DEF Pop, CheckInterrupt, RenewLedger, SwapLedger, Buffer, IInv,
       TypeInv, TypeOK
  <2> QED
    BY <2>1 DEF IInv
<1>7. ASSUME ConsumeStep \/ ClockStep \/ UNCHANGED vars
      PROVE  UNCHANGED <<pc, guard, fpc, fledger, lmut>>
  BY <1>7 DEF ConsumeStep, ConsumeNoMemory, Consume, ClockStep, Wake, Interrupt, vars
<1>8. ASSUME NEW w \in Worker, NEW s \in Slot, FlushStats(w, s)
      PROVE  UNCHANGED <<pc, guard, fpc, fledger, lmut>>
  BY <1>8 DEF FlushStats
<1> QED
  BY <1>1, <1>2, <1>3, <1>4, <1>5, <1>6, <1>7, <1>8 DEF Next, WorkerStep, FlusherStep

(* A line that has not arrived is nowhere.                                 *)
LEMMA FreshIsNowhere ==
  ASSUME IInv, NEW m \in fresh, NEW w \in Worker
  PROVE  /\ \A i \in 1..Len(queue[w]) : queue[w][i] # m
         /\ pc[w] # "pop" => metric[w] # m
         /\ m \notin current_ledger[w]
         /\ Apart(m, w) /\ Untouched(m) /\ m \notin lost
  BY DEF IInv, OutsideInv, WorkerInv, QueueOK, HandOK, LedgerOK, FlightOK,
     Clean, Here, Apart

(* A queued line: the queue grows by it, a dropped one changes no place.   *)
LEMMA ConsumeStepOwn ==
  ASSUME IInv, NEW m \in Metric, Consume(m)
  PROVE  \A w \in Worker : WorkerInv(w)'
<1> USE DEF arrival, ledger, status, flushing
<1>1. PICK w \in Worker : w = Route(m)
  BY RouteType
<1>2. /\ m \in fresh /\ fresh' = fresh \ {m} /\ Submit(w, m)
      /\ UNCHANGED <<pc, metric, current_ledger, fledger, fnext, sent>>
  BY <1>1 DEF Consume
<1>3. ASSUME NEW v \in Worker, v # w \/ ~(Len(queue[w]) < QueueCapacity)
      PROVE  WorkerInv(v)'
  <2>1. Elsewhere(v)
    BY <1>1, <1>2, <1>3 DEF Elsewhere, Here, Submit, IInv, TypeInv, TypeOK
  <2> QED
    BY <2>1, Frame DEF IInv, TypeInv
<1>4. ASSUME Len(queue[w]) < QueueCapacity PROVE WorkerInv(w)'
  <2> DEFINE n == Len(queue[w])
  <2>1. queue[w] \in Seq(Metric) /\ n \in Nat
    BY DEF IInv, TypeInv, TypeOK
  <2>2. queue'[w] = Append(queue[w], m) /\ lost' = lost
    BY <1>2, <1>4 DEF Submit, IInv, TypeInv, TypeOK
  <2>3. /\ Len(queue'[w]) = n + 1
        /\ \A i \in 1..n : queue'[w][i] = queue[w][i]
        /\ queue'[w][n + 1] = m
    BY <2>1, <2>2
  <2> HIDE DEF n
  <2>4. \A i \in 1..(n + 1) : i \in 1..n \/ i = n + 1
    BY <2>1
  <2>5. \A k \in Metric : Clean(k, w) => Clean(k, w)'
    BY <1>2, <2>2 DEF Clean, Here, Apart, Untouched
  <2>6. /\ \A i \in 1..n : queue[w][i] # m /\ queue[w][i] \in Metric
        /\ pc[w] # "pop" => metric[w] # m
        /\ m \notin current_ledger[w]
        /\ Apart(m, w) /\ Untouched(m) /\ m \notin lost
    BY <1>2, <2>1, FreshIsNowhere DEF n
  <2>7. Clean(m, w)'
    BY <1>1, <1>2, <2>2, <2>6 DEF Clean, Here, Apart, Untouched
  <2>8. QueueOK(w)'
    <3> SUFFICES ASSUME NEW i \in 1..(n + 1)
                 PROVE  /\ Clean(queue[w][i], w)'
                        /\ pc[w] # "pop" => queue'[w][i] # metric[w]
                        /\ queue'[w][i] \notin current_ledger[w]
                        /\ \A j \in 1..(n + 1) : queue'[w][i] = queue'[w][j] => i = j
      BY <1>2, <2>3 DEF QueueOK
    <3>1. CASE i \in 1..n
      <4>1. /\ queue'[w][i] = queue[w][i]
            /\ Clean(queue[w][i], w) /\ queue[w][i] \in Metric
            /\ pc[w] # "pop" => queue[w][i] # metric[w]
            /\ queue[w][i] \notin current_ledger[w]
            /\ \A j \in 1..n : queue[w][i] = queue[w][j] => i = j
        BY <2>3, <2>6, <3>1 DEF IInv, WorkerInv, QueueOK, n
      <4>2. Clean(queue[w][i], w)'
        BY <2>5, <4>1
      <4> QED
        BY <2>3, <2>4, <2>6, <4>1, <4>2
    <3>2. CASE i = n + 1
      <4>1. queue'[w][i] = m
        BY <2>3, <3>2
      <4>2. Clean(queue[w][i], w)'
        BY <2>7, <4>1
      <4> QED
        BY <2>3, <2>4, <2>6, <3>2, <4>1, <4>2
    <3> QED
      BY <2>4, <3>1, <3>2
  <2>9. HandOK(w)'
    BY <1>2, <2>5 DEF HandOK, IInv, WorkerInv, TypeInv, HoldsLine
  <2>10. LedgerOK(w)'
    <3>1. \A k \in current_ledger[w] : k \in Metric /\ (Here(k, w) => Here(k, w)')
      BY <1>2, <2>2 DEF Here, IInv, TypeInv, TypeOK
    <3> QED
      BY <1>2, <2>5, <3>1 DEF LedgerOK, IInv, WorkerInv, Apart, DoneWith
  <2>11. FlightOK(w)'
    BY <1>2, <2>2 DEF FlightOK, Here, IInv, WorkerInv
  <2>12. LeakOK(w)'
    <3> SUFFICES ASSUME NEW k \in Metric, Here(k, w)'
                 PROVE  Placed(k, w)' \/ DoneWith(k)'
      BY DEF LeakOK
    <3>1. CASE k = m
      BY <2>1, <2>3, <3>1 DEF Placed
    <3>2. CASE k # m
      <4>1. Placed(k, w) \/ DoneWith(k)
        BY <1>2, <2>2, <3>2 DEF Here, IInv, WorkerInv, LeakOK
      <4>2. (\E i \in 1..n : queue[w][i] = k) => \E i \in 1..(n + 1) : queue'[w][i] = k
        BY <2>1, <2>3
      <4> QED
        BY <1>2, <2>3, <4>1, <4>2 DEF Placed, Apart, DoneWith, n
    <3> QED
      BY <3>1, <3>2
  <2> QED
    BY <2>8, <2>9, <2>10, <2>11, <2>12 DEF WorkerInv
<1> QED
  BY <1>3, <1>4

(* What a step of worker w that touches only its own variables leaves to   *)
(* prove: nothing for the others.                                          *)
LEMMA OthersKeep ==
  ASSUME IInv, NEW w \in Worker, NEW v \in Worker, v # w,
         WorkerStep(w)
  PROVE  WorkerInv(v)'
<1> USE DEF arrival, ledger, status, flushing
<1>t. /\ queue \in [Worker -> Seq(Metric)]
      /\ fledger \in [Worker -> [Slot -> SUBSET Metric]]
      /\ fnext \in [Worker -> [Slot -> 1..(NumBackends + 1)]]
      /\ metric \in [Worker -> Metric \cup {NoMetric}]
      /\ current_ledger \in [Worker -> SUBSET Metric]
      /\ pc \in [Worker -> {"pop", "check", "spawn", "join", "renew", "buffer"}]
  BY DEF IInv, TypeInv, TypeOK
<1>1. Elsewhere(v)
  <2> USE <1>t DEF Elsewhere, Here
  <2>1. CASE Pop(w)
    BY <2>1 DEF Pop
  <2>2. CASE CheckInterrupt(w)
    BY <2>2 DEF CheckInterrupt
  <2>3. CASE SpawnFlusher(w)
    BY <2>3 DEF SpawnFlusher, StartFlusher
  <2>4. CASE JoinFlusher(w)
    BY <2>4 DEF JoinFlusher
  <2>5. CASE RenewLedger(w)
    BY <2>5 DEF RenewLedger, SwapLedger
  <2>6. CASE Buffer(w)
    BY <2>6 DEF Buffer
  <2> QED
    BY <2>1, <2>2, <2>3, <2>4, <2>5, <2>6 DEF WorkerStep
<1> QED
  BY <1>1, Frame DEF IInv, TypeInv

(* The head of the queue moves into the worker's hands.                    *)
LEMMA PopOwn == ASSUME IInv, NEW w \in Worker, Pop(w) PROVE WorkerInv(w)'
<1> USE DEF arrival, ledger, status, flushing
<1> DEFINE n == Len(queue[w])
<1>1. queue[w] \in Seq(Metric) /\ n \in Nat \ {0} /\ current_ledger[w] \subseteq Metric
  BY DEF IInv, TypeInv, TypeOK, Pop
<1>2. /\ metric'[w] = queue[w][1] /\ queue'[w] = Tail(queue[w])
      /\ pc[w] = "pop" /\ pc'[w] = "check"
      /\ UNCHANGED <<fresh, lost, current_ledger, fledger, fnext, sent>>
  BY <1>1 DEF Pop, IInv, TypeInv, TypeOK
<1>3. /\ Len(queue'[w]) = n - 1
      /\ \A i \in 1..(n - 1) : queue'[w][i] = queue[w][i + 1] /\ i + 1 \in 1..n
      /\ 1 \in 1..n
  BY <1>1, <1>2
<1> HIDE DEF n
<1>4. \A k : (Clean(k, w)' <=> Clean(k, w)) /\ (Apart(k, w)' <=> Apart(k, w))
             /\ (Here(k, w)' <=> Here(k, w)) /\ (DoneWith(k)' <=> DoneWith(k))
  BY <1>2 DEF Clean, Here, Apart, Untouched, DoneWith
<1>5. \A i \in 1..n :
        /\ Clean(queue[w][i], w) /\ queue[w][i] \notin current_ledger[w]
        /\ \A j \in 1..n : queue[w][i] = queue[w][j] => i = j
  BY DEF IInv, WorkerInv, QueueOK, n
<1>6. QueueOK(w)'
  <2> SUFFICES ASSUME NEW i \in 1..(n - 1)
               PROVE  /\ Clean(queue[w][i], w)'
                      /\ queue'[w][i] # metric'[w]
                      /\ queue'[w][i] \notin current_ledger[w]
                      /\ \A j \in 1..(n - 1) : queue'[w][i] = queue'[w][j] => i = j
    BY <1>2, <1>3 DEF QueueOK
  <2>1. i + 1 # 1 /\ \A j \in 1..(n - 1) : i + 1 = j + 1 => i = j
    BY <1>1
  <2>2. queue'[w][i] = queue[w][i + 1] /\ i + 1 \in 1..n /\ 1 \in 1..n
    BY <1>3
  <2>3. Clean(queue[w][i], w)'
    BY <1>4, <1>5, <2>2
  <2> QED
    BY <1>2, <1>3, <1>5, <2>1, <2>2, <2>3
<1>7. HandOK(w)'
  BY <1>2, <1>3, <1>4, <1>5 DEF HandOK
<1>8. LedgerOK(w)'
  BY <1>2, <1>4 DEF LedgerOK, IInv, WorkerInv
<1>9. FlightOK(w)'
  BY <1>2 DEF FlightOK, Here, IInv, WorkerInv
<1>10. LeakOK(w)'
  <2> SUFFICES ASSUME NEW k \in Metric, Here(k, w)
               PROVE  Placed(k, w)' \/ DoneWith(k)'
    BY <1>4 DEF LeakOK
  <2>1. Placed(k, w) \/ DoneWith(k)
    BY DEF IInv, WorkerInv, LeakOK
  <2>2. ASSUME NEW i \in 1..n, queue[w][i] = k
        PROVE  metric'[w] = k \/ \E j \in 1..(n - 1) : queue'[w][j] = k
    <3>1. CASE i = 1
      BY <1>2, <2>2, <3>1
    <3>2. CASE i # 1
      <4>1. i - 1 \in 1..(n - 1) /\ (i - 1) + 1 = i
        BY <1>1, <3>2
      <4> QED
        BY <1>3, <2>2, <4>1
    <3> QED
      BY <3>1, <3>2
  <2> QED
    BY <1>2, <1>3, <1>4, <2>1, <2>2 DEF Placed, n
<1> QED
  BY <1>6, <1>7, <1>8, <1>9, <1>10 DEF WorkerInv

(* The ledger's lines are from now on the new flusher's.                   *)
LEMMA SpawnOwn == ASSUME IInv, NEW w \in Worker, SpawnFlusher(w) PROVE WorkerInv(w)'
<1> USE DEF arrival, ledger, status, flushing
<1>1. PICK t \in Slot : t = 1 - guard[w] /\ t # guard[w]
  BY OtherSlot DEF IInv, TypeInv, TypeOK
<1>2. fledger[w][t] = {} /\ pc[w] = "spawn"
  BY <1>1 DEF IInv, SlotInv, SpawnFlusher
<1>3. /\ fledger \in [Worker -> [Slot -> SUBSET Metric]]
      /\ fnext \in [Worker -> [Slot -> 1..(NumBackends + 1)]]
      /\ queue[w] \in Seq(Metric) /\ current_ledger[w] \subseteq Metric
  BY DEF IInv, TypeInv, TypeOK
<1>4. /\ \A s \in Slot : fledger'[w][s] = IF s = t THEN current_ledger[w] ELSE fledger[w][s]
      /\ \A s \in Slot : fnext'[w][s] = IF s = t THEN 1 ELSE fnext[w][s]
  BY <1>1, <1>3 DEF SpawnFlusher, StartFlusher
<1>5. pc'[w] = "join" /\ UNCHANGED <<fresh, lost, queue, metric, current_ledger, sent>>
  BY DEF SpawnFlusher, StartFlusher, IInv, TypeInv, TypeOK
<1>6. \A k : k \notin current_ledger[w] =>
               (Apart(k, w)' <=> Apart(k, w)) /\ (Clean(k, w) => Clean(k, w)')
  BY <1>2, <1>4, <1>5 DEF Clean, Here, Apart, Untouched
<1>7. \A k \in current_ledger[w] : Clean(k, w) /\ ~Apart(k, w)'
  BY <1>1, <1>2, <1>4 DEF Apart, IInv, WorkerInv, LedgerOK
<1>8. QueueOK(w)'
  BY <1>2, <1>5, <1>6 DEF QueueOK, IInv, WorkerInv
<1>9. HandOK(w)'
  BY <1>2, <1>5, <1>6 DEF HandOK, IInv, WorkerInv
<1>10. LedgerOK(w)'
  BY <1>5, <1>7 DEF LedgerOK, Clean, Here
<1>11. FlightOK(w)'
  <2> SUFFICES ASSUME NEW s \in Slot, NEW k \in fledger'[w][s]
               PROVE  /\ Here(k, w)
                      /\ \A u \in Slot : u # s => k \notin fledger'[w][u]
                      /\ \A b \in Backend : /\ b < fnext'[w][s] => sent[b][k] = 1
                                            /\ ~(b < fnext'[w][s]) => sent[b][k] = 0
    BY <1>5 DEF FlightOK, Here
  <2>1. CASE s = t
    <3>1. k \in current_ledger[w] /\ Clean(k, w) /\ fnext'[w][s] = 1
      BY <1>4, <1>7, <2>1
    <3>2. \A b \in Backend : ~(b < 1)
      BY DEF Backend
    <3> QED
      BY <1>4, <2>1, <3>1, <3>2 DEF Clean, Apart, Untouched
  <2>2. CASE s # t
    <3>1. k \in fledger[w][s] /\ fnext'[w][s] = fnext[w][s] /\ k \notin current_ledger[w]
      BY <1>4, <1>7, <2>2 DEF Clean, Apart
    <3> QED
      BY <1>4, <3>1 DEF IInv, WorkerInv, FlightOK
  <2> QED
    BY <2>1, <2>2
<1>12. LeakOK(w)'
  <2> SUFFICES ASSUME NEW k \in Metric, Here(k, w)
               PROVE  Placed(k, w)' \/ DoneWith(k)'
    BY <1>5 DEF LeakOK, Here
  <2>1. Placed(k, w) \/ DoneWith(k)
    BY DEF IInv, WorkerInv, LeakOK
  <2> QED
    BY <1>2, <1>5, <1>6, <1>7, <2>1 DEF Placed, DoneWith
<1> QED
  BY <1>8, <1>9, <1>10, <1>11, <1>12 DEF WorkerInv

(* The worker forgets a ledger that a flusher has, or had.                 *)
LEMMA RenewOwn == ASSUME IInv, NEW w \in Worker, RenewLedger(w) PROVE WorkerInv(w)'
<1> USE DEF arrival, ledger, status, flushing
<1>1. /\ pc[w] = "renew" /\ pc'[w] = "buffer" /\ current_ledger'[w] = {}
      /\ UNCHANGED <<fresh, lost, queue, metric, fledger, fnext, sent>>
  BY DEF RenewLedger, SwapLedger, IInv, TypeInv, TypeOK
<1>2. \A k : (Clean(k, w)' <=> Clean(k, w)) /\ (Apart(k, w)' <=> Apart(k, w))
             /\ (Here(k, w)' <=> Here(k, w)) /\ (DoneWith(k)' <=> DoneWith(k))
  BY <1>1 DEF Clean, Here, Apart, Untouched, DoneWith
<1>3. QueueOK(w)'
  BY <1>1, <1>2 DEF QueueOK, IInv, WorkerInv
<1>4. HandOK(w)'
  BY <1>1, <1>2 DEF HandOK, IInv, WorkerInv
<1>5. LedgerOK(w)'
  BY <1>1 DEF LedgerOK
<1>6. FlightOK(w)'
  BY <1>1, <1>2 DEF FlightOK, IInv, WorkerInv
<1>7. LeakOK(w)'
  <2> SUFFICES ASSUME NEW k \in Metric, Here(k, w)
               PROVE  Placed(k, w)' \/ DoneWith(k)'
    BY <1>2 DEF LeakOK
  <2>1. Placed(k, w) \/ DoneWith(k)
    BY DEF IInv, WorkerInv, LeakOK
  <2> QED
    BY <1>1, <1>2, <2>1 DEF Placed
<1> QED
  BY <1>3, <1>4, <1>5, <1>6, <1>7 DEF WorkerInv

(* The popped line joins the ledger.                                       *)
LEMMA BufferOwn == ASSUME IInv, NEW w \in Worker, Buffer(w) PROVE WorkerInv(w)'
<1> USE DEF arrival, ledger, status, flushing
<1>1. /\ pc[w] = "buffer" /\ pc'[w] = "pop"
      /\ current_ledger'[w] = current_ledger[w] \cup {metric[w]}
      /\ UNCHANGED <<fresh, lost, queue, fledger, fnext, sent>>
  BY DEF Buffer, IInv, TypeInv, TypeOK
<1>2. \A k : (Clean(k, w)' <=> Clean(k, w)) /\ (Apart(k, w)' <=> Apart(k, w))
             /\ (Here(k, w)' <=> Here(k, w)) /\ (DoneWith(k)' <=> DoneWith(k))
  BY <1>1 DEF Clean, Here, Apart, Untouched, DoneWith
<1>3. QueueOK(w)'
  BY <1>1, <1>2 DEF QueueOK, IInv, WorkerInv
<1>4. HandOK(w)'
  BY <1>1 DEF HandOK
<1>5. LedgerOK(w)'
  <2>1. \A k \in current_ledger'[w] : Clean(k, w)
    BY <1>1 DEF LedgerOK, HandOK, IInv, WorkerInv
  <2> QED
    BY <1>1, <1>2, <2>1 DEF LedgerOK, Clean
<1>6. FlightOK(w)'
  BY <1>1, <1>2 DEF FlightOK, IInv, WorkerInv
<1>7. LeakOK(w)'
  <2> SUFFICES ASSUME NEW k \in Metric, Here(k, w)
               PROVE  Placed(k, w)' \/ DoneWith(k)'
    BY <1>2 DEF LeakOK
  <2>1. Placed(k, w) \/ DoneWith(k)
    BY DEF IInv, WorkerInv, LeakOK
  <2> QED
    BY <1>1, <1>2, <2>1 DEF Placed
<1> QED
  BY <1>3, <1>4, <1>5, <1>6, <1>7 DEF WorkerInv

(* A backend is given the lines of one flusher, and of nobody else.        *)
LEMMA FlushStatsOwn ==
  ASSUME IInv, NEW w \in Worker, NEW s \in Slot, FlushStats(w, s)
  PROVE  \A v \in Worker : WorkerInv(v)'
<1> USE DEF arrival, ledger, status, flushing
<1>1. PICK b \in Backend : b = fnext[w][s]
  BY SizesAssumption DEF FlushStats, Backend, IInv, TypeInv, TypeOK
<1>2. /\ fnext' = [fnext EXCEPT ![w][s] = b + 1]
      /\ UNCHANGED <<fresh, lost, queue, metric, pc, current_ledger, fledger>>
  BY <1>1 DEF FlushStats
<1>3. /\ fledger \in [Worker -> [Slot -> SUBSET Metric]]
      /\ fnext \in [Worker -> [Slot -> 1..(NumBackends + 1)]]
      /\ sent \in [Backend -> [Metric -> Nat]]
      /\ current_ledger[w] \subseteq Metric /\ queue[w] \in Seq(Metric)
  BY DEF IInv, TypeInv, TypeOK
<1>4. \A c \in Backend, k \in Metric :
        sent'[c][k] = IF c = b /\ k \in fledger[w][s] THEN sent[c][k] + 1 ELSE sent[c][k]
  BY <1>1, <1>3 DEF FlushStats
<1>5. \A k \in fledger[w][s] : Here(k, w) /\ sent[b][k] = 0
  BY <1>1 DEF IInv, WorkerInv, FlightOK, Backend
<1>6. ASSUME NEW v \in Worker, v # w PROVE WorkerInv(v)'
  <2>1. \A k \in Metric : Here(k, v) => k \notin fledger[w][s]
    BY <1>5, <1>6 DEF Here
  <2>2. Elsewhere(v)
    BY <1>2, <1>3, <1>4, <1>6, <2>1 DEF Elsewhere, Here
  <2> QED
    BY <2>2, Frame DEF IInv, TypeInv
<1>7. WorkerInv(w)'
  <2>1. \A k : (Apart(k, w)' <=> Apart(k, w)) /\ (Here(k, w)' <=> Here(k, w))
    BY <1>2 DEF Apart, Here
  <2>2. \A k \in Metric \ fledger[w][s] :
          (DoneWith(k)' <=> DoneWith(k)) /\ (Untouched(k)' <=> Untouched(k))
    BY <1>4 DEF DoneWith, Untouched
  <2>3. \A k \in Metric : Clean(k, w) => Clean(k, w)'
    BY <2>1, <2>2 DEF Clean, Apart
  <2>4. QueueOK(w)'
    <3>1. \A i \in 1..Len(queue[w]) : queue[w][i] \in Metric
      BY <1>3
    <3> QED
      BY <1>2, <2>3, <3>1 DEF QueueOK, IInv, WorkerInv
  <2>5. HandOK(w)'
    BY <1>2, <2>3 DEF HandOK, IInv, WorkerInv, TypeInv, HoldsLine
  <2>6. LedgerOK(w)'
    <3>1. \A k \in Metric : ~Apart(k, w) \/ DoneWith(k) => ~Apart(k, w)' \/ DoneWith(k)'
      BY <2>1, <2>2 DEF Apart
    <3> QED
      BY <1>2, <1>3, <2>1, <2>3, <3>1 DEF LedgerOK, IInv, WorkerInv
  <2>7. FlightOK(w)'
    <3> SUFFICES ASSUME NEW t \in Slot, NEW k \in fledger[w][t], NEW c \in Backend
                 PROVE  /\ c < fnext'[w][t] => sent'[c][k] = 1
                        /\ ~(c < fnext'[w][t]) => sent'[c][k] = 0
      BY <1>2, <2>1 DEF FlightOK, IInv, WorkerInv
    <3>1. k \in Metric /\ (c < fnext[w][t] => sent[c][k] = 1)
          /\ (~(c < fnext[w][t]) => sent[c][k] = 0)
      BY <1>3 DEF FlightOK, IInv, WorkerInv
    <3>2. CASE t = s
      <4>1. fnext'[w][t] = b + 1 /\ (c < b + 1 <=> c < b \/ c = b)
        BY <1>2, <1>3, <3>2 DEF Backend
      <4> QED
        BY <1>1, <1>4, <1>5, <3>1, <3>2, <4>1 DEF Backend
    <3>3. CASE t # s
      <4>1. fnext'[w][t] = fnext[w][t] /\ k \notin fledger[w][s]
        BY <1>2, <1>3, <3>3 DEF FlightOK, IInv, WorkerInv
      <4> QED
        BY <1>4, <3>1, <4>1
    <3> QED
      BY <3>2, <3>3
  <2>8. LeakOK(w)'
    <3> SUFFICES ASSUME NEW k \in Metric, Here(k, w)
                 PROVE  Placed(k, w)' \/ DoneWith(k)'
      BY <2>1 DEF LeakOK
    <3>1. Placed(k, w) \/ DoneWith(k)
      BY DEF IInv, WorkerInv, LeakOK
    <3>2. k \in fledger[w][s] => Placed(k, w)'
      BY <2>1 DEF Placed, Apart
    <3> QED
      BY <1>2, <2>1, <2>2, <3>1, <3>2 DEF Placed
  <2> QED
    BY <2>4, <2>5, <2>6, <2>7, <2>8 DEF WorkerInv
<1> QED
  BY <1>6, <1>7

(* A flusher ends only when every backend has been given its lines.        *)
LEMMA ReleaseOwn ==
  ASSUME IInv, NEW w \in Worker, NEW s \in Slot, ReleaseContainer(w, s)
  PROVE  \A v \in Worker : WorkerInv(v)'
<1> USE DEF arrival, ledger, status, flushing
<1>1. /\ fnext[w][s] > NumBackends
      /\ fledger' = [fledger EXCEPT ![w][s] = {}]
      /\ UNCHANGED <<fresh, lost, queue, metric, pc, current_ledger, fnext, sent>>
  BY DEF ReleaseContainer, LeaveContainer
<1>2. /\ fledger \in [Worker -> [Slot -> SUBSET Metric]]
      /\ fnext[w][s] \in Nat
  BY DEF IInv, TypeInv, TypeOK
<1>3. \A t \in Slot : fledger'[w][t] = IF t = s THEN {} ELSE fledger[w][t]
  BY <1>1, <1>2
<1>4. \A k \in fledger[w][s] : DoneWith(k)
  <2>1. \A b \in Backend : b < fnext[w][s]
    BY <1>1, <1>2, SizesAssumption DEF Backend
  <2> QED
    BY <2>1 DEF IInv, WorkerInv, FlightOK, DoneWith
<1>5. ASSUME NEW v \in Worker, v # w PROVE WorkerInv(v)'
  <2>1. Elsewhere(v)
    BY <1>1, <1>2, <1>5 DEF Elsewhere, Here
  <2> QED
    BY <2>1, Frame DEF IInv, TypeInv
<1>6. WorkerInv(w)'
  <2>1. \A k : /\ Here(k, w)' <=> Here(k, w)
               /\ DoneWith(k)' <=> DoneWith(k)
               /\ Clean(k, w) => Clean(k, w)'
               /\ ~Apart(k, w) => ~Apart(k, w)' \/ DoneWith(k)
    BY <1>1, <1>3, <1>4 DEF Here, DoneWith, Clean, Apart, Untouched
  <2>2. QueueOK(w)'
    BY <1>1, <2>1 DEF QueueOK, IInv, WorkerInv
  <2>3. HandOK(w)'
    BY <1>1, <2>1 DEF HandOK, IInv, WorkerInv
  <2>4. LedgerOK(w)'
    BY <1>1, <2>1 DEF LedgerOK, IInv, WorkerInv
  <2>5. FlightOK(w)'
    BY <1>1, <1>3, <2>1 DEF FlightOK, IInv, WorkerInv
  <2>6. LeakOK(w)'
    <3> SUFFICES ASSUME NEW k \in Metric, Here(k, w)
                 PROVE  Placed(k, w)' \/ DoneWith(k)'
      BY <2>1 DEF LeakOK
    <3>1. Placed(k, w) \/ DoneWith(k)
      BY DEF IInv, WorkerInv, LeakOK
    <3> QED
      BY <1>1, <2>1, <3>1 DEF Placed
  <2> QED
    BY <2>2, <2>3, <2>4, <2>5, <2>6 DEF WorkerInv
<1> QED
  BY <1>5, <1>6

(* The inductive invariant holds when the workers have been constructed.   *)
LEMMA IInvInit == Init => IInv
<1> SUFFICES ASSUME Init PROVE IInv
  OBVIOUS
<1>1. \A m : \A b \in Backend : m \in Metric => sent[b][m] = 0
  BY DEF Init
<1>2. OutsideInv
  BY <1>1 DEF OutsideInv, Untouched, Init
<1>3. MutexInv
  BY DEF MutexInv, Init, NoOne, Worker
<1>4. SlotInv
  BY DEF SlotInv, Init
<1>5. ASSUME NEW w \in Worker PROVE WorkerInv(w)
  <2>1. /\ queue[w] = <<>> /\ pc[w] = "pop" /\ current_ledger[w] = {}
        /\ \A s \in Slot : fledger[w][s] = {}
        /\ fresh = Metric
    BY DEF Init
  <2>2. QueueOK(w) /\ HandOK(w) /\ LedgerOK(w) /\ FlightOK(w)
    BY <2>1 DEF QueueOK, HandOK, LedgerOK, FlightOK
  <2>3. LeakOK(w)
    BY <2>1 DEF LeakOK, Here
  <2> QED
    BY <2>2, <2>3 DEF WorkerInv
<1> QED
  BY <1>2, <1>3, <1>4, <1>5, TypeInit DEF IInv

(* Every action, and a step of the environment, preserves it.              *)
LEMMA IInvStep == IInv /\ [Next]_vars => IInv'
<1> SUFFICES ASSUME IInv, [Next]_vars PROVE IInv'
  OBVIOUS
<1>1. TypeInv' /\ OutsideInv' /\ MutexInv' /\ SlotInv'
  BY TypeStep, OutsideStep, SlotStep DEF IInv
<1>2. \A v \in Worker : WorkerInv(v)'
  <2>1. ASSUME NEW m \in Metric, Consume(m) PROVE \A v \in Worker : WorkerInv(v)'
    BY <2>1, ConsumeStepOwn
  <2>2. ASSUME NEW w \in Worker, Pop(w) \/ SpawnFlusher(w) \/ RenewLedger(w) \/ Buffer(w)
        PROVE  \A v \in Worker : WorkerInv(v)'
    <3>1. WorkerInv(w)'
      BY <2>2, PopOwn, SpawnOwn, RenewOwn, BufferOwn
    <3>2. ASSUME NEW v \in Worker, v # w PROVE WorkerInv(v)'
      BY <2>2, <3>2, OthersKeep DEF WorkerStep
    <3> QED
      BY <3>1, <3>2
  <2>3. ASSUME NEW w \in Worker, NEW s \in Slot,
               FlushStats(w, s) \/ ReleaseContainer(w, s)
        PROVE  \A v \in Worker : WorkerInv(v)'
    BY <2>3, FlushStatsOwn, ReleaseOwn
  <2>4. ASSUME \/ \E m \in Metric : ConsumeNoMemory(m)
               \/ Wake \/ Interrupt
               \/ \E w \in Worker : CheckInterrupt(w) \/ JoinFlusher(w)
               \/ \E w \in Worker, s \in Slot : AcquireContainer(w, s)
               \/ UNCHANGED vars
        PROVE  \A v \in Worker : WorkerInv(v)'
    BY <2>4, QuietStep
  <2> QED
    BY <2>1, <2>2, <2>3, <2>4
    DEF Next, ConsumeStep, ClockStep, WorkerStep, FlusherStep
<1> QED
  BY <1>1, <1>2 DEF IInv

(* Hence it holds in every reachable state.                                *)
LEMMA IInvAlways == Spec => []IInv
  BY IInvInit, IInvStep, PTL DEF Spec

(* Every variable of the pipeline keeps its type.                          *)
THEOREM TypeCorrect == Spec => []TypeOK
<1>1. IInv => TypeOK
  BY DEF IInv, TypeInv
<1> QED
  BY <1>1, IInvAlways, PTL

(* A line that reached a queue is somewhere in the pipeline until every    *)
(* backend has been given it, for any number of workers, lines, backends   *)
(* and any queue capacity (worker.cc:36-85).                               *)
THEOREM NoLeak == Spec => []NoLineLeaks
<1>1. IInv => NoLineLeaks
  <2> SUFFICES ASSUME IInv, NEW m \in Metric \ (fresh \cup lost)
               PROVE  DoneWith(m) \/ \E w \in Worker : m \in At(w)
    BY DEF NoLineLeaks
  <2>1. PICK w \in Worker : w = Route(m)
    BY RouteType
  <2>2. Placed(m, w) \/ DoneWith(m)
    BY <2>1 DEF IInv, WorkerInv, LeakOK, Here
  <2>3. (\E i \in 1..Len(queue[w]) : queue[w][i] = m) => m \in Queued(w)
    BY DEF Queued
  <2>4. pc[w] # "pop" /\ metric[w] = m => m \in InHand(w)
    BY DEF InHand
  <2>5. pc[w] \notin {"join", "renew"} /\ m \in current_ledger[w] => m \in Collected(w)
    BY DEF Collected
  <2>6. ~Apart(m, w) => m \in InFlight(w)
    BY DEF Apart, InFlight, Slot
  <2>7. Placed(m, w) => m \in At(w)
    BY <2>3, <2>4, <2>5, <2>6 DEF Placed, At
  <2> QED
    BY <2>2, <2>7
<1> QED
  BY <1>1, IInvAlways, PTL

(* Wherever a line is, it is at the worker its name hashes to, so two      *)
(* workers never hold the same name (aggregator_consumer.cc:31).           *)
THEOREM NamesStay == Spec => []OneWorkerPerName
<1>1. IInv => OneWorkerPerName
  <2> SUFFICES ASSUME IInv PROVE OneWorkerPerName
    OBVIOUS
  <2>1. ASSUME NEW w \in Worker, NEW m \in At(w) PROVE Route(m) = w
    <3>1. m \in Queued(w) => Route(m) = w
      BY DEF Queued, IInv, WorkerInv, QueueOK, Clean, Here
    <3>2. m \in InHand(w) => Route(m) = w
      BY DEF InHand, IInv, WorkerInv, HandOK, Clean, Here
    <3>3. m \in Collected(w) => Route(m) = w
      BY DEF Collected, IInv, WorkerInv, LedgerOK, Here
    <3>4. m \in InFlight(w) => Route(m) = w
      BY DEF InFlight, IInv, WorkerInv, FlightOK, Here, Slot
    <3> QED
      BY <3>1, <3>2, <3>3, <3>4 DEF At
  <2>2. \A m, n : NameOf(m) = NameOf(n) => Route(m) = Route(n)
    BY DEF Route
  <2> QED
    BY <2>1, <2>2 DEF OneWorkerPerName
<1> QED
  BY <1>1, IInvAlways, PTL

(* At most one flusher is among the backends (backend_container.h:68).     *)
THEOREM MutualExclusion == Spec => []OneFlusherInside
<1>1. IInv => OneFlusherInside
  BY DEF IInv, MutexInv, OneFlusherInside
<1> QED
  BY <1>1, IInvAlways, PTL

(* A worker lowers its flag only after what it had collected is with a     *)
(* flusher or with the backends (worker.cc:56-77).                         *)
THEOREM HandOver == Spec => FlagFallsAfterHandOver
<1> DEFINE Falls == \A w \in Worker : interrupt_flag[w] /\ ~interrupt_flag'[w] =>
                      \A m \in current_ledger[w] : m \in InFlight(w)' \/ DoneWith(m)'
<1>1. ASSUME IInv, [Next]_vars PROVE [Falls]_vars
  <2> SUFFICES ASSUME NEW w \in Worker, interrupt_flag[w], ~interrupt_flag'[w],
                      NEW m \in current_ledger[w]
               PROVE  m \in InFlight(w)' \/ DoneWith(m)'
    OBVIOUS
  <2> USE DEF arrival, ledger, status, flushing
  <2>1. CASE RenewLedger(w)
    <3>1. pc[w] = "renew" /\ fledger' = fledger /\ sent' = sent
      BY <2>1 DEF RenewLedger, SwapLedger
    <3>2. ~Apart(m, w) \/ DoneWith(m)
      BY <1>1, <3>1 DEF IInv, WorkerInv, LedgerOK
    <3> QED
      BY <3>1, <3>2 DEF Apart, InFlight, DoneWith, Slot
  <2>2. ASSUME NEW v \in Worker, v # w, RenewLedger(v) PROVE FALSE
    BY <1>1, <2>2 DEF RenewLedger, SwapLedger, IInv, TypeInv, TypeOK
  <2>3. CASE Interrupt
    <3>1. interrupt_flag \in [Worker -> BOOLEAN]
      BY <1>1 DEF IInv, TypeInv, TypeOK
    <3>2. interrupt_flag'[w] = TRUE \/ interrupt_flag'[w] = interrupt_flag[w]
      BY <2>3, <3>1, Zenon DEF Interrupt
    <3> QED
      BY <3>2
  <2>4. CASE interrupt_flag' = interrupt_flag
    BY <2>4
  <2>5. ASSUME ConsumeStep \/ Wake \/ UNCHANGED vars PROVE interrupt_flag' = interrupt_flag
    BY <2>5 DEF ConsumeStep, ConsumeNoMemory, Consume, Wake, vars
  <2>6. ASSUME NEW v \in Worker, Pop(v) \/ CheckInterrupt(v) \/ SpawnFlusher(v)
                                 \/ JoinFlusher(v) \/ Buffer(v)
        PROVE  interrupt_flag' = interrupt_flag
    BY <2>6 DEF Pop, CheckInterrupt, SpawnFlusher, StartFlusher, JoinFlusher, Buffer
  <2>7. ASSUME NEW v \in Worker, NEW s \in Slot, FlusherStep(v, s)
        PROVE  interrupt_flag' = interrupt_flag
    BY <2>7 DEF FlusherStep, AcquireContainer, EnterContainer, FlushStats,
       ReleaseContainer, LeaveContainer
  <2> QED
    BY <1>1, <2>1, <2>2, <2>3, <2>4, <2>5, <2>6, <2>7 DEF Next, ClockStep, WorkerStep
<1> QED
  BY <1>1, IInvAlways, PTL DEF Spec, FlagFallsAfterHandOver

(* The pipeline implements Delivery: a line is refused on arrival or given *)
(* to each backend at most once and in order, and one that was accepted is *)
(* never refused later.                                                    *)
THEOREM Refinement == Spec => Delivers
<1>1. Init => D!Init
  BY DEF Init, D!Init, Backend, D!Backend
<1>2. ASSUME IInv, [Next]_vars PROVE [D!Next]_D!vars
  <2> USE DEF arrival, ledger, status, flushing
  <2>1. ASSUME NEW m \in Metric, ConsumeNoMemory(m) PROVE D!Next
    BY <2>1 DEF ConsumeNoMemory, D!Next, D!Refuse
  <2>2. ASSUME NEW m \in Metric, Consume(m) PROVE D!Next
    BY <2>2 DEF Consume, Submit, D!Next, D!Refuse, D!Accept
  <2>3. ASSUME NEW w \in Worker, NEW s \in Slot, FlushStats(w, s) PROVE D!Next
    <3>1. PICK b \in D!Backend : b = fnext[w][s]
      BY <1>2, <2>3, SizesAssumption DEF FlushStats, D!Backend, IInv, TypeInv, TypeOK
    <3>2. PICK S \in SUBSET Metric : S = fledger[w][s]
      BY <1>2 DEF IInv, TypeInv, TypeOK
    <3>3. \A m \in S : m \notin fresh /\ m \notin lost
      BY <1>2, <3>2 DEF IInv, WorkerInv, FlightOK, Here
    <3>4. \A m \in S : sent[b][m] = 0 /\ \A c \in 1..(b - 1) : sent[c][m] = 1
      <4>1. b \in Backend /\ ~(b < b)
            /\ \A c \in 1..(b - 1) : c \in Backend /\ c < b
        BY SizesAssumption DEF Backend, D!Backend
      <4> QED
        BY <1>2, <3>1, <3>2, <4>1 DEF IInv, WorkerInv, FlightOK
    <3>5. /\ sent' = [sent EXCEPT ![b] =
                       [m \in Metric |-> IF m \in S THEN @[m] + 1 ELSE @[m]]]
          /\ UNCHANGED <<fresh, lost>>
      BY <2>3, <3>1, <3>2 DEF FlushStats
    <3>6. D!Deliver(b, S)
      BY <3>3, <3>4, <3>5 DEF D!Deliver
    <3> QED
      BY <3>6 DEF D!Next
  <2>4. ASSUME NEW w \in Worker, WorkerStep(w) PROVE UNCHANGED D!vars
    BY <2>4 DEF WorkerStep, Pop, CheckInterrupt, SpawnFlusher, StartFlusher,
       JoinFlusher, RenewLedger, SwapLedger, Buffer, D!vars
  <2>5. ASSUME ClockStep \/ UNCHANGED vars PROVE UNCHANGED D!vars
    BY <2>5 DEF ClockStep, Wake, Interrupt, vars, D!vars
  <2>6. ASSUME NEW w \in Worker, NEW s \in Slot,
               AcquireContainer(w, s) \/ ReleaseContainer(w, s)
        PROVE  UNCHANGED D!vars
    BY <2>6 DEF AcquireContainer, EnterContainer, ReleaseContainer, LeaveContainer, D!vars
  <2> QED
    BY <1>2, <2>1, <2>2, <2>3, <2>4, <2>5, <2>6 DEF Next, ConsumeStep, FlusherStep
<1> QED
  BY <1>1, <1>2, IInvAlways, PTL DEF Spec, Delivers, D!Spec

(* Flush order.  Waits counts the flushers of w that wait for the mutex:   *)
(* the others have already been recorded in order.  The flusher that is    *)
(* being joined carries the last ledger but one, any other the last one.   *)
Waits(w, s) == IF fpc[w][s] = "lock" THEN 1 ELSE 0
Carries(w, s) ==
  fpc[w][s] = "lock" =>
    fepoch[w][s] = IF pc[w] = "join" /\ s = guard[w] THEN epoch[w] - 1 ELSE epoch[w]
OrderOK(w) ==
  /\ Len(order[w]) = epoch[w] - (Waits(w, 0) + Waits(w, 1))
  /\ Carries(w, 0) /\ Carries(w, 1)
  /\ \A i \in 1..Len(order[w]) : order[w][i] <= i + 1 /\ i <= order[w][i] + 1

OrderInv == \A w \in Worker : OrderOK(w)

(* A step that starts no flusher of w, lets none of them in, and does not  *)
(* move w into or out of the join.                                         *)
LEMMA OrderFrame ==
  ASSUME NEW w \in Worker, OrderOK(w),
         order'[w] = order[w], epoch'[w] = epoch[w], fepoch'[w] = fepoch[w],
         guard'[w] = guard[w], pc'[w] = "join" <=> pc[w] = "join",
         \A s \in Slot : fpc'[w][s] = "lock" <=> fpc[w][s] = "lock"
  PROVE  OrderOK(w)'
<1>1. 0 \in Slot /\ 1 \in Slot
  BY DEF Slot
<1>2. Waits(w, 0)' = Waits(w, 0) /\ Waits(w, 1)' = Waits(w, 1)
  BY <1>1 DEF Waits
<1>3. (Carries(w, 0) => Carries(w, 0)') /\ (Carries(w, 1) => Carries(w, 1)')
  BY <1>1 DEF Carries
<1> QED
  BY <1>2, <1>3 DEF OrderOK

(* Every action preserves the order of the flushes (worker.cc:61-66).      *)
LEMMA OrderStep == ASSUME IInv, OrderInv, [Next]_vars PROVE OrderInv'
<1> USE DEF arrival, ledger, status, flushing
<1>t. /\ fpc \in [Worker -> [Slot -> {"idle", "lock", "flush"}]]
      /\ fepoch \in [Worker -> [Slot -> Nat]] /\ epoch \in [Worker -> Nat]
      /\ order \in [Worker -> Seq(Nat)] /\ guard \in [Worker -> Slot]
      /\ pc \in [Worker -> {"pop", "check", "spawn", "join", "renew", "buffer"}]
  BY DEF IInv, TypeInv, TypeOK
<1>s. 0 \in Slot /\ 1 \in Slot /\ \A s \in Slot : s = 0 \/ s = 1
  BY DEF Slot
<1> SUFFICES ASSUME NEW v \in Worker PROVE OrderOK(v)'
  BY DEF OrderInv
<1>i. OrderOK(v)
  BY DEF OrderInv
<1>1. ASSUME NEW w \in Worker, SpawnFlusher(w) PROVE OrderOK(v)'
  <2>1. PICK t \in Slot : t = 1 - guard[w] /\ t # guard[w]
    BY <1>t, OtherSlot
  <2>2. /\ fpc' = [fpc EXCEPT ![w][t] = "lock"]
        /\ epoch' = [epoch EXCEPT ![w] = @ + 1]
        /\ fepoch' = [fepoch EXCEPT ![w][t] = epoch[w] + 1]
        /\ pc[w] = "spawn" /\ pc' = [pc EXCEPT ![w] = "join"]
        /\ UNCHANGED <<guard, order>>
    BY <1>1, <2>1 DEF SpawnFlusher, StartFlusher
  <2>3. CASE v # w
    BY <1>t, <1>i, <2>2, <2>3, OrderFrame
  <2>4. CASE v = w
    <3>1. fpc[w][t] = "idle"
      BY <2>1, <2>2 DEF IInv, SlotInv
    <3>2. /\ epoch'[w] = epoch[w] + 1 /\ pc'[w] = "join"
          /\ \A s \in Slot : fpc'[w][s] = IF s = t THEN "lock" ELSE fpc[w][s]
          /\ \A s \in Slot : fepoch'[w][s] = IF s = t THEN epoch[w] + 1 ELSE fepoch[w][s]
      BY <1>t, <2>2
    <3>3. \A s \in Slot : s # t => s = guard[w]
      <4>1. guard[w] \in Slot
        BY <1>t
      <4> QED
        BY <2>1, <4>1 DEF Slot
    <3>4. ASSUME NEW s \in Slot PROVE Carries(w, s)'
      <4>1. Carries(w, s)
        BY <1>s, <1>i, <2>4 DEF OrderOK
      <4> QED
        BY <1>t, <2>1, <2>2, <3>2, <3>3, <4>1 DEF Carries
    <3>5. Waits(w, 0)' + Waits(w, 1)' = Waits(w, 0) + Waits(w, 1) + 1
      BY <1>s, <2>1, <3>1, <3>2 DEF Waits
    <3>6. Waits(w, 0) \in Nat /\ Waits(w, 1) \in Nat
      BY DEF Waits
    <3>7. Len(order'[w]) = epoch'[w] - (Waits(w, 0)' + Waits(w, 1)')
      BY <1>t, <1>i, <2>2, <2>4, <3>2, <3>5, <3>6 DEF OrderOK
    <3> QED
      BY <1>s, <1>i, <2>2, <2>4, <3>4, <3>7 DEF OrderOK
  <2> QED
    BY <2>3, <2>4
<1>2. ASSUME NEW w \in Worker, JoinFlusher(w) PROVE OrderOK(v)'
  <2>1. /\ pc[w] = "join" /\ fpc[w][guard[w]] = "idle"
        /\ guard' = [guard EXCEPT ![w] = 1 - guard[w]]
        /\ pc' = [pc EXCEPT ![w] = "renew"]
        /\ UNCHANGED <<fpc, epoch, fepoch, order>>
    BY <1>2 DEF JoinFlusher
  <2>2. CASE v # w
    BY <1>t, <1>i, <2>1, <2>2, OrderFrame
  <2>3. CASE v = w
    <3>1. ASSUME NEW s \in Slot PROVE Carries(w, s)'
      BY <1>t, <1>s, <1>i, <2>1, <2>3 DEF Carries, OrderOK
    <3>2. Waits(w, 0)' = Waits(w, 0) /\ Waits(w, 1)' = Waits(w, 1)
      BY <2>1 DEF Waits
    <3> QED
      BY <1>s, <1>i, <2>1, <2>3, <3>1, <3>2 DEF OrderOK
  <2> QED
    BY <2>2, <2>3
<1>3. ASSUME NEW w \in Worker, NEW s \in Slot, AcquireContainer(w, s)
      PROVE  OrderOK(v)'
  <2>1. /\ fpc[w][s] = "lock" /\ fpc' = [fpc EXCEPT ![w][s] = "flush"]
        /\ order' = [order EXCEPT ![w] = Append(@, fepoch[w][s])]
        /\ UNCHANGED <<pc, guard, epoch, fepoch>>
    BY <1>3 DEF AcquireContainer, EnterContainer
  <2>2. CASE v # w
    BY <1>t, <1>i, <2>1, <2>2, OrderFrame
  <2>3. CASE v = w
    <3> DEFINE n == Len(order[w])
    <3>1. /\ n \in Nat /\ order'[w] = Append(order[w], fepoch[w][s])
          /\ \A u \in Slot : fpc'[w][u] = IF u = s THEN "flush" ELSE fpc[w][u]
      BY <1>t, <2>1
    <3>2. /\ Len(order'[w]) = n + 1 /\ order'[w][n + 1] = fepoch[w][s]
          /\ \A i \in 1..n : order'[w][i] = order[w][i]
      BY <1>t, <3>1
    <3>3. /\ n = epoch[w] - (Waits(w, 0) + Waits(w, 1))
          /\ \A u \in Slot : Carries(w, u)
          /\ \A i \in 1..n : order[w][i] <= i + 1 /\ i <= order[w][i] + 1
      BY <1>s, <1>i, <2>3 DEF OrderOK
    <3> HIDE DEF n
    <3>4. Waits(w, 0) + Waits(w, 1) = Waits(w, 0)' + Waits(w, 1)' + 1
      BY <1>s, <2>1, <3>1 DEF Waits
    <3>5. \A u \in Slot : Carries(w, u)'
      BY <2>1, <3>1, <3>3 DEF Carries
    <3>6. /\ Waits(w, 0) \in {0, 1} /\ Waits(w, 1) \in {0, 1}
          /\ Waits(w, 0)' \in {0, 1} /\ Waits(w, 1)' \in {0, 1}
      BY DEF Waits
    <3>7. n + 1 = epoch[w] - (Waits(w, 0)' + Waits(w, 1)')
      <4>1. epoch[w] \in Nat /\ n \in Nat
        BY <1>t, <3>1 DEF n
      <4>2. n = epoch[w] - (Waits(w, 0) + Waits(w, 1))
        BY <3>3
      <4> HIDE DEF Waits
      <4> QED
        BY <3>4, <3>6, <4>1, <4>2
    <3>8. fepoch[w][s] <= (n + 1) + 1 /\ n + 1 <= fepoch[w][s] + 1
      <4>1. CASE pc[w] = "join"
        <5>1. fepoch[w][s] \in {epoch[w] - 1, epoch[w]}
          BY <2>1, <3>3 DEF Carries
        <5>2. n + 1 \in {epoch[w], epoch[w] - 1}
          <6>1. Waits(w, 0)' = 0 \/ Waits(w, 1)' = 0
            BY <1>s, <2>1, <3>1 DEF Waits
          <6> QED
            BY <1>t, <3>6, <3>7, <6>1
        <5> QED
          BY <1>t, <5>1, <5>2
      <4>2. CASE pc[w] # "join"
        <5>1. fepoch[w][s] = epoch[w]
          BY <2>1, <3>3, <4>2 DEF Carries
        <5>2. Waits(w, 0)' = 0 \/ Waits(w, 1)' = 0
          BY <1>s, <2>1, <3>1 DEF Waits
        <5>3. n + 1 \in {epoch[w], epoch[w] - 1}
          BY <1>t, <3>6, <3>7, <5>2
        <5> QED
          BY <1>t, <5>1, <5>3
      <4> QED
        BY <4>1, <4>2
    <3>9. \A i \in 1..(n + 1) : i \in 1..n \/ i = n + 1
      BY <3>1 DEF n
    <3>10. \A i \in 1..(n + 1) : order'[w][i] <= i + 1 /\ i <= order'[w][i] + 1
      BY <3>2, <3>3, <3>8, <3>9
    <3> QED
      BY <1>s, <2>1, <2>3, <3>2, <3>5, <3>7, <3>10 DEF OrderOK
  <2> QED
    BY <2>2, <2>3
<1>4. ASSUME NEW w \in Worker, NEW s \in Slot, ReleaseContainer(w, s)
      PROVE  OrderOK(v)'
  <2>1. /\ fpc[w][s] = "flush" /\ fpc' = [fpc EXCEPT ![w][s] = "idle"]
        /\ UNCHANGED <<pc, guard, epoch, fepoch, order>>
    BY <1>4 DEF ReleaseContainer, LeaveContainer
  <2> QED
    BY <1>t, <1>i, <2>1, OrderFrame
<1>5. ASSUME NEW w \in Worker,
             Pop(w) \/ CheckInterrupt(w) \/ RenewLedger(w) \/ Buffer(w)
      PROVE  OrderOK(v)'
  <2>1. /\ UNCHANGED <<guard, epoch, fepoch, order, fpc>>
        /\ pc'[v] = "join" <=> pc[v] = "join"
    BY <1>t, <1>5 DEF Pop, CheckInterrupt, RenewLedger, SwapLedger, Buffer
  <2> QED
    BY <1>i, <2>1, OrderFrame
<1>6. CASE UNCHANGED <<pc, guard, epoch, fepoch, order, fpc>>
  BY <1>i, <1>6, OrderFrame
<1>7. ASSUME ConsumeStep \/ ClockStep \/ UNCHANGED vars
      PROVE  UNCHANGED <<pc, guard, epoch, fepoch, order, fpc>>
  BY <1>7 DEF ConsumeStep, ConsumeNoMemory, Consume, ClockStep, Wake, Interrupt, vars
<1>8. ASSUME NEW w \in Worker, NEW s \in Slot, FlushStats(w, s)
      PROVE  UNCHANGED <<pc, guard, epoch, fepoch, order, fpc>>
  BY <1>8 DEF FlushStats
<1> QED
  BY <1>1, <1>2, <1>3, <1>4, <1>5, <1>6, <1>7, <1>8 DEF Next, WorkerStep, FlusherStep

(* A worker's ledgers reach the backends in the order it handed them over, *)
(* up to an exchange of two neighbours (worker.cc:61-66).                  *)
THEOREM NearlyInOrder == Spec => []FlushOrder
<1>1. Init => OrderInv
  <2> SUFFICES ASSUME Init, NEW w \in Worker PROVE OrderOK(w)
    BY DEF OrderInv
  <2>1. /\ order[w] = <<>> /\ epoch[w] = 0
        /\ \A s \in Slot : fpc[w][s] = "idle"
    BY DEF Init
  <2> QED
    BY <2>1 DEF OrderOK, Waits, Carries, Slot
<1>2. IInv /\ OrderInv /\ [Next]_vars => OrderInv'
  BY OrderStep
<1>3. OrderInv => FlushOrder
  BY DEF OrderInv, OrderOK, FlushOrder
<1> QED
  BY <1>1, <1>2, <1>3, IInvAlways, PTL DEF Spec
(* The count of the loop is the size of the ledger, since a popped line is *)
(* a new one; and what is published came from one ledger.                  *)
CountInv == \A w \in Worker : count[w] = Cardinality(current_ledger[w])

CountsKept ==
  UNCHANGED <<count, current_ledger, metrics_rate, frequency, bad_lines_seen>>

(* Only RenewLedger and Buffer touch the figures, and a ledger becomes     *)
(* published in RenewLedger alone.                                         *)
LEMMA FiguresFrame ==
  ASSUME IInv, [Next]_vars,
         ~\E w \in Worker : RenewLedger(w) \/ Buffer(w)
  PROVE  CountsKept /\ \A v \in Worker : Published(v)' <=> Published(v)
<1> USE DEF IInv, TypeInv, TypeOK, CountsKept, Published, arrival, ledger, status, flushing
<1>1. ASSUME UNCHANGED <<ledger, status, pc, epoch>>
      PROVE  CountsKept /\ \A v \in Worker : Published(v)' <=> Published(v)
  BY <1>1
<1>2. CASE ConsumeStep \/ ClockStep \/ UNCHANGED vars
  BY <1>1, <1>2 DEF ConsumeStep, ConsumeNoMemory, Consume, ClockStep, Wake, Interrupt, vars
<1>3. ASSUME NEW w \in Worker, Pop(w) \/ CheckInterrupt(w) \/ JoinFlusher(w)
      PROVE  CountsKept /\ \A v \in Worker : Published(v)' <=> Published(v)
  BY <1>3 DEF Pop, CheckInterrupt, JoinFlusher
<1>4. ASSUME NEW w \in Worker, SpawnFlusher(w)
      PROVE  CountsKept /\ \A v \in Worker : Published(v)' <=> Published(v)
  <2>1. /\ pc[w] = "spawn" /\ pc' = [pc EXCEPT ![w] = "join"]
        /\ epoch' = [epoch EXCEPT ![w] = epoch[w] + 1] /\ CountsKept
    BY <1>4 DEF SpawnFlusher, StartFlusher
  <2>2. \A v \in Worker \ {w} : pc'[v] = pc[v] /\ epoch'[v] = epoch[v]
    BY <2>1
  <2>3. pc'[w] = "join" /\ epoch'[w] = epoch[w] + 1 /\ epoch[w] \in Nat
    BY <2>1
  <2>4. Published(w)' <=> Published(w)
    BY <2>1, <2>3
  <2> QED BY <2>1, <2>2, <2>4
<1>5. ASSUME NEW w \in Worker, NEW s \in Slot, FlusherStep(w, s)
      PROVE  UNCHANGED <<ledger, status, pc, epoch>>
  BY <1>5 DEF FlusherStep, AcquireContainer, EnterContainer, FlushStats, ReleaseContainer,
              LeaveContainer
<1> QED
  BY <1>1, <1>2, <1>3, <1>4, <1>5 DEF Next, WorkerStep

LEMMA FiguresStep ==
  ASSUME IInv, CountInv, StatusAgrees, [Next]_vars
  PROVE  CountInv' /\ StatusAgrees'
<1> USE DEF IInv, TypeInv, TypeOK, ledger, status
<1>1. CASE ~\E w \in Worker : RenewLedger(w) \/ Buffer(w)
  BY <1>1, FiguresFrame DEF CountsKept, CountInv, StatusAgrees
<1>2. ASSUME NEW w \in Worker, RenewLedger(w) PROVE CountInv' /\ StatusAgrees'
  <2> DEFINE L == current_ledger[w]
  <2>1. Cardinality(L) = Cardinality(L \ Malformed) + Cardinality(L \cap Malformed)
    <3>1. IsFiniteSet(L) /\ IsFiniteSet(L \cap Malformed)
      BY FS_Subset, LinesAssumption
    <3>2. Cardinality(L \ Malformed) = Cardinality(L) - Cardinality(L \cap Malformed)
      BY <3>1, FS_Difference
    <3>3. Cardinality(L) \in Nat /\ Cardinality(L \cap Malformed) \in Nat
      BY <3>1, FS_CardinalityType
    <3> QED BY <3>2, <3>3
  <2>2. count[w] = Cardinality(L)
    BY DEF CountInv
  <2>3. /\ frequency' = [frequency EXCEPT ![w] = L \ Malformed]
        /\ bad_lines_seen' = [bad_lines_seen EXCEPT ![w] = Cardinality(L \cap Malformed)]
        /\ metrics_rate' = [metrics_rate EXCEPT ![w] = count[w] \div Frequency]
        /\ current_ledger' = [current_ledger EXCEPT ![w] = {}]
        /\ count' = [count EXCEPT ![w] = 0]
        /\ pc[w] = "renew" /\ pc' = [pc EXCEPT ![w] = "buffer"] /\ epoch' = epoch
    BY <1>2 DEF RenewLedger, SwapLedger
  <2>4. CountInv'
    BY <2>3, FS_EmptySet DEF CountInv
  <2>5. metrics_rate'[w] = (Cardinality(frequency'[w]) + bad_lines_seen'[w]) \div Frequency
    BY <2>1, <2>2, <2>3
  <2>6. \A v \in Worker \ {w} :
          /\ Published(v)' <=> Published(v)
          /\ metrics_rate'[v] = metrics_rate[v] /\ frequency'[v] = frequency[v]
          /\ bad_lines_seen'[v] = bad_lines_seen[v]
    BY <2>3 DEF Published
  <2> QED BY <2>4, <2>5, <2>6 DEF StatusAgrees
<1>3. ASSUME NEW w \in Worker, Buffer(w) PROVE CountInv' /\ StatusAgrees'
  <2>1. /\ current_ledger' = [current_ledger EXCEPT ![w] = current_ledger[w] \cup {metric[w]}]
        /\ count' = [count EXCEPT ![w] = count[w] + 1]
        /\ pc[w] = "buffer" /\ pc' = [pc EXCEPT ![w] = "pop"]
        /\ UNCHANGED <<metrics_rate, frequency, bad_lines_seen, epoch>>
    BY <1>3 DEF Buffer
  <2>2. metric[w] \notin current_ledger[w]
    BY <2>1 DEF WorkerInv, HandOK
  <2>3. IsFiniteSet(current_ledger[w])
    BY FS_Subset, LinesAssumption
  <2>4. Cardinality(current_ledger[w] \cup {metric[w]}) = Cardinality(current_ledger[w]) + 1
    BY <2>2, <2>3, FS_AddElement
  <2>5. CountInv'
    BY <2>1, <2>4 DEF CountInv
  <2>6. \A v \in Worker : Published(v)' <=> Published(v)
    BY <2>1 DEF Published
  <2> QED BY <2>1, <2>5, <2>6 DEF StatusAgrees
<1> QED BY <1>1, <1>2, <1>3

(* What appstat shows of a worker, its rate, its frequency table and its   *)
(* bad lines, comes from one ledger (worker.cc:67-81).                     *)
THEOREM OneLedgerShown == Spec => []StatusAgrees
<1>1. Init => CountInv /\ StatusAgrees
  BY FS_EmptySet DEF Init, CountInv, StatusAgrees, Published
<1>2. IInv /\ CountInv /\ StatusAgrees /\ [Next]_vars => CountInv' /\ StatusAgrees'
  BY FiguresStep
<1> QED
  BY <1>1, <1>2, IInvAlways, PTL DEF Spec
================================================================================

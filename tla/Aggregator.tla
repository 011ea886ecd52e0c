------------------------------ MODULE Aggregator ------------------------------
(***************************************************************************)
(* The aggregator's pipeline: the consumer routes each received line to a  *)
(* worker's bounded queue; each worker thread pops lines into its ledger;  *)
(* the clock thread raises every worker's interrupt flag once a period;    *)
(* the worker that sees its flag hands a copy of its ledger to a flusher   *)
(* thread; flushers take the container's mutex and give the ledger to      *)
(* each backend in turn.                                                   *)
(*                                                                         *)
(* A line is an element of Metric: the model tells lines apart, not their  *)
(* text.  A ledger is the set of lines buffered in it.                     *)
(***************************************************************************)
EXTENDS Naturals, Sequences, FiniteSets

CONSTANTS
  Metric,         \* the lines received from the network
  NoMetric,       \* "no line popped"
  Key,            \* metric names
  NoKey,          \* "the line has no ':'"
  BadKeys,        \* the name <config name>.bad_keys
  KeyOf,          \* KeyOf[m]: the name before the first ':' of m, or NoKey
  StrHash,        \* StrHash[k]: std::hash of the name k
  Malformed,      \* lines that Ledger::buffer counts as bad lines
  NumWorkers,     \* config->workers
  NumBackends,    \* backends in the container
  QueueCapacity,  \* capacity of a work queue (10000 in the code)
  Frequency,      \* config->frequency, in seconds
  Garbage         \* what an uninitialised counter may hold

ASSUME SizesAssumption ==
  /\ NumWorkers \in Nat \ {0}
  /\ NumBackends \in Nat
  /\ QueueCapacity \in Nat \ {0}
  /\ Frequency \in Nat \ {0}
  /\ Garbage \subseteq Nat

ASSUME LinesAssumption ==
  /\ IsFiniteSet(Metric)
  /\ NoMetric \notin Metric
  /\ Malformed \subseteq Metric
  /\ BadKeys \in Key
  /\ NoKey \notin Key
  /\ KeyOf \in [Metric -> Key \cup {NoKey}]
  /\ StrHash \in [Key -> Nat]

Worker  == 1..NumWorkers
Backend == 1..NumBackends

(* flusher_guard holds one flusher thread; while the worker replaces it a   *)
(* second one is alive.  The two are told apart by a slot.                  *)
Slot == {0, 1}

NoOne    == <<0, 0>>      \* nobody holds the container's mutex

VARIABLES
  fresh,            \* lines that have not arrived yet
  lost,             \* lines that never reached a queue
  queue,            \* Worker::work_queue
  metrics_dropped,  \* Worker::metrics_dropped
  interrupt_flag,   \* Worker::interrupt_flag
  clock,            \* next worker the clock interrupts; 0: it sleeps
  pc,               \* where each worker thread is in Worker::process
  metric,           \* the line a worker thread has popped
  current_ledger,   \* Worker::current_ledger
  count,            \* the local count of Worker::process
  bad_lines_seen,   \* Worker::bad_lines_seen
  frequency,        \* Worker::frequency: the lines its table counts
  metrics_rate,     \* Worker::metrics_rate
  guard,            \* slot of the flusher that flusher_guard holds
  fpc,              \* fpc[w][s]: where a flusher is in BackendContainer::flush
  fledger,          \* the copy of the ledger it was started with
  fnext,            \* the backend it flushes next
  lmut,             \* BackendContainer::lmut
  sent,             \* sent[b][m]: how often backend b was given m
  epoch,            \* history: how many ledgers worker w has handed over
  fepoch,           \* history: which of them a flusher carries
  order             \* history: in which order they took the mutex

arrival  == <<fresh, lost, queue, metrics_dropped>>
ledger   == <<current_ledger, count>>
status   == <<bad_lines_seen, frequency, metrics_rate>>
flushing == <<fpc, fledger, fnext, lmut, sent, fepoch, order>>

vars == <<arrival, interrupt_flag, clock, pc, metric, ledger, status,
          guard, flushing, epoch>>

Init ==
  /\ fresh = Metric
  /\ lost = {}
  /\ queue = [w \in Worker |-> <<>>]
  /\ metrics_dropped \in [Worker -> Garbage]
  /\ interrupt_flag = [w \in Worker |-> FALSE]
  /\ clock = 0
  /\ pc = [w \in Worker |-> "pop"]
  /\ metric = [w \in Worker |-> NoMetric]
  /\ current_ledger = [w \in Worker |-> {}]
  /\ count = [w \in Worker |-> 0]
  /\ bad_lines_seen \in [Worker -> Garbage]
  /\ frequency = [w \in Worker |-> {}]
  /\ metrics_rate \in [Worker -> Garbage]
  /\ guard = [w \in Worker |-> 0]
  /\ fpc = [w \in Worker |-> [s \in Slot |-> "idle"]]
  /\ fledger = [w \in Worker |-> [s \in Slot |-> {}]]
  /\ fnext = [w \in Worker |-> [s \in Slot |-> 1]]
  /\ lmut = NoOne
  /\ sent = [b \in Backend |-> [m \in Metric |-> 0]]
  /\ epoch = [w \in Worker |-> 0]
  /\ fepoch = [w \in Worker |-> [s \in Slot |-> 0]]
  /\ order = [w \in Worker |-> <<>>]

-------------------------------------------------------------------------------
(* AggregatorConsumer::consume, called by the server threads *)

\* The name a line is aggregated under: a line without ':' is replaced by
\* the bad_keys metric.
NameOf(m) == IF KeyOf[m] = NoKey THEN BadKeys ELSE KeyOf[m]

\* Fault: balance the load instead of hashing the name.
RouteToShortest(m) ==
  CHOOSE w \in Worker : \A v \in Worker : Len(queue[w]) <= Len(queue[v])

\* Index in ::workers (from 0 there, from 1 here).
Route(m) == 1 + (StrHash[NameOf(m)] % NumWorkers)

\* tc_malloc returned NULL: a warning is logged and the line is forgotten.
ConsumeNoMemory(m) ==
  /\ m \in fresh
  /\ fresh' = fresh \ {m}
  /\ lost' = lost \cup {m}
  /\ UNCHANGED <<queue, metrics_dropped, interrupt_flag, clock, pc, metric,
                 ledger, status, guard, flushing, epoch>>

\* Worker::submit: a push on a full queue fails and the line is dropped.
Submit(w, m) ==
  IF Len(queue[w]) < QueueCapacity
  THEN /\ queue' = [queue EXCEPT ![w] = Append(@, m)]
       /\ UNCHANGED <<lost, metrics_dropped>>
  ELSE /\ metrics_dropped' = [metrics_dropped EXCEPT ![w] = @ + 1]
       /\ lost' = lost \cup {m}
       /\ UNCHANGED queue

Consume(m) ==
  /\ m \in fresh
  /\ fresh' = fresh \ {m}
  /\ Submit(Route(m), m)
  /\ UNCHANGED <<interrupt_flag, clock, pc, metric, ledger, status, guard,
                 flushing, epoch>>

-------------------------------------------------------------------------------
(* Clock::wait_interrupt *)

\* wait_for returns, after the period or spuriously.
Wake ==
  /\ clock = 0
  /\ clock' = 1
  /\ UNCHANGED <<arrival, interrupt_flag, pc, metric, ledger, status, guard,
                 flushing, epoch>>

\* Fault: the loop runs one past the last worker.
InterruptPastEnd ==
  /\ clock # 0
  /\ interrupt_flag' = [interrupt_flag EXCEPT ![clock] = TRUE]
  /\ clock' = IF clock > NumWorkers THEN 0 ELSE clock + 1
  /\ UNCHANGED <<arrival, pc, metric, ledger, status, guard, flushing, epoch>>

\* Worker::interrupt on the next worker of the list.
Interrupt ==
  /\ clock # 0
  /\ interrupt_flag' = [interrupt_flag EXCEPT ![clock] = TRUE]
  /\ clock' = IF clock = NumWorkers THEN 0 ELSE clock + 1
  /\ UNCHANGED <<arrival, pc, metric, ledger, status, guard, flushing, epoch>>

-------------------------------------------------------------------------------
(* Worker::process; an empty queue only makes the thread sleep and retry.  *)
(* The model is of a worker that runs: while (!done) is always true here.   *)
(* When stop() sets done, what is in the queue and in the ledger is lost,   *)
(* ticked or not (module Lifecycle has that end).                           *)

Pop(w) ==
  /\ pc[w] = "pop"
  /\ queue[w] # <<>>
  /\ metric' = [metric EXCEPT ![w] = Head(queue[w])]
  /\ queue' = [queue EXCEPT ![w] = Tail(@)]
  /\ pc' = [pc EXCEPT ![w] = "check"]
  /\ UNCHANGED <<fresh, lost, metrics_dropped, interrupt_flag, clock, ledger,
                 status, guard, flushing, epoch>>

CheckInterrupt(w) ==
  /\ pc[w] = "check"
  /\ pc' = [pc EXCEPT ![w] = IF interrupt_flag[w] THEN "spawn" ELSE "buffer"]
  /\ UNCHANGED <<arrival, interrupt_flag, clock, metric, ledger, status, guard,
                 flushing, epoch>>

\* Start a flusher thread in slot s with the ledger l.
StartFlusher(w, s, l) ==
  /\ fpc' = [fpc EXCEPT ![w][s] = "lock"]
  /\ fledger' = [fledger EXCEPT ![w][s] = l]
  /\ fnext' = [fnext EXCEPT ![w][s] = 1]
  /\ epoch' = [epoch EXCEPT ![w] = @ + 1]
  /\ fepoch' = [fepoch EXCEPT ![w][s] = epoch[w] + 1]
  /\ pc' = [pc EXCEPT ![w] = "join"]
  /\ UNCHANGED <<arrival, interrupt_flag, clock, metric, ledger, status, guard,
                 lmut, sent, order>>

\* Fault: the ledger is emptied before it is copied.
SpawnFlusherEmpty(w) == pc[w] = "spawn" /\ StartFlusher(w, 1 - guard[w], {})

\* The new flusher thread is running before flusher_guard lets the old one go.
SpawnFlusher(w) ==
  /\ pc[w] = "spawn"
  /\ StartFlusher(w, 1 - guard[w], current_ledger[w])

\* Fault: the previous flusher is detached, not joined.
DetachFlusher(w) ==
  /\ pc[w] = "join"
  /\ guard' = [guard EXCEPT ![w] = 1 - @]
  /\ pc' = [pc EXCEPT ![w] = "renew"]
  /\ UNCHANGED <<arrival, interrupt_flag, clock, metric, ledger, status,
                 flushing, epoch>>

\* ~ThreadGuard of the previous flusher: the worker blocks until it is done.
JoinFlusher(w) ==
  /\ pc[w] = "join"
  /\ fpc[w][guard[w]] = "idle"
  /\ guard' = [guard EXCEPT ![w] = 1 - @]
  /\ pc' = [pc EXCEPT ![w] = "renew"]
  /\ UNCHANGED <<arrival, interrupt_flag, clock, metric, ledger, status,
                 flushing, epoch>>

\* Publish the old ledger's figures, replace it and the count, lower the
\* flag, and go on at line l.
SwapLedger(w, new, n, l) ==
  /\ pc[w] = "renew"
  /\ bad_lines_seen' = [bad_lines_seen EXCEPT ![w] =
                          Cardinality(current_ledger[w] \cap Malformed)]
  /\ frequency' = [frequency EXCEPT ![w] = current_ledger[w] \ Malformed]
  /\ current_ledger' = [current_ledger EXCEPT ![w] = new]
  /\ metrics_rate' = [metrics_rate EXCEPT ![w] = count[w] \div Frequency]
  /\ count' = [count EXCEPT ![w] = n]
  /\ interrupt_flag' = [interrupt_flag EXCEPT ![w] = FALSE]
  /\ pc' = [pc EXCEPT ![w] = l]
  /\ UNCHANGED <<arrival, clock, metric, guard, flushing, epoch>>

\* Faults: the popped line is skipped after a flush; the flushed ledger is
\* kept; the count is not reset.
RenewAndContinue(w)  == SwapLedger(w, {}, 0, "pop")
RenewKeepsLedger(w)  == SwapLedger(w, current_ledger[w], 0, "buffer")
RenewKeepsCount(w)   == SwapLedger(w, {}, count[w], "buffer")

RenewLedger(w) == SwapLedger(w, {}, 0, "buffer")

\* The popped line is dead after this; the model forgets it.
Buffer(w) ==
  /\ pc[w] = "buffer"
  /\ current_ledger' = [current_ledger EXCEPT ![w] = @ \cup {metric[w]}]
  /\ count' = [count EXCEPT ![w] = @ + 1]
  /\ metric' = [metric EXCEPT ![w] = NoMetric]
  /\ pc' = [pc EXCEPT ![w] = "pop"]
  /\ UNCHANGED <<arrival, interrupt_flag, clock, status, guard, flushing, epoch>>

-------------------------------------------------------------------------------
(* BackendContainer::flush, run by flusher s of worker w *)

EnterContainer(w, s) ==
  /\ fpc[w][s] = "lock"
  /\ lmut' = <<w, s>>
  /\ fpc' = [fpc EXCEPT ![w][s] = "flush"]
  /\ order' = [order EXCEPT ![w] = Append(@, fepoch[w][s])]
  /\ UNCHANGED <<arrival, interrupt_flag, clock, pc, metric, ledger, status,
                 guard, fledger, fnext, sent, epoch, fepoch>>

AcquireContainer(w, s) == lmut = NoOne /\ EnterContainer(w, s)

\* flush_stats of the next backend.
FlushStats(w, s) ==
  LET b == fnext[w][s] IN
  /\ fpc[w][s] = "flush"
  /\ b <= NumBackends
  /\ sent' = [sent EXCEPT ![b] =
               [m \in Metric |-> IF m \in fledger[w][s] THEN @[m] + 1 ELSE @[m]]]
  /\ fnext' = [fnext EXCEPT ![w][s] = b + 1]
  /\ UNCHANGED <<arrival, interrupt_flag, clock, pc, metric, ledger, status,
                 guard, fpc, fledger, lmut, epoch, fepoch, order>>

LeaveContainer(w, s, mutex) ==
  /\ fpc[w][s] = "flush"
  /\ fnext[w][s] > NumBackends
  /\ lmut' = mutex
  /\ fpc' = [fpc EXCEPT ![w][s] = "idle"]
  /\ fledger' = [fledger EXCEPT ![w][s] = {}]
  /\ UNCHANGED <<arrival, interrupt_flag, clock, pc, metric, ledger, status,
                 guard, fnext, sent, epoch, fepoch, order>>

\* Fault: the mutex stays locked.
ReleaseNothing(w, s) == LeaveContainer(w, s, lmut)

\* The lock is released and the thread ends; its copy of the ledger goes.
ReleaseContainer(w, s) == LeaveContainer(w, s, NoOne)

-------------------------------------------------------------------------------
ConsumeStep == \E m \in Metric : ConsumeNoMemory(m) \/ Consume(m)
ClockStep   == Wake \/ Interrupt
WorkerStep(w) == \/ Pop(w) \/ CheckInterrupt(w) \/ SpawnFlusher(w)
                 \/ JoinFlusher(w) \/ RenewLedger(w) \/ Buffer(w)
FlusherStep(w, s) == \/ AcquireContainer(w, s) \/ FlushStats(w, s)
                     \/ ReleaseContainer(w, s)

Next == \/ ConsumeStep
        \/ ClockStep
        \/ \E w \in Worker : WorkerStep(w)
        \/ \E w \in Worker, s \in Slot : FlusherStep(w, s)

Spec == Init /\ [][Next]_vars

(* The threads of the process keep running: the clock and each worker are  *)
(* scheduled; a backend's flush_stats returns; a flusher that finds the    *)
(* mutex free again and again gets it (std::mutex promises no more, hence  *)
(* strong fairness).  Nothing makes a line arrive.                         *)
Fairness ==
  /\ WF_vars(ClockStep)
  /\ \A w \in Worker : WF_vars(WorkerStep(w))
  /\ \A w \in Worker, s \in Slot :
       /\ SF_vars(AcquireContainer(w, s))
       /\ WF_vars(FlushStats(w, s) \/ ReleaseContainer(w, s))

FairSpec == Spec /\ Fairness

-------------------------------------------------------------------------------
(* Properties *)

TypeOK ==
  /\ fresh \subseteq Metric
  /\ lost \subseteq Metric
  /\ queue \in [Worker -> Seq(Metric)]
  /\ metrics_dropped \in [Worker -> Nat]
  /\ interrupt_flag \in [Worker -> BOOLEAN]
  /\ clock \in 0..NumWorkers
  /\ pc \in [Worker -> {"pop", "check", "spawn", "join", "renew", "buffer"}]
  /\ metric \in [Worker -> Metric \cup {NoMetric}]
  /\ current_ledger \in [Worker -> SUBSET Metric]
  /\ count \in [Worker -> Nat]
  /\ bad_lines_seen \in [Worker -> Nat]
  /\ frequency \in [Worker -> SUBSET Metric]
  /\ metrics_rate \in [Worker -> Nat]
  /\ guard \in [Worker -> Slot]
  /\ fpc \in [Worker -> [Slot -> {"idle", "lock", "flush"}]]
  /\ fledger \in [Worker -> [Slot -> SUBSET Metric]]
  /\ fnext \in [Worker -> [Slot -> 1..(NumBackends + 1)]]
  /\ lmut \in (Worker \X Slot) \cup {NoOne}
  /\ sent \in [Backend -> [Metric -> Nat]]
  /\ epoch \in [Worker -> Nat]
  /\ fepoch \in [Worker -> [Slot -> Nat]]
  /\ order \in [Worker -> Seq(Nat)]

(* Where a line can be between its arrival and its last backend.  From the *)
(* spawn to the renewal of the ledger the flusher's copy is the one that   *)
(* counts.                                                                 *)
Queued(w)    == {queue[w][i] : i \in 1..Len(queue[w])}
InHand(w)    == IF pc[w] = "pop" THEN {} ELSE {metric[w]}
Collected(w) == IF pc[w] \in {"join", "renew"} THEN {} ELSE current_ledger[w]
InFlight(w)  == fledger[w][0] \cup fledger[w][1]
At(w)        == Queued(w) \cup InHand(w) \cup Collected(w) \cup InFlight(w)
DoneWith(m)  == \A b \in Backend : sent[b][m] = 1

(* No accepted line leaks: until every backend has been given it, a line   *)
(* that reached a queue is still in that queue, in the worker's hands, in  *)
(* its ledger or in a flusher's copy (worker.cc swaps ledgers at 61-73     *)
(* while submit, interrupt and flush run concurrently).                    *)
NoLineLeaks ==
  \A m \in Metric \ (fresh \cup lost) :
    DoneWith(m) \/ \E w \in Worker : m \in At(w)

(* Two workers never aggregate the same name (aggregator_consumer.cc:31),  *)
(* so no backend is given two partial aggregates of it for one period.     *)
OneWorkerPerName ==
  \A v, w \in Worker : \A m \in At(v), n \in At(w) :
    NameOf(m) = NameOf(n) => v = w

(* lmut admits one flusher at a time to the backends, which keep           *)
(* connections and counters of their own (backend_container.h:68).         *)
OneFlusherInside ==
  \A v, w \in Worker, s, t \in Slot :
    fpc[v][s] = "flush" /\ fpc[w][t] = "flush" => v = w /\ s = t

(* Two flushers of one worker race for lmut, so a newer ledger can be      *)
(* flushed before an older one (worker.cc:61 starts the new thread before  *)
(* the old one is joined), but never by more than one position.            *)
FlushOrder ==
  \A w \in Worker : \A i \in 1..Len(order[w]) :
    order[w][i] <= i + 1 /\ i <= order[w][i] + 1

(* Lowering the flag never costs a period: everything in the ledger when   *)
(* the flag goes down is in a flusher's hands or with the backends, even   *)
(* when a tick arrived after worker.cc:56 and is swallowed at line 77.     *)
FlagFallsAfterHandOver ==
  [][\A w \in Worker : interrupt_flag[w] /\ ~interrupt_flag'[w] =>
       \A m \in current_ledger[w] : m \in InFlight(w)' \/ DoneWith(m)']_vars

(* The figures appstat shows for a worker describe one and the same        *)
(* ledger: the rate counted by the loop (worker.cc:75,81) agrees with the  *)
(* ledger's frequency table and its bad lines.                             *)
Published(w) == epoch[w] > IF pc[w] \in {"join", "renew"} THEN 1 ELSE 0
StatusAgrees ==
  \A w \in Worker : Published(w) =>
    metrics_rate[w] = (Cardinality(frequency[w]) + bad_lines_seen[w])
                        \div Frequency

(* The pipeline implements the promise of Delivery.                        *)
D == INSTANCE Delivery WITH fresh <- fresh, lost <- lost, sent <- sent
Delivers == D!Spec

(* A worker that is ticked and still has lines to pop flushes what it has  *)
(* collected (worker.cc:46-78).                                            *)
BusyWorkerFlushes ==
  \A w \in Worker, m \in Metric :
    (m \in current_ledger[w] /\ interrupt_flag[w] /\ queue[w] # <<>>)
      ~> DoneWith(m)

(* README.md: "`frequency`: Interval in seconds to flush metrics to each   *)
(* backend": a collected line reaches the backends.                        *)
FlushedEveryInterval ==
  \A w \in Worker, m \in Metric : m \in current_ledger[w] ~> DoneWith(m)
===============================================================================

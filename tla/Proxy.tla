-------------------------------- MODULE Proxy --------------------------------
(***************************************************************************)
(* The proxy: the consumer puts each received line into one bounded queue; *)
(* the worker's threads take lines out of it, drop the blacklisted ones    *)
(* and send each of the others to the aggregator that its name hashes to.  *)
(* main builds the worker, whose constructor creates the threads, starts   *)
(* the servers and the status server after it, and stop() ends them first. *)
(* The threads leave their ids in a vector that nobody locks, and the      *)
(* status server copies it for /proc; /app reads two atomic counters.      *)
(* A signal during construction ends the process: the worker is not stored *)
(* yet and stop() finds nothing to stop.  One that comes before a server   *)
(* has been put into the list, or while stop() runs, makes stop() destroy  *)
(* the worker under a server that goes on using it.                        *)
(***************************************************************************)
EXTENDS Naturals, Sequences, FiniteSets, Functions

CONSTANTS
  Metric,         \* the lines received from the network
  NoMetric,       \* a thread holds no line
  Key,            \* metric names
  NoKey,          \* the line has no ':'
  KeyOf,          \* KeyOf[m]: the name before the first ':' of m, or NoKey
  StrHash,        \* StrHash[k]: std::hash of the name k
  WholeMatch,     \* lines that a blacklist expression matches entirely
  NumThreads,     \* config->workers
  DestCounts,     \* how many aggregators may be configured
  QueueCapacity,  \* capacity of the work queue (10000 in the code)
  Garbage         \* what an uninitialised counter may hold

ASSUME ProxyAssumption ==
  /\ NoMetric \notin Metric
  /\ NoKey \notin Key
  /\ KeyOf \in [Metric -> Key \cup {NoKey}]
  /\ StrHash \in [Key -> Nat]
  /\ WholeMatch \subseteq Metric
  /\ NumThreads \in Nat \ {0}
  /\ DestCounts \subseteq Nat
  /\ QueueCapacity \in Nat \ {0}
  /\ Garbage \subseteq Nat

Thread == 1..NumThreads

VARIABLES
  destinations,     \* Worker::destinations, by their number
  fresh,            \* lines that have not arrived yet
  lost,             \* lines for which there was no memory or no room
  queue,            \* Worker::work_queue
  entered,          \* the lines in the order they were queued
  hand,             \* hand[t]: the line thread t has taken
  banned,           \* lines dropped by the blacklist
  bad,              \* lines without a ':'
  kept,             \* lines without a destination, or whose send failed
  sent,             \* sent[d]: what was sent to aggregator d
  metrics_dropped,
  bad_lines_seen,
  state,            \* state[t]: "none", "start", "tid", "run", "stopped"
  ttids,            \* the ids in ThreadsInfoInterface::ttids
  overlapped,       \* history: threads that appended while another one did
  http,             \* the status server: "idle", "copy"ing ttids, "torn"
  serving,          \* "no" servers yet; "yes": they call the consumer; "stopped",
                    \* or "left": stop() went on with a server still running
  done,             \* Worker::done
  up                \* the process has not crashed

Dest == 0..destinations - 1

lines   == <<destinations, queue, entered, hand, banned, bad, kept, sent, bad_lines_seen>>
arrival == <<fresh, lost, metrics_dropped>>
threads == <<state, ttids, overlapped, http>>
vars    == <<lines, arrival, threads, serving, done, up>>

TypeOK ==
  /\ destinations \in DestCounts
  /\ fresh \subseteq Metric
  /\ lost \subseteq Metric
  /\ queue \in Seq(Metric) /\ Len(queue) <= QueueCapacity
  /\ entered \in Seq(Metric)
  /\ hand \in [Thread -> Metric \cup {NoMetric}]
  /\ banned \subseteq Metric /\ bad \subseteq Metric /\ kept \subseteq Metric
  /\ sent \in [Dest -> Seq(Metric)]
  /\ metrics_dropped \in Nat /\ bad_lines_seen \in Nat
  /\ state \in [Thread -> {"none", "start", "tid", "run", "stopped"}]
  /\ ttids \subseteq Thread /\ overlapped \subseteq Thread
  /\ http \in {"idle", "copy", "torn"} /\ up \in BOOLEAN
  /\ serving \in {"no", "yes", "stopped", "left"} /\ done \in BOOLEAN

(* The counters are atomics that nothing initialises. *)
Init ==
  /\ destinations \in DestCounts
  /\ fresh = Metric /\ lost = {}
  /\ queue = <<>> /\ entered = <<>>
  /\ hand = [t \in Thread |-> NoMetric]
  /\ banned = {} /\ bad = {} /\ kept = {}
  /\ sent = [d \in Dest |-> <<>>]
  /\ metrics_dropped \in Garbage /\ bad_lines_seen \in Garbage
  /\ state = [t \in Thread |-> "none"]
  /\ ttids = {} /\ overlapped = {}
  /\ http = "idle" /\ up = TRUE
  /\ serving = "no" /\ done = FALSE

-----------------------------------------------------------------------------
ServersRun == serving \in {"yes", "left"}

(* A server thread calls ProxyConsumer::consume, and tc_malloc fails. *)
ConsumeNoMemory(m) ==
  /\ ServersRun
  /\ m \in fresh
  /\ fresh' = fresh \ {m}
  /\ lost' = lost \cup {m}
  /\ UNCHANGED <<lines, metrics_dropped, threads, serving, done>>

(* Fault: the queue grows past its capacity. *)
SubmitNoLimit(m) ==
  /\ queue' = Append(queue, m)
  /\ entered' = Append(entered, m)
  /\ UNCHANGED <<lost, metrics_dropped>>

(* Worker::submit *)
Submit(m) ==
  IF Len(queue) < QueueCapacity
    THEN /\ queue' = Append(queue, m)
         /\ entered' = Append(entered, m)
         /\ UNCHANGED <<lost, metrics_dropped>>
    ELSE /\ lost' = lost \cup {m}
         /\ metrics_dropped' = metrics_dropped + 1
         /\ UNCHANGED <<queue, entered>>

Consume(m) ==
  /\ ServersRun
  /\ m \in fresh
  /\ fresh' = fresh \ {m}
  /\ Submit(m)
  /\ UNCHANGED <<destinations, hand, banned, bad, kept, sent, bad_lines_seen, threads, serving, done>>

-----------------------------------------------------------------------------
(* The worker's constructor creates the threads one after the other.        *)
Created(t) == state[t] # "none"

CreateThread(t) ==
  /\ serving = "no" /\ ~done
  /\ ~Created(t) /\ \A u \in 1..t - 1 : Created(u)
  /\ state' = [state EXCEPT ![t] = "start"]
  /\ UNCHANGED <<lines, arrival, ttids, overlapped, http, serving, done>>

(* A destination cannot be resolved or a thread cannot be created: the      *)
(* constructor sets done, the threads there are joined, and main exits.     *)
ConstructorThrows ==
  /\ serving = "no" /\ ~done
  /\ \E t \in Thread : ~Created(t)
  /\ done' = TRUE
  /\ serving' = "stopped"
  /\ UNCHANGED <<lines, arrival, threads>>

-----------------------------------------------------------------------------
Appending == {t \in Thread : state[t] = "tid"}

(* process() appends its thread id to ttids without taking tmut: the thread *)
(* reads the end of the vector ...                                          *)
ReadEnd(t) ==
  /\ state[t] = "start"
  /\ state' = [state EXCEPT ![t] = "tid"]
  /\ overlapped' = overlapped \cup (IF Appending = {} THEN {} ELSE Appending \cup {t})
  /\ UNCHANGED <<lines, arrival, ttids, http, serving, done>>

(* ... and stores the id and the new end.  Threads that append at the same *)
(* time may write over each other's ids or move the vector with some of the *)
(* ids only: any of them may be missing afterwards.                         *)
(* A copy that the status server is making is torn.                         *)
StoreTid(t) ==
  /\ state[t] = "tid"
  /\ state' = [state EXCEPT ![t] = "run"]
  /\ \/ ttids' = ttids \cup {t}
     \/ t \in overlapped /\ ttids' \in SUBSET (ttids \cup {t})
  /\ http' = IF http = "copy" THEN "torn" ELSE http
  /\ UNCHANGED <<lines, arrival, overlapped, serving, done>>

(* Two threads that grow the vector at the same time may both free it, the  *)
(* status server may copy what has been freed, and a server that stop()     *)
(* left running may use the worker that stop() destroys.  The process dies, *)
(* at once or later.                                                        *)
Crash ==
  /\ http = "torn" \/ overlapped # {} \/ (serving = "left" /\ done)
  /\ up' = FALSE
  /\ UNCHANGED <<lines, arrival, threads, serving, done>>

(* Fault: the line stays in the queue until it has been handled. *)
PopLeaves(t) ==
  /\ state[t] = "run" /\ ~done
  /\ hand[t] = NoMetric
  /\ queue # <<>>
  /\ hand' = [hand EXCEPT ![t] = Head(queue)]
  /\ UNCHANGED <<destinations, queue, entered, banned, bad, kept, sent, bad_lines_seen,
                 arrival, threads, serving, done>>

(* Fault: a stack instead of a queue. *)
PopLast(t) ==
  /\ state[t] = "run" /\ ~done
  /\ hand[t] = NoMetric
  /\ queue # <<>>
  /\ hand' = [hand EXCEPT ![t] = queue[Len(queue)]]
  /\ queue' = SubSeq(queue, 1, Len(queue) - 1)
  /\ UNCHANGED <<destinations, entered, banned, bad, kept, sent, bad_lines_seen,
                 arrival, threads, serving, done>>

(* The thread takes a line; with an empty queue it sleeps and tries again.  *)
Pop(t) ==
  /\ state[t] = "run" /\ ~done
  /\ hand[t] = NoMetric
  /\ queue # <<>>
  /\ hand' = [hand EXCEPT ![t] = Head(queue)]
  /\ queue' = Tail(queue)
  /\ UNCHANGED <<destinations, entered, banned, bad, kept, sent, bad_lines_seen,
                 arrival, threads, serving, done>>

(* hash(name) % destinations.size() *)
Index(m) == StrHash[KeyOf[m]] % destinations

(* The destinations, after the blacklist: none, the name's, which sendto    *)
(* reaches or not, or a bad line.                                           *)
Forward(m) ==
  \/ /\ destinations = 0
     /\ kept' = kept \cup {m}
     /\ UNCHANGED <<banned, bad, bad_lines_seen, sent>>
  \/ /\ destinations # 0 /\ KeyOf[m] # NoKey
     /\ \/ sent' = [sent EXCEPT ![Index(m)] = Append(@, m)] /\ UNCHANGED kept
        \/ kept' = kept \cup {m} /\ UNCHANGED sent
     /\ UNCHANGED <<banned, bad, bad_lines_seen>>
  \/ /\ destinations # 0 /\ KeyOf[m] = NoKey
     /\ bad' = bad \cup {m}
     /\ bad_lines_seen' = bad_lines_seen + 1
     /\ UNCHANGED <<banned, kept, sent>>

Ban(m) ==
  /\ banned' = banned \cup {m}
  /\ UNCHANGED <<bad, bad_lines_seen, kept, sent>>

(* boost::regex_match: the expression has to match the whole line. *)
Blacklisted(m) == m \in WholeMatch

(* What the thread does with the line it took. *)
Handle(t) ==
  LET m == hand[t] IN
  /\ m # NoMetric
  /\ hand' = [hand EXCEPT ![t] = NoMetric]
  /\ IF Blacklisted(m) THEN Ban(m) ELSE Forward(m)
  /\ UNCHANGED <<destinations, queue, entered, arrival, threads, serving, done>>

(* Fault: the thread stays until the queue is empty. *)
LeaveWhenEmpty(t) ==
  /\ state[t] = "run" /\ done
  /\ hand[t] = NoMetric
  /\ queue = <<>>
  /\ state' = [state EXCEPT ![t] = "stopped"]
  /\ UNCHANGED <<lines, arrival, ttids, overlapped, http, serving, done>>

(* The loop of process() ends once done is set; the queue is left as it is. *)
Leave(t) ==
  /\ state[t] = "run" /\ done
  /\ hand[t] = NoMetric
  /\ state' = [state EXCEPT ![t] = "stopped"]
  /\ UNCHANGED <<lines, arrival, ttids, overlapped, http, serving, done>>

-----------------------------------------------------------------------------
(* main has stored the worker, whose threads run, and starts the servers.   *)
StartServers ==
  /\ serving = "no" /\ \A t \in Thread : Created(t)
  /\ serving' = "yes"
  /\ UNCHANGED <<lines, arrival, threads, done>>

(* A request for /proc: get_proc_status copies the worker's ttids, without  *)
(* tmut.  Other requests read the counters or touch nothing.                *)
Request ==
  /\ ServersRun /\ http = "idle"
  /\ http' = "copy"
  /\ UNCHANGED <<lines, arrival, state, ttids, overlapped, serving, done>>

(* The copy is made; the ids in it are looked up and the reply is sent.     *)
Reply ==
  /\ http # "idle"
  /\ http' = "idle"
  /\ UNCHANGED <<lines, arrival, state, ttids, overlapped, serving, done>>

(* stop(), after a signal or when a server cannot be started, with others   *)
(* running or not: the status server ends its request, then the servers are *)
(* joined ...                                                               *)
StopServers ==
  /\ serving = "yes" /\ http = "idle"
  /\ serving' = "stopped"
  /\ UNCHANGED <<lines, arrival, threads, done>>

(* A signal finds main with a server constructed and not yet in the list    *)
(* (proxy.cc:35-48), or in stop(), which has cleared the pointer it waits   *)
(* behind (proxy.h:97-104): stop() does not join that server.              *)
LeaveServer ==
  /\ serving = "yes"
  /\ serving' = "left"
  /\ UNCHANGED <<lines, arrival, threads, done>>

Stopping == serving \in {"stopped", "left"}

(* ... and then the worker is destroyed. *)
DestroyWorker ==
  /\ Stopping /\ ~done
  /\ done' = TRUE
  /\ UNCHANGED <<lines, arrival, threads, serving>>

ThreadStep(t) ==
  /\ up
  /\ ReadEnd(t) \/ StoreTid(t) \/ Pop(t) \/ Handle(t) \/ Leave(t)
  /\ UNCHANGED up

MainStep ==
  /\ up
  /\ \/ \E t \in Thread : CreateThread(t)
     \/ ConstructorThrows \/ StartServers \/ StopServers \/ LeaveServer \/ DestroyWorker
  /\ UNCHANGED up

ServerStep ==
  /\ up
  /\ (\E m \in Metric : Consume(m) \/ ConsumeNoMemory(m)) \/ Request \/ Reply
  /\ UNCHANGED up

Next ==
  \/ \E t \in Thread : ThreadStep(t)
  \/ MainStep
  \/ ServerStep
  \/ up /\ Crash

Spec == Init /\ [][Next]_vars

(* Threads are scheduled and main goes on to destroy the worker; nobody     *)
(* owes the proxy a line or a signal.                                       *)
FairSpec ==
  /\ Spec
  /\ \A t \in Thread : WF_vars(ThreadStep(t))
  /\ WF_vars(up /\ DestroyWorker /\ UNCHANGED up)

-----------------------------------------------------------------------------
Sent == UNION {Range(sent[d]) : d \in Dest}

(* Where the line m is: in the queue, in a thread's hands, sent to an       *)
(* aggregator, or set aside.                                                *)
Queued(m) == {i \in DOMAIN queue : queue[i] = m}
Held(m)   == {t \in Thread : hand[t] = m}
SentAs(m) == {p \in UNION {{d} \X DOMAIN sent[d] : d \in Dest} : sent[p[1]][p[2]] = m}
Aside(m)  == {s \in {"fresh", "lost", "banned", "bad", "kept"} :
                \/ s = "fresh" /\ m \in fresh
                \/ s = "lost" /\ m \in lost
                \/ s = "banned" /\ m \in banned
                \/ s = "bad" /\ m \in bad
                \/ s = "kept" /\ m \in kept}

(* How many times the line m is somewhere in the proxy. *)
Places(m) ==
    Cardinality(Queued(m)) + Cardinality(Held(m))
  + Cardinality(SentAs(m)) + Cardinality(Aside(m))

(* Every line is in exactly one place: threads that take lines from the     *)
(* same queue neither lose one nor send it twice.                           *)
OnePlace == \A m \in Metric : Places(m) = 1

Position(m) == CHOOSE i \in DOMAIN entered : entered[i] = m

Handled == Sent \cup banned \cup bad \cup kept

(* A line can be overtaken only while a thread has it in its hands: what    *)
(* was queued before a line that was handled has left the queue, so at any  *)
(* time no more than one line per thread is late.  How late is not bounded: *)
(* while one thread holds its line the others may handle all that follow.   *)
OvertakenIsInHand ==
  \A m \in Handled : \A i \in 1..Position(m) - 1 :
    entered[i] \in Range(hand) \cup Handled

(* The threads of a proxy that stops, or whose worker cannot be built, end: *)
(* whoever joins them goes on.  It also holds when stop() has left a server *)
(* running that keeps filling the queue; the process may die instead.       *)
ThreadsEnd ==
  Stopping ~> (~up \/ \A t \in Thread : state[t] \in {"none", "stopped"})
=============================================================================

# statsdcc in TLA+

statsdcc is a C++ implementation of statsd: an **aggregator** that receives metric lines over
UDP or TCP, aggregates them and flushes the aggregates to its backends at an interval, and a
**proxy** that spreads lines over several aggregators by the name of the metric. This directory
holds TLA+ modules translated from its source, the TLC configurations that check them and proofs
that TLAPS checks.

    tlasany M.tla                     parse
    tlc -config X.cfg M               model-check (PROJECT.json pairs each .cfg with its module)
    tlapm M_proofs.tla                check the proofs about M (Servers: three minutes,
                                      Aggregator and Ledger: a minute and a half each,
                                      the others: less than one)

## 1. The system

| Component | Source (below `src/`) | State | Operations | Correct when |
|---|---|---|---|---|
| Consumer | `lib/consumers/aggregator_consumer.cc` | none | `consume`: copy the line, find its name, pick a worker by hash | every line of a name goes to one worker |
| Aggregator worker | `src/workers/aggregator/worker.cc`, `.../worker.h` | lock-free queue, interrupt flag, current ledger, flusher thread, three status figures | `submit`, `interrupt`, the loop of `process` | no accepted line is lost or flushed twice; a tick is not lost; the figures belong together |
| Clock | `include/statsdcc/clock.h` | `done`, condition variable | tick all workers every `frequency` seconds | stopped before the workers |
| Backend container | `include/statsdcc/backend_container.h` | list of backends, `lmut` | `flush`: all backends under the mutex | one flusher at a time; every backend gets every ledger |
| Ledger | `src/ledger.cc` | nine maps | `buffer` a line, `process` at the flush | the aggregates are what the lines say |
| Hashring | `lib/hashring/hashring.cc` | sorted points | build, `get` | the successor of the key; little moves when a server goes |
| Carbon backend, connections | `lib/backends/carbon.cc`, `include/statsdcc/net/connection.h` | a socket per destination, `prefix_stats` | `flush_stats`, `write`, `refresh` | statistics under the right thread; whole strings, no leaked socket, the flush ends |
| Repeater backend | `lib/backends/repeater.cc` | a UDP socket | `flush_stats` | the receiver's ledger adds up to the sender's |
| Stdout backend | `lib/backends/stdout.cc` | none | `flush_stats` | statistics under the right thread |
| Process | `src/aggregator.cc`, `include/statsdcc/aggregator.h` | the global pointers | start, `stop`, `sig_handler` | everything is joined before its users' data goes |
| Servers | `lib/net/servers/socket/` | `done`, a socket and a buffer per UDP thread; the TCP thread's descriptor sets and its line buffer | `listen` | packets are handed over whole; descriptors are those in use; waiting clients are served; the threads can be stopped |
| HTTP status | `lib/net/servers/http/` | MHD daemon | `/app`, `/proc` | consistent figures |
| Proxy | `src/workers/proxy/worker.cc`, `include/statsdcc/proxy.h` | one queue, several threads, destinations, `ttids` | constructor, `consume`, `process`, `/proc`, `stop` | each line sent once, to the aggregator of its name; the threads end |
| Thread ids | `include/statsdcc/threads_info_interface.h` | `ttids`, `tmut` | `add_tid`, `get_tids` | every running thread is listed |
| Configuration | `lib/configs/` | the global `config` | read once | - |

**Interactions.** Server threads call the consumer, which calls `Worker::submit` on the worker's
queue (shared, lock-free, bounded). The clock thread stores `true` in each worker's
`interrupt_flag`. Each worker thread pops, looks at the flag, and on a tick starts a flusher
thread with a *copy* of its ledger, joins the previous flusher, publishes its figures, replaces the
ledger and lowers the flag. Flushers of all workers meet at the container's mutex and call the
backends one after the other. `stop()` runs inside the signal handler and
destroys servers, clock and workers in turn. In the proxy the threads share one queue and one list of ids; the
status server's thread reads both processes' counters and ids.

**What is hard.** A new flusher runs before the old one is joined; a tick may arrive between the
test of the flag and its reset; the flag is looked at only after a pop; destruction order inside a
worker and between the objects; a signal at any point of start-up and of shutdown itself; connections that break half way
through a string, and servers that stop reading; a member of the carbon backend that every flusher overwrites; descriptors that are reused and
buffers that are kept between reads; system calls that fail in a server thread; the binary search of the ring at
its ends; percentiles of few samples; several threads on one queue, and on one unlocked vector, in the proxy. `PROJECT.json` lists them, each with its line.

## 2. The modules

### Aggregator (and Delivery, MCAggregator, Aggregator_proofs)

The pipeline from the consumer to the backends. Variables carry the names of the code's fields
(`interrupt_flag`, `current_ledger`, `count`, `metrics_rate`, ...); `pc[w]` and `fpc[w][s]` are the
program counters of worker and flusher threads. A line is an element of `Metric` and a ledger is
the set of lines in it: what a ledger computes from them is the business of `Ledger`. A worker has at
most two flushers, the one in `flusher_guard` and the one about to replace it, told apart by a slot.

| Action | Code |
|---|---|
| `Consume`, `ConsumeNoMemory`, `Submit` | `AggregatorConsumer::consume`, `Worker::submit` |
| `Wake`, `Interrupt` | `Clock::wait_interrupt`, one worker per step |
| `Pop`, `CheckInterrupt` | `worker.cc:47-56` |
| `SpawnFlusher`, `JoinFlusher`, `RenewLedger` | `worker.cc:58-77`: `reset(new ThreadGuard(...))` first starts the new thread and then destroys (joins) the old one |
| `Buffer` | `worker.cc:80-81` |
| `AcquireContainer`, `FlushStats`, `ReleaseContainer` | `BackendContainer::flush` |

`epoch`, `fepoch` and `order` are history variables. `RenewLedger` is one step for six statements
of the worker: in the model no other thread reads what it writes, except `interrupt_flag`, and a tick
that falls between the statements is swallowed like one just before them. The module is of a worker that runs: `done`
is not in it (section 6). A flusher's copy of
the ledger is taken with the start of its thread.

`Delivery` is the abstract promise for one line: refused on arrival, and never seen by a backend, or
accepted and given to every backend at most once, in the backends' order. `Aggregator` implements it
(property `Delivers`, theorem `Refinement`) with the identity on `fresh`, `lost` and `sent`.

### Lifecycle (and Lifecycle_proofs)

Start-up and shutdown. Objects (HTTP, UDP, TCP, clock, workers) are numbered in the order in which
`stop()` visits them. `main` is the main thread's program counter: it constructs (`Construct`) and
stores (`Register`) each object, may fail (`ConstructFails`: a worker's constructor and a `std::string` lead to `stop()`,
a thread that cannot be created for the clock or a socket server to `std::terminate`), pauses, and after a signal or a
failure runs `stop()`, where `Reset` is `unique_ptr::reset` (it clears the pointer first, then the destructor sets `done`)
and `Destroy` destroys one member per step, in reverse order of declaration; destroying the
`ThreadGuard` waits for the thread. The other threads are reduced to the loop that looks at `done`,
what they block on, and the worker they are about to use (`touch`). A worker's thread starts flushers (`flushers`: the
current one, and the previous one while it waits for it) and does not end before `flusher_guard` has joined the last.

`Signal` runs `stop()` from its beginning on top of whatever the main thread was doing. What it had in its hands then
(`InHand`) is out of every `stop()`'s sight for good: an object whose constructor has returned and that is in no global
yet, or one whose pointer is cleared and that is not destroyed yet. The history variable `caught` remembers these, and
the properties name them as their exceptions.

### Hashring (and MCHashring, Hashring_proofs)

`generate_continuum`, `get` and the loop of `find`, one iteration per step, indices from 0 as in the
code. MD4 is *any* assignment of words to points, ties included; the order of tied points is any.
`Restart` is the operator restarting the process without one server, after which the same key is
looked up again.

### Carbon, Flush (and MCFlush, Flush_proofs)

`Carbon` is how a flush is sent: a string per destination, written on a connection that is kept. The kernel takes
a string in steps (`WriteLine`); between any two of them a server may close, reset, go away or come back, or stop
reading, and then `::write` blocks until it reads again or the connection breaks (`ServerStalls`, `ServerReads`). `peer`
tells what has become of a socket, `held` is the process's set of open sockets, `sent` what the kernel took.

`Flush` extends it by the flushers and by what the strings hold. Each worker has up to two flushers alive, told apart by
a slot (`Flusher`): one is started with a ledger (`Spawn`) while the previous one may still run. A flusher waits for the container's mutex (`Acquire`), sets `prefix_stats` (`SetPrefix`), builds the lines of
the metrics and then those of its own statistics (`AddMetrics`, `AddFigures`, one step each: they read only what
the flusher owns, and `prefix_stats`), hands the strings to `Carbon`, prints the same ledger (`PrintLedger`) and
leaves. A series is a tuple of prefix, cleaned name and suffix, or of a thread and a statistic; that the texts of
two such tuples differ is not modelled. Which server a name is kept on is the constant `Place`, which the module
`Hashring` is about; that a worker's ledger only holds names that hash to it is the assumption `FlushAssumption`,
which `Aggregator` proves (`OneWorkerPerName`).

### Ledger (and MCLedger, Ledger_proofs)

`buffer` and `process` on lines given as the tokens sscanf finds in them. Numbers are integers and a
sampling rate is given by its inverse, so that the arithmetic is exact. `Renew` is the worker
starting an empty ledger. `seen` is a history variable, the lines of the interval, against which the properties
compare the maps.

### Server, UDPServer, TCPServer, Servers (and PacketFeed, MCServers, Servers_proofs)

`Server` is the base class: a kind and `done`. `UDPServer` is the loop of each UDP thread, one system call or one
line per step: the kernel puts a datagram at any thread's socket (`Arrive`), the thread takes it to the buffer it
keeps (`Receive`) and hands lines to the consumer up to the first NUL (`NextLine`, `EndOfPacket`); `socket`, `bind`
and `recvfrom` may fail (`OpenSocket`, `CallFails`). `PacketFeed` is the abstract promise: each received packet is
handed over whole, in the order of the thread, or, when the thread ends, not at all. `HandlesPackets` says that
`UDPServer` implements it: `Inbox` is the lines of what the kernel holds and of the packet being read, `Handled` what
was handed over without the lines of an unfinished packet.

`TCPServer` is the constructor (`Construct`, `NoThread`) and the one TCP thread: `Select` with a zero timeout, then the ready descriptors in ascending order
(`Scan`), `Accept` with the lowest free descriptor, `ReadSome` and `ReadNothing` for the two outcomes of `readn`.
`PosAfter` is the copy loop on the shared line buffer, the stray character behind what was read included, which may
be anything; `Reach` is the highest index the loop writes. The history variable `overrun` remembers that it was
once outside, after which the thread's behaviour is undefined and the model of it stops, and `long` that some client had
more to send than short lines. Clients connect, send, close, reset and come again. No line leaves the server, as in the code.
`Servers` puts the two side by side under one `kind`.

### Proxy (and MCProxy, Proxy_proofs)

The process from the worker's construction to `stop()`. The constructor creates the threads one after the other
(`CreateThread`) and may throw in between (`ConstructorThrows`). `ReadEnd` and `StoreTid` are the two halves of the
unguarded `push_back` of a thread's id; two that overlap may lose any ids or kill the process (`Crash`), and the
status server's copy (`Request`, `Reply`) may find freed memory. `destinations` is how many aggregators are configured, 0 included (only the
stdout backend); `Forward` may fail to send. `StartServers` and `StopServers` are main's and `stop()`'s, the latter
also for servers that fail to start. `LeaveServer` is a `stop()` that does not see a server, because a signal found it
constructed and not in the list yet, or in another `stop()`'s hands: that server goes on, and may use the worker after
its end.

### Status (and Status_proofs)

The aggregator's HTTP status server against the threads it reports on. A worker publishes three figures in
the order of `worker.cc:68-75` (`StoreBad`, `LockAndStore` and `StoreRest` for the two halves of
`set_metrics_frequency`, `StoreRate`), while the handler reads them in the opposite order, one worker after the
other (`ReadRate`, `LockAndCopy` and `CopyRest`, `ReadBad`). A figure is the number of the interval it
belongs to. `/proc` reads `get_tids()[0]` of each worker and of the clock: with no id there yet, or
one being appended, the outcome is undefined (`ReadNoId`: garbage or a crash). This refines one point of
`Aggregator`, whose `RenewLedger` publishes in one step.

### Repeater (and MCRepeater)

Extends `Ledger`: when a ledger has been processed, the repeater prints its aggregates as lines, cuts each
string as `send()` does and sends it to every destination, which parses it with the same `BadLine` the
sender used for its own input.

## 3. The runs

| Run | Bounds | What it shows |
|---|---|---|
| `pipeline` | 2 workers, 2 backends, 4 lines (two of one name, one bad, one without a name), queues of 1 | `NoLineLeaks`, `OneWorkerPerName`, `FlushOrder`, `StatusAgrees`, `FlagFallsAfterHandOver`, and the refinement of `Delivery` |
| `pipeline_live` | 3 lines, 1 backend | `BusyWorkerFlushes`: a ticked worker with a line to pop flushes |
| `pipeline_idle` (violation) | 2 lines | `FlushedEveryInterval` fails, finding 1 |
| `lifecycle` | 1 worker with its flushers, clock, all servers, two signals at any step of the main thread | nobody uses a worker that was reset and `exit(0)` leaves no thread, except for objects a signal caught; a signal ends the process |
| `lifecycle_tcp` (violation) | 1 worker, TCP | a client that stays connected keeps the process alive, finding 2 |
| `hashring` | 3 servers, up to 4 points, 4 hash values | the search against the definition of a successor, its progress; what moves when a server goes |
| `flush` | 2 workers with 2 flushers each, 2 carbon servers, 3 flushes, strings of 2 lines, 1 fault, 3 sockets | statistics under the right thread, whole strings, no glued fragments, no socket leak, every flush ends |
| `servers` | UDP: 2 threads, 3 of 5 kinds of packets; TCP: a constructor that may fail, 2 clients, short lines and one that does not end, buffer of 4, backlog of 2, 1 failing accept, 1 reset | packets handed over whole (refinement of `PacketFeed`), a running thread has the descriptors it reads, only a long line overruns the line buffer, waiting clients are accepted, a stopped server ends |
| `ledger` | 15 lines, 3 per interval; 5 when all are timers; 5 percentiles | each aggregate against a definition over the lines seen |
| `repeater` (violation) | 3 lines of the four types, 2 destinations | receivers count bad lines, finding 3 |
| `proxy` | 2 threads, 3 lines (with a name, without, blacklisted), queue of 2, 0 or 2 aggregators | each line in one place, a line is overtaken only while a thread holds it, threads end |
| `status` | 2 workers, 2 intervals each, any requests | the figures of a reply only grow newer in the order they are read, the table is of one interval, a reply lags the one before by at most one interval, requests are answered once all threads have left their ids |

**Why the bounds are enough to be interesting.** With queues of one and two lines of a name a push
finds a full queue; with four lines a worker can hand over three ledgers, so a flusher is alive while the
next one starts and the worker waits for it; two backends let a ledger be between them while others wait
for the mutex. In `flush`, three ledgers of two workers make one worker flush twice, with two flushers alive and the
other's flush before, between or after. One fault breaks a connection in the middle of a string, while it is idle or
while it is being replaced, and a server that went away at the start is a second one; sockets never run out with one
for each server and one for the fault. In `lifecycle` one worker is enough for the order of the objects and for what its
thread and flushers do; with two, the states are beyond five minutes of TLC, and the proofs are for any number. In
`servers`, three packets let one thread handle a long one and a short one after it
while the other has one; the packets hold several lines, empty lines, a NUL and nothing. Two TCP clients reuse each
other's descriptors; a line of two characters and one of three without an end make reads of a full buffer and of less,
and lines that add up. Rings of up to four points
have every position of a binary search: first, last, middle, wrapped, tied. Percentiles of up to five
samples include those that round to no sample, to the last one, and ties between samples. A ledger that exceeds
`MaxLines` only repeats actions that commute with what the properties look at. `MaxFlushes`, `MaxSocks`,
`MaxFaults`, `MaxDatagrams`, `MaxFailures`, `MaxResets`, `MaxLines`, `MaxTimers` and `MaxIntervals`
are the only bounds in guards; a run that reaches them may stop, which is why `flush` and `servers` turn deadlock
checking off. `pipeline` keeps it on (the clock never stops). In `hashring`, `proxy` and `status` the behaviours do
end: one lookup and one restart, a stopped proxy, a process that died in `/proc`. Two intervals (`MaxIntervals`) are
enough for two replies to straddle the publishing of one interval from either side.

**Fairness.** *Aggregator*: the clock and each worker are weakly fair, they are plain loops; a backend
returns; a flusher that finds the mutex free again and again gets it (strong), which is the least one
can ask of `std::mutex`. No line is ever obliged to arrive. *Lifecycle*: every thread is scheduled and
its time-limited system calls return. Two assumptions are on the outside, and the code does not see to them:
`BackendsReturn`, that a flusher gets through the backends, which `Flush` shows for carbon servers that read; and
`PoliteClient`, which adds that a TCP client closes its connection. Without the latter `SignalEndsProcess` fails
(`lifecycle_tcp`), without the former it fails just as well. *Hashring*: none; that the search ends is that each
pass shrinks its interval. *Flush*: the flusher inside runs (weak), one that waits gets the mutex when it is free again
and again (strong), no worker has to flush. `ServersRead` is an assumption on the carbon servers: one that
stopped reading reads again, unless the connection breaks. Otherwise they owe nothing, but misbehave a bounded number of
times: a server that accepts and resets every connection keeps `write` and `refresh` calling each other for ever, with
the container's mutex held. *Servers*: the server threads run, and no call has to fail; a TCP client sends what
it has and closes, without which `readn` blocks everyone; UDP clients owe nothing. *Proxy*: each worker thread, and main
once it stops; nobody owes a line, a request or a signal. *Status*: the daemon's thread, and a worker that has
begun to publish; weak fairness is enough for the table's mutex because a worker takes it once per
interval.

## 4. The proofs

**Aggregator_proofs**, for any number of workers, backends and lines, any capacity and frequency, under
`SizesAssumption` and `LinesAssumption`:

| Theorem | States |
|---|---|
| `TypeCorrect` | `Spec => []TypeOK` |
| `NoLeak` | `Spec => []NoLineLeaks` |
| `NamesStay` | `Spec => []OneWorkerPerName` |
| `MutualExclusion` | `Spec => []OneFlusherInside` |
| `HandOver` | `Spec => FlagFallsAfterHandOver` |
| `Refinement` | `Spec => Delivers` |
| `NearlyInOrder` | `Spec => []FlushOrder` |
| `OneLedgerShown` | `Spec => []StatusAgrees` |

None of these is inductive. `IInv` is the conjunction of

- `TypeInv`, the types;
- `OutsideInv`: a line that has not arrived or was refused has been given to no backend;
- `MutexInv`, `SlotInv`: `lmut` is held by exactly the flusher that is inside, and the slot that
  `flusher_guard` does not hold is free unless the worker is joining;
- `WorkerInv(w)`, exclusive ownership, for each worker: a line that is queued, in hand or collected is in no
  second place and no backend has been given it; a line of a flusher's copy has been given to exactly the
  backends before its `fnext`; and every line routed to a worker that has arrived and was not refused is in
  one of these places or done.

Ownership is needed in full: that a line is not lost when the ledger is swapped rests on its being in the
new flusher's copy, that it is not sent twice on its being nowhere else. `IInvInit` and `IInvStep` show that
`IInv` is inductive, one lemma per kind of step; the invariants follow from it, and `HandOver` and
`Refinement` are proved step by step under it. The order of the ledgers needs an invariant of its own: which
ledger each live flusher carries, and how many have taken the mutex (`OrderOK`); `OrderStep` is its
induction step. `OneLedgerShown` adds that the loop's `count` is the size of the ledger (`CountInv`), which again rests on
ownership: a line that is buffered is not in the ledger yet.

**Hashring_proofs**, for any ring, under `RingAssumption` and `LengthAssumption`: `RingTypeCorrect` (`TypeOK`),
`FindCorrect` (`FindIsSuccessor`) and `FindNarrows` (`SearchNarrows`). The
strengthening `RingInv` says that the ring is sorted by hash and that during the search every point before
`low` is below the key and none from `high` on is. `KeysStay` (`OnlyItsKeysMove`) adds, for any shards, any number of
points and any assignment of hashes, that taking one server out moves only the keys it had, provided that the others keep their number of points and the
key's point is not tied. `MoveInv` says that the ring
holds exactly the points of the servers that are configured, and that the answer before the restart was a successor
among the points of all of them: when it is still there, it is one among fewer points, too.

**Status_proofs**, for any number of workers and intervals: `OneDirection` (`Spec => []ReplyNeverGoesBack`) and
`OneBehind` (`Spec => LagsByOne`). The invariant says, for each worker, to which interval each figure belongs while the
worker is at each of its stores (`Written`), who holds the table's mutex (`Held`), and that what the handler has read of
the worker it is at is bounded by what it has still to read (`Reading`): the bound moves only up, since every store is
of a newer interval (`ReadingKept`), except inside the table, which the mutex protects. Once it is known, the bounds of
`TypeOK` are inductive with two more (`BoundsInv`: a worker that publishes is within `MaxIntervals`, and `/proc` within
its list of threads): `StatusTypeCorrect` (`TypeOK`).

**Flush_proofs**, about the flushers and the backends. For any servers, lines, flushes, sockets and faults of the
servers, under `CarbonAssumption` and `FlushAssumption`: `FlushTypeCorrect` (`FlushTypeOK`), `NothingLeaks`
(`NoSocketLeak`) and `StringsKeepTheirBeginning` (`CutIsLastOrRepeated`). Of the flushers' steps `Carbon` sees its own
actions (`FlushersUseCarbon`), so that the invariant `CarbonInv` speaks of `Carbon` alone: each open socket belongs to
one connection and unused ones carry nothing (`SocketInv`); the last lines on a connection are the first `off` of this
flush's string while it is written, and the end of a whole string while it is not (`EndsInv`); each line follows from
the one before it (`LinesInv`). The second is what the third needs: it says which line a retry starts after. For any
workers, names, prefixes and servers: `FiguresStayApart` (`FiguresBelongToThread`). Its invariant is that the
flusher among the backends holds the mutex and, from `SetPrefix` on, finds its own id in `prefix_stats` (`OwnPrefix`),
and that a statistic that was written is one of its writer.

**Proxy_proofs**, for any number of threads, aggregators and lines and any capacity, under `ProxyAssumption`:
`TypeCorrect` (`TypeOK`, which says among others that a line's index is one of a destination) and `Overtaking`
(`OvertakenIsInHand`). `QueueInv` is needed for the second: the queue
is the end of the sequence of lines that entered, which holds each line once, and the lines before it
are exactly those in the threads' hands or handled. `NoLineTwice` (`OnePlace`) counts the places of a line by
cardinalities; `AllAlone`, that exactly one of the queue, the hands, the sent lines and the lines set aside has it, and
has it once, is what the steps preserve.

**Lifecycle_proofs**, for any number of workers, any set of servers and signals at any step of the main thread, under
`LifecycleAssumption`: `TypeCorrect` (`TypeOK`), `UsersEndFirst` (`WorkersOutliveTheirUsers`) and `NoThreadLeft`
(`ExitStopsThreads`). The invariant `Course` has one conjunct for each place of the main thread. While it starts, the
objects with a thread are those up to the current one in `StartOrder` (`Place` is its inverse), so the clock and the
servers exist only once all workers do; in `stop()` no object before the current one has its pointer. `Kept` is what
survives a `stop()` that starts again in the middle of another: each object is caught, or settled (joined, or never
constructed), or still to be found by its pointer, or in the main thread's hands; `Hand` shows that a signal turns the
last into the first. When the first worker is reset, the clock and the servers have no pointer and are in nobody's
hands, so each is caught or joined: no other user is left (`WorkersThere`). That the flushers end with the worker is
`FlushersRun`. `ThreadMoves` sums up the steps of all threads, so that one lemma shows that they preserve `Course`.

**Servers_proofs**, for any number of threads and clients, any datagrams and streams, any sizes, failures and resets,
under `UDPAssumption` and `TCPAssumption`: `TypeCorrect` (`TypeOK`), `NoDescriptorLeaks` (`DescriptorsInUse`), `LinesFit`
(`LineFits`) and `PacketsWhole` (`HandlesPackets`).

- The descriptors need that a client is in the listener's queue or behind one descriptor, never both (`Connections`).
- The line buffer needs that, as long as no client had a long line to send, what is left in it after a read is at most
  half of it, and that what is still to be read of
  a client is short lines or the end of one (`LineInv`); that is kept by a read of any part of the stream, which
  may end in the middle of a line.
- The refinement needs what a packet's lines are. `Lines` cuts a text at its newlines all at once, the
  thread takes one line after the other; `LinesAre` says that for every text the first line is what is before the first
  newline and the others are the lines of what is after it. `FeedInv`
  says that a thread among the lines of a packet has handed over the first of them and that the text it has not read
  yet consists of the others. Every step is then one of `PacketFeed` or leaves the mapping as it is.

**Ledger_proofs**, for any lines, percentiles and bounds, under `LedgerAssumption`: `TypeCorrect` (`TypeOK`),
`CountersSumUp` (`CountersAreSums`), `GaugesFollow` (`GaugeFollowsInterval`) and `RanksCorrect` (`PercentilesAreRanks`).

- *Sums* are `SumFunctionOnSet`, which adds one chosen element after the other. That the order of the choices does not
  matter (`SumRemove`, `SumMoved`) is proved once, from the least set for which it were false; the two invariants about
  counters and gauges are then inductive almost as they stand, with the types of the maps (`BasicInv`).
- *Sorting*: `SortedCopy` chooses a sorted sequence with as many of each value as the samples. There is one
  (`SortExists`, by insertion), and it is a rearrangement (`SortedCopyIs`).
- *Ranks*: no k of the samples add up to less than the first k sorted ones (`SmallestSum`), and the rounded share of a
  percentile is an index (`RoundedShareIs`).
- *Samples*: the vector of a timer is the values of its lines, one for one, along a bijection of positions and lines
  (`TimersInv`). This is what connects the state to the definition over the lines seen, and has to be carried through every
  `buffer`.

**How induction is done.** The provers cannot use the library's induction theorems, whose parameter is an operator.
What a sum over any set or a choice computes for every input is proved here by contradiction instead: the inputs
for which the statement fails form a set; if it is not empty it has a least member (`LeastNumber`, or `LeastSubset`
among the subsets of a finite set), and taking one element out of it gives a smaller one.

**Only model-checked:** the liveness properties (`BusyWorkerFlushes`, `SignalEndsProcess`, `FlushEnds`, `ClientsServed`,
`ServerEnds`, `ThreadsEnd`, `RequestAnswered`), since fairness and ENABLED are out of the prover's reach, and `Repeater`, whose
run shows a violation. All invariants, action properties and refinements that a run shows to hold are theorems.

## 5. Where the code and what is said of it disagree

Findings with a run, in `PROJECT.json`:

1. `worker.cc:47`: the flag is read only after a pop; an idle worker does not flush at the interval
   (`FlushedEveryInterval`).
2. `tcp_server.cc:77`: `readn` blocks until the buffer is full or the peer closes; `stop()` waits for that
   thread (`SignalEndsProcess`).
3. `repeater.h:44`: `send()` takes one more character off the string for each destination, and the string does
   not end in a newline: the type of its last line is gone (`RepeatedIsReadable`). Only a counter's rate and
   one figure of each timer arrive.

Met while modelling, without a run of their own:

- `aggregator.cc:52`, `:91`: `stop()` ends in `exit(0)`, so the `exit(1)` after it is never reached, and
  `debian/statsdcc.service:10` (`Restart=on-failure`) does not restart an aggregator that failed to start. `Stopped` of
  `Lifecycle` is that exit.
- `tcp_server.cc:87`: the call of the consumer is commented out: no line received over TCP is aggregated, although
  `src/README.md:61` documents the server and `tcp_server.h:34` says that it calls the consumer. The one character too
  many of the copy loop (`i <= bytes_read`, line 84) and `pos`, which connections share, would join lines (`PosAfter`).
- `tcp_server.cc:90`: `metric[pos++]` has no bound. A line longer than the buffer, or one without an end before another,
  is written past it, on the stack; `LineFits` says that short lines alone cannot do it.
- `tcp_server.cc:34-43`, `:99`: a constructor that fails in `listen()` or without a thread leaves its socket open, and the
  thread that ends closes the listening socket but not its connections, which nobody reads any more.
- `lib.cc:46-55`: the sockets to carbon block and have no send timeout. A server that accepts and stops reading keeps
  the flusher in `::write` with the container's mutex; all other flushers wait for it, their workers for them, and
  `stop()` for the workers (`ServersRead` in `Flush` and `BackendsReturn` in `Lifecycle` exclude such a server).
- `carbon.h:48`: `process_name` turns different names into one after the worker and the server have been chosen by the
  name as it came in: such a series can have two writers on two servers (`Clean` and `Place` in `Flush`).
- `ledger.cc:91`: every worker counts its bad lines under one name, and the values of the workers replace each other at
  carbon (`BadLinesSeen` in `Flush`).
- `stdout.cc:43`, `:88`: without prefixes for the types, `.count` of a counter, a timer and a set of one name is one series
  on standard output (`PrintedMetrics`); the calculation time is under `graphiteStats` (`stdout.cc:106`) where carbon has
  `carbonStats` (`carbon.cc:154`).
- `aggregator_config.cc:53`: a carbon server without `shard` is named by its position; taking one out renames, and so
  moves, those after it.
- `config.cc:57`: `to_json` tests for `info` twice and leaves out the level `warn`.
- `logger.cc:27`: with `log_level` `error`, warnings are logged as well.
- `proxy/worker.cc:99` and `aggregator_consumer.cc:31` take remainders of the same hash: with a common divisor of the
  numbers of aggregators and of workers, some workers of an aggregator behind the proxy get no line.
- `worker.h:97`: `thread_guard` is declared before the ledger, the queue and the container, so `~Worker`
  destroys those first and joins the thread afterwards. In `Lifecycle`, `Needs` and `Dangling` show the
  window (action `Crash`).
- `hashring.cc:43`: any number of virtual nodes other than 0 and 40 switches the weights off, and
  `aggregator_config.cc:57` supplies 1000 when none is configured: `weight` (`src/README.md:140`) has no effect. `Length` in
  `Hashring` shows it.
- `ledger.cc:41`: sscanf wants the rate in a field of its own (`|c|@0.1`, as `test/ledger_test.cc:25` has it); in the
  `METRIC_VALUE|c@SAMPLING_RATE` of `ledger.h:33` it is read as part of the type and ignored (`InverseRate` in
  `Ledger`): such a counter is not scaled up, and `CountersAreSums` excepts it.
- `repeater.cc:85`: the lines of a timer are printed without a newline between them; the receiver reads the
  first and drops the others in silence. A negative gauge arrives as a change, not a value (`PrintedLine`).
- `aggregator_config.cc:63`: the key is `repeater`; `src/README.md:146` calls it `repeaters`.
- `http_server.cc:165`: `/proc` before every worker and the clock have run reads element 0 of an empty vector
  (`ReadNoId` in `Status`).
- `aggregator.h:126`: a second signal (SIGTERM during SIGINT's handler) nests `stop()`; the nested call skips
  the object that the outer one is destroying, be it the clock, and goes on to reset the workers under it. A signal
  between an object's construction and its storing leaves its thread unknown to `stop()`. These are the objects in
  `caught` of `Lifecycle`: with the exception taken out, TLC violates `WorkersOutliveTheirUsers` and `ExitStopsThreads`.
  The same holds for the servers of the proxy (`LeaveServer`).
- `aggregator.cc:59`, `:87`: no thread for the clock, for the UDP server or for the TCP server is a `std::system_error`,
  which `catch (std::string)` does not catch: the process aborts with its threads running (`ConstructFails`).
- `ledger.cc:172`: with a single sample, `count_<pct>` and `sum_<pct>` are 0 and `mean_<pct>` is 0/0.
- `proxy/worker.cc:63`: the threads append their ids to a shared vector without its mutex; two that
  start together can lose one.
- `proxy/worker.cc:83`: `regex_match` wants the whole line, so the sample configuration's `^noisy`
  (`src/etc/proxy.json:22`) drops the line `noisy` and nothing else.
- `aggregator/worker.h:83`: `metrics_dropped`, `metrics_rate` and `bad_lines_seen` start
  uninitialised (`Garbage`).

## 6. What is not modelled

- The logger: output to syslog, no state that another component uses. Of the system-call wrappers what they return is
  modelled, failures included, in the actions that call them; retries on EINTR cannot be seen by the callers.
- The text: names of keys, number formats, the carbon backend's clean-up of names (which only enters as the function
  `Clean`), JSON, the pages of the status servers, `/proc` files. The hash functions: MD4 and `std::hash` are arbitrary.
- The configuration is read once; what it says appears as constants of the modules, and how it is parsed does not.
- Floating point: the ledger's numbers are integers, the hashring's share is an exact quotient.
- Weak memory: the flags are `std::atomic` with sequentially consistent operations. The unguarded
  `ttids` is a read and a write in the model, with the outcomes named there.
- `done` in `Aggregator`: its workers run for ever. What is in a worker's queue or ledger when `stop()` sets `done` is
  lost, outside of what `NoLineLeaks` and `Delivers` speak of; the code flushes nothing at its end.
- Signals on other threads than main. The code masks none, so the kernel may choose any thread, and `stop()` on a thread
  that it joins waits for itself. Nor a signal inside `push_back` of `::workers` or `::servers`, whose iterators `stop()`
  would then use; nor the destructors of globals that `exit` runs beside the threads of caught objects. In the proxy, a
  signal during `worker.reset()` makes the nested `stop()` exit at once.
- Descriptors of `FD_SETSIZE` or more: `FD_SET` at `tcp_server.cc:73` would write outside the set. With the usual limit of
  1024 open files `accept` fails first; a process with a higher limit is not modelled.
- Sampling rates of 0 or below, and rates whose inverse is not an integer.
- `bad_alloc` outside `tc_malloc`, and a flusher thread that cannot be started.
- `metrics_dropped` of the workers in `/app`: a counter that is read once.

## 7. What could follow

1. **The whole path**: `Aggregator` composed with `Ledger` and `Flush`, so that the values at carbon are compared with
   the lines received. Each step is in one of the three modules; together they are out of TLC's reach beyond one name.
2. **Repeater**: what the receiver's ledger would hold without the cuts, against the sender's: an abstract
   specification that the present code does not implement.
3. **Status and Aggregator**: `RenewLedger` split into its stores, with `Status` as the refined view.
4. **Proofs across modules**: `Flush` assumes of the ledgers what `Aggregator` proves (`OneWorkerPerName`), and of `Place`
   what `Hashring` proves; a common module could discharge both assumptions by INSTANCE.

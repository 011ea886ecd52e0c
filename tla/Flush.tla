-------------------------------- MODULE Flush --------------------------------
(***************************************************************************)
(* The flushers of the workers, with the ledgers of their intervals:       *)
(* BackendContainer::flush lets them in one by one; Carbon::flush_stats     *)
(* names the series, chooses their servers and sends the strings as module *)
(* Carbon describes; Stdout::flush_stats prints the same ledger.  (The      *)
(* repeater, which comes between the two, is module Repeater; what becomes *)
(* of the lines of a ledger on their way here is module Aggregator.)       *)
(*                                                                         *)
(* The carbon backend is one object: prefix_stats is a member of it, set   *)
(* at the beginning of a flush and read at its end.                        *)
(***************************************************************************)
EXTENDS Carbon, FiniteSets

CONSTANTS
  Worker,        \* worker ids
  NoWorker,      \* no prefix yet
  NoFlusher,     \* nobody has the mutex
  Name,          \* metric names
  BadLinesSeen,  \* the counter <config name>.bad_lines_seen of every worker
  WorkerOf,      \* WorkerOf[n]: the worker that n's hash selects
  Clean,         \* Clean[n]: process_name(n)
  PrefixOf,      \* PrefixOf[t]: the configured prefix of a type
  Figure,        \* names of a flusher's own statistics: numStats, ...
  Place,         \* Place[n]: the server the hashring answers for a name
  FigurePlace,   \* FigurePlace[<<w, g>>]: the same for a figure's series
  Ledgers        \* Ledgers[w]: the ledgers worker w may hand over

(* The flusher threads of a worker: process starts one while the previous   *)
(* one may still run, so there are two places for them.                     *)
Flusher == Worker \X {0, 1}

Type == {"c", "ms", "g", "s"}

(* One name of one type that a ledger has something for. *)
Aggregate == Type \X (Name \cup {BadLinesSeen})

ASSUME FlushAssumption ==
  /\ NoWorker \notin Worker
  /\ NoFlusher \notin Flusher
  /\ BadLinesSeen \notin Name
  /\ WorkerOf \in [Name -> Worker]
  /\ DOMAIN Clean = Name \cup {BadLinesSeen}
  /\ DOMAIN PrefixOf = Type
  /\ Place \in [Name \cup {BadLinesSeen} -> Dest]
  /\ FigurePlace \in [Worker \X Figure -> Dest]
  /\ Figure # {}
  /\ \A w \in Worker : \A ledger \in Ledgers[w] : \A a \in ledger :
       a \in Aggregate /\ (a[2] \in Name => WorkerOf[a[2]] = w)

VARIABLES
  guard,         \* guard[w]: the place of w's latest flusher
  fpc,           \* where each flusher is; "idle": not alive
  ledger,        \* its copy of the ledger
  lmut,          \* BackendContainer::lmut
  prefix_stats,  \* Carbon::prefix_stats, the worker id in it
  strings,       \* strings[x]: the local stat_strings, line by line
  stored,        \* history: the lines of strings given to a connection
  printed        \* history: the lines on standard output

container == <<guard, fpc, ledger, lmut, prefix_stats, strings, stored, printed>>
flushVars == <<vars, container>>

FlushInit ==
  /\ Init
  /\ guard = [w \in Worker |-> 0]
  /\ fpc = [x \in Flusher |-> "idle"]
  /\ ledger = [x \in Flusher |-> {}]
  /\ lmut = NoFlusher
  /\ prefix_stats = NoWorker
  /\ strings = [x \in Flusher |-> {}]
  /\ stored = {}
  /\ printed = {}

-----------------------------------------------------------------------------
(* What follows the name in the series of an aggregate. *)
Suffixes(type) == CASE type = "c"  -> {".rate", ".count"}
                    [] type = "ms" -> {".upper", ".lower", ".count", ".mean"}
                    [] type = "g"  -> {""}
                    [] type = "s"  -> {".count"}

(* A line: its series, the server it goes to, the worker whose flusher      *)
(* wrote it.                                                                *)
Entry(series, d, w) == [series |-> series, to |-> d, by |-> w]

(* A metric goes to the server of its name as it came in, under the name as *)
(* it is cleaned up.                                                        *)
MetricLines(x) ==
  UNION {{Entry(<<PrefixOf[a[1]], Clean[a[2]], y>>, Place[a[2]], x[1]) : y \in Suffixes(a[1])} :
           a \in ledger[x]}

FigureLines(x, id) == {Entry(<<id, g>>, FigurePlace[<<id, g>>], x[1]) : g \in Figure}

At(x, from, to) == fpc[x] = from /\ fpc' = [fpc EXCEPT ![x] = to]

(* The worker hands its ledger over to a new flusher; the previous one may  *)
(* be alive.  It has joined the one before that, whose place the new one    *)
(* takes: until then it does not get here again.                            *)
Spawn(w) ==
  LET x == <<w, 1 - guard[w]>> IN
  /\ At(x, "idle", "lock")
  /\ guard' = [guard EXCEPT ![w] = x[2]]
  /\ flush + Cardinality({v \in Flusher : fpc[v] \in {"lock", "prefix", "metrics", "figures"}})
       < MaxFlushes
  /\ \E l \in Ledgers[w] : ledger' = [ledger EXCEPT ![x] = l]
  /\ UNCHANGED <<vars, lmut, prefix_stats, strings, stored, printed>>

Enter(x) ==
  /\ At(x, "lock", "prefix")
  /\ lmut' = x
  /\ UNCHANGED <<vars, guard, ledger, prefix_stats, strings, stored, printed>>

Acquire(x) == lmut = NoFlusher /\ Enter(x)

SetPrefix(x) ==
  /\ At(x, "prefix", "metrics")
  /\ prefix_stats' = x[1]
  /\ UNCHANGED <<vars, guard, ledger, lmut, strings, stored, printed>>

AddMetrics(x) ==
  /\ At(x, "metrics", "figures")
  /\ strings' = [strings EXCEPT ![x] = MetricLines(x)]
  /\ UNCHANGED <<vars, guard, ledger, lmut, prefix_stats, stored, printed>>

(* The figures come last; then the strings are sent. *)
AddFigures(x) ==
  LET lines == strings[x] \cup FigureLines(x, prefix_stats) IN
  /\ At(x, "figures", "send")
  /\ left' = {e.to : e \in lines}
  /\ StartFlush
  /\ stored' = stored \cup lines
  /\ strings' = [strings EXCEPT ![x] = {}]
  /\ UNCHANGED <<guard, ledger, lmut, prefix_stats, printed>>

(* Carbon::flush_stats returns. *)
Sent(x) ==
  /\ At(x, "send", "print")
  /\ EndFlush
  /\ UNCHANGED <<guard, ledger, lmut, prefix_stats, strings, stored, printed>>

(* Stdout::flush_stats: no prefix, no clean-up, one string. *)
PrintedMetrics(x) ==
  UNION {{[series |-> <<"", a[2], y>>, by |-> x[1]] : y \in Suffixes(a[1])} : a \in ledger[x]}

PrintedFigures(x) == {[series |-> <<x[1], g>>, by |-> x[1]] : g \in Figure}

PrintLedger(x) ==
  /\ At(x, "print", "leave")
  /\ printed' = printed \cup PrintedMetrics(x) \cup PrintedFigures(x)
  /\ UNCHANGED <<vars, guard, ledger, lmut, prefix_stats, strings, stored>>

(* Fault: the mutex is only released by the next flusher's thread. *)
LeaveLocked(x) ==
  /\ At(x, "leave", "idle")
  /\ ledger' = [ledger EXCEPT ![x] = {}]
  /\ UNCHANGED <<vars, guard, lmut, prefix_stats, strings, stored, printed>>

Release(x) ==
  /\ At(x, "leave", "idle")
  /\ lmut' = NoFlusher
  /\ ledger' = [ledger EXCEPT ![x] = {}]
  /\ UNCHANGED <<vars, guard, prefix_stats, strings, stored, printed>>

FlusherStep(x) ==
  \/ SetPrefix(x) \/ AddMetrics(x) \/ AddFigures(x)
  \/ Sent(x) \/ PrintLedger(x) \/ Release(x)

FlushNext ==
  \/ \E w \in Worker : Spawn(w)
  \/ \E x \in Flusher : Acquire(x) \/ FlusherStep(x)
  \/ (Send \/ Servers) /\ UNCHANGED container

(* Assumption on the servers, without which a flusher may wait for ever in  *)
(* ::write with the mutex in its hands: those that stopped reading read     *)
(* again, unless the connection breaks.  The code does not see to it.       *)
ServersRead == WF_flushVars(\E s \in Sock : ServerReads(s) /\ UNCHANGED container)

(* The flusher inside keeps running and one that waits gets the mutex when  *)
(* it is free again and again.  Otherwise the servers owe nothing, and no   *)
(* worker has to flush.                                                     *)
FlushSpec ==
  /\ FlushInit /\ [][FlushNext]_flushVars
  /\ \A x \in Flusher : SF_flushVars(Acquire(x))
  /\ WF_flushVars(\E x \in Flusher : FlusherStep(x))
  /\ WF_flushVars(Send /\ UNCHANGED container)
  /\ ServersRead

-----------------------------------------------------------------------------
FlushTypeOK ==
  /\ TypeOK
  /\ guard \in [Worker -> {0, 1}]
  /\ fpc \in [Flusher -> {"idle", "lock", "prefix", "metrics", "figures", "send",
                          "print", "leave"}]
  /\ ledger \in [Flusher -> SUBSET Aggregate]
  /\ lmut \in Flusher \cup {NoFlusher}
  /\ prefix_stats \in Worker \cup {NoWorker}
  /\ \A e \in stored : e.to \in Dest /\ e.by \in Worker
  /\ \A x \in Flusher : strings[x] # {} => fpc[x] = "figures"

(* The statistics under thread_<id> are those of worker <id>, on every      *)
(* backend, although carbon keeps the prefix in a member that every flush   *)
(* overwrites (carbon.cc:42 and 148-163).                                   *)
FiguresBelongToThread ==
  \A x \in Flusher, g \in Figure :
    /\ \A e \in stored : e.series = <<x[1], g>> => e.by = x[1]
    /\ \A e \in printed : e.series = <<x[1], g>> => e.by = x[1]
    /\ fpc[x] \in {"print", "leave"} =>
         \E e \in stored : e.series = <<x[1], g>> /\ e.by = x[1]

(* Every ledger handed over gets through all backends however many flushers *)
(* wait, as long as the servers misbehave a bounded number of times and do  *)
(* not stop reading for good (ServersRead): write's retries, on connections *)
(* that are closed, reset or refused, do not hold the container's mutex for *)
(* ever (connection.h:58).                                                  *)
FlushEnds == \A x \in Flusher : fpc[x] = "lock" ~> fpc[x] = "idle"
=============================================================================

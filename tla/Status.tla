------------------------------- MODULE Status -------------------------------
(***************************************************************************)
(* The aggregator's status server.  /app shows, for each worker, figures   *)
(* that the worker publishes one by one at the end of an interval; /proc   *)
(* looks up the threads by the ids they leave when they start.  The        *)
(* handler runs on the one thread of the HTTP daemon.                      *)
(*                                                                         *)
(* A figure is the number of the interval it belongs to, 0 for what is     *)
(* there before the first one.  The frequency table has two halves.        *)
(***************************************************************************)
EXTENDS Naturals, Sequences

CONSTANTS
  NumWorkers,   \* config->workers
  MaxIntervals  \* bound on the intervals of a worker

ASSUME StatusAssumption ==
  /\ NumWorkers \in Nat \ {0}
  /\ MaxIntervals \in Nat

Worker == 1..NumWorkers
CLOCK  == NumWorkers + 1
SERVER == NumWorkers + 2
Thread == Worker \cup {CLOCK, SERVER}

Interval == 0..MaxIntervals

VARIABLES
  listed,          \* listed[t]: ttids of t's object holds its id
  interval,        \* interval[w]: the interval w collects, from 1
  at,              \* at[w]: how far w is in PublishOrder; 0: collecting
  bad_lines_seen,
  frequency,       \* frequency[w]: the two halves of the table
  metrics_rate,
  fmut,            \* fmut[w]: who holds the table's mutex
  step,            \* where the handler is
  who,             \* the worker or the entry of /proc it is at
  reply,           \* reply[w]: the figures of the reply to /app
  last             \* history: bad_lines_seen of the last complete reply

figures == <<bad_lines_seen, frequency, metrics_rate>>
writer  == <<interval, at, figures>>
vars    == <<listed, writer, fmut, step, who, reply, last>>

Nothing == [rate |-> 0, freq |-> <<0, 0>>, bad |-> 0]

Init ==
  /\ listed = [t \in Thread |-> FALSE]
  /\ interval = [w \in Worker |-> 1]
  /\ at = [w \in Worker |-> 0]
  /\ bad_lines_seen = [w \in Worker |-> 0]
  /\ frequency = [w \in Worker |-> <<0, 0>>]
  /\ metrics_rate = [w \in Worker |-> 0]
  /\ fmut = [w \in Worker |-> "free"]
  /\ step = "idle" /\ who = 1
  /\ reply = [w \in Worker |-> Nothing]
  /\ last = [w \in Worker |-> 0]

Up == step # "crashed"

-----------------------------------------------------------------------------
(* A thread leaves its id when it is first scheduled. *)
ThreadStarts(t) ==
  /\ Up /\ ~listed[t]
  /\ listed' = [listed EXCEPT ![t] = TRUE]
  /\ UNCHANGED <<writer, fmut, step, who, reply, last>>

(* Faults: the rate is published first; not at all. *)
RateFirst == <<"rate", "lock", "table", "bad">>
RateNever == <<"bad", "lock", "table">>

(* The order of the stores in Worker::process. *)
PublishOrder == <<"bad", "lock", "table", "rate">>

(* Worker w is at the store called name; it goes on to the next one. *)
Store(w, name) ==
  /\ Up
  /\ at[w] # 0 /\ PublishOrder[at[w]] = name
  /\ IF at[w] = Len(PublishOrder)
       THEN /\ at' = [at EXCEPT ![w] = 0]
            /\ interval' = [interval EXCEPT ![w] = @ + 1]
       ELSE /\ at' = [at EXCEPT ![w] = @ + 1]
            /\ UNCHANGED interval
  /\ UNCHANGED <<listed, step, who, reply, last>>

(* The interrupt flag is up. *)
EndInterval(w) ==
  /\ Up /\ listed[w]
  /\ at[w] = 0 /\ interval[w] <= MaxIntervals
  /\ at' = [at EXCEPT ![w] = 1]
  /\ UNCHANGED <<listed, interval, figures, fmut, step, who, reply, last>>

StoreBad(w) ==
  /\ Store(w, "bad")
  /\ bad_lines_seen' = [bad_lines_seen EXCEPT ![w] = interval[w]]
  /\ UNCHANGED <<frequency, metrics_rate, fmut>>

(* set_metrics_frequency, under fmut *)
LockAndStore(w) ==
  /\ Store(w, "lock")
  /\ fmut[w] = "free"
  /\ fmut' = [fmut EXCEPT ![w] = "worker"]
  /\ frequency' = [frequency EXCEPT ![w][1] = interval[w]]
  /\ UNCHANGED <<bad_lines_seen, metrics_rate>>

StoreRest(w) ==
  /\ Store(w, "table")
  /\ frequency' = [frequency EXCEPT ![w][2] = interval[w]]
  /\ fmut' = [fmut EXCEPT ![w] = "free"]
  /\ UNCHANGED <<bad_lines_seen, metrics_rate>>

StoreRate(w) ==
  /\ Store(w, "rate")
  /\ metrics_rate' = [metrics_rate EXCEPT ![w] = interval[w]]
  /\ UNCHANGED <<bad_lines_seen, frequency, fmut>>

Publish(w) == StoreBad(w) \/ LockAndStore(w) \/ StoreRest(w) \/ StoreRate(w)

-----------------------------------------------------------------------------
(* handle_request: /app or /proc; other URLs touch nothing. *)
Request ==
  /\ step = "idle"
  /\ step' \in {"rate", "proc"}
  /\ who' = 1
  /\ reply' = [w \in Worker |-> Nothing]
  /\ UNCHANGED <<listed, writer, fmut, last>>

(* get_app_status *)
ReadRate ==
  /\ step = "rate"
  /\ reply' = [reply EXCEPT ![who].rate = metrics_rate[who]]
  /\ step' = "lock"
  /\ UNCHANGED <<listed, writer, fmut, who, last>>

(* get_metrics_frequency begins to copy; mutex is what fmut becomes. *)
CopyTable(mutex) ==
  /\ step = "lock"
  /\ fmut' = [fmut EXCEPT ![who] = mutex]
  /\ reply' = [reply EXCEPT ![who].freq[1] = frequency[who][1]]
  /\ step' = "table"
  /\ UNCHANGED <<listed, writer, who, last>>

(* Fault: the table is copied without its mutex. *)
CopyUnlocked == step = "lock" /\ CopyTable(fmut[who])

LockAndCopy == step = "lock" /\ fmut[who] = "free" /\ CopyTable("handler")

(* Fault: the mutex stays locked. *)
CopyRestLocked ==
  /\ step = "table"
  /\ reply' = [reply EXCEPT ![who].freq[2] = frequency[who][2]]
  /\ step' = "bad"
  /\ UNCHANGED <<listed, writer, fmut, who, last>>

CopyRest ==
  /\ step = "table"
  /\ reply' = [reply EXCEPT ![who].freq[2] = frequency[who][2]]
  /\ fmut' = [fmut EXCEPT ![who] = "free"]
  /\ step' = "bad"
  /\ UNCHANGED <<listed, writer, who, last>>

(* Fault: one worker too many. *)
MoreWorkersOneMore == who <= NumWorkers

MoreWorkers == who < NumWorkers

ReadBad ==
  /\ step = "bad"
  /\ reply' = [reply EXCEPT ![who].bad = bad_lines_seen[who]]
  /\ who' = who + 1
  /\ IF MoreWorkers
       THEN step' = "rate" /\ UNCHANGED last
       ELSE /\ step' = "idle"
            /\ last' = [w \in Worker |-> reply'[w].bad]
  /\ UNCHANGED <<listed, writer, fmut>>

(* get_proc_status: main and the servers' threads, then each worker and the *)
(* clock by the first of their ids.                                         *)
ProcOrder == <<SERVER>> \o [w \in Worker |-> w] \o <<CLOCK>>

(* get_tids()[0] needs an id there; the servers' ids are iterated over.     *)
IdThere(t) == t = SERVER \/ listed[t]

(* read_status may fail or not: the reply goes on either way.               *)
ReadProc ==
  /\ step = "proc"
  /\ IdThere(ProcOrder[who])
  /\ who' = who + 1
  /\ step' = IF who = Len(ProcOrder) THEN "idle" ELSE "proc"
  /\ UNCHANGED <<listed, writer, fmut, reply, last>>

(* Element 0 of an empty vector, and a copy of ttids while add_tid appends  *)
(* to it (get_tids does not take tmut), are undefined: the garbage is an id *)
(* of no thread or of another one, or the process dies.                     *)
ReadNoId ==
  /\ step = "proc"
  /\ LET t == ProcOrder[who] IN ~listed[t] \/ ~IdThere(t)
  /\ \/ /\ who' = who + 1
        /\ step' = IF who = Len(ProcOrder) THEN "idle" ELSE "proc"
     \/ step' = "crashed" /\ UNCHANGED who
  /\ UNCHANGED <<listed, writer, fmut, reply, last>>

Handle == \/ ReadRate \/ LockAndCopy \/ CopyRest \/ ReadBad
          \/ ReadProc \/ ReadNoId

Next ==
  \/ \E t \in Thread : ThreadStarts(t)
  \/ \E w \in Worker : EndInterval(w) \/ Publish(w)
  \/ Request
  \/ Handle

Spec == Init /\ [][Next]_vars

(* The daemon's thread runs, and a worker that has begun to publish goes on.*)
FairSpec == Spec /\ WF_vars(Handle) /\ \A w \in Worker : WF_vars(Publish(w))

-----------------------------------------------------------------------------
TypeOK ==
  /\ listed \in [Thread -> BOOLEAN]
  /\ interval \in [Worker -> 1..MaxIntervals + 1]
  /\ at \in [Worker -> 0..Len(PublishOrder)]
  /\ bad_lines_seen \in [Worker -> Interval]
  /\ frequency \in [Worker -> Interval \X Interval]
  /\ metrics_rate \in [Worker -> Interval]
  /\ fmut \in [Worker -> {"free", "worker", "handler"}]
  /\ step \in {"idle", "rate", "lock", "table", "bad", "proc", "crashed"}
  /\ who \in 1..NumWorkers + 3
  /\ step \in {"rate", "lock", "table", "bad"} => who \in Worker
  /\ reply \in [Worker -> [rate : Interval, freq : Interval \X Interval,
                           bad : Interval]]
  /\ last \in [Worker -> Interval]

Read(w) == step = "idle" \/ w < who

Replying == step \in {"idle", "rate", "lock", "table", "bad"}

(* A worker's figures in one reply may belong to several intervals, since   *)
(* it publishes while they are read, but only in one direction: it stores   *)
(* in the opposite order of the reads (worker.cc:68-75,                     *)
(* http_server.cc:224-251), so what is read later is never older.  Its      *)
(* frequency table is that of one interval (worker.h:71-82, fmut).          *)
ReplyNeverGoesBack ==
  Replying => \A w \in Worker : Read(w) =>
    /\ reply[w].rate <= reply[w].freq[1]
    /\ reply[w].freq[1] = reply[w].freq[2]
    /\ reply[w].freq[2] <= reply[w].bad

(* A reply may lag behind the one before it, but only by the interval that  *)
(* was being published then: its rate is at most one interval older than    *)
(* the bad lines that were shown (worker.cc:68-75).                         *)
LagsByOne ==
  [][step = "rate" /\ step' = "lock" => reply'[who].rate + 1 >= last[who]]_vars

(* Once all threads have left their ids, every request is answered: /proc   *)
(* finds the ids it takes for granted (http_server.cc:165,180), and nobody  *)
(* keeps the mutex of a worker's table (worker.h:72).  That a worker does   *)
(* not take it again and again is MaxIntervals here and the length of an    *)
(* interval in the code.                                                    *)
RequestAnswered ==
  (\A t \in Thread : listed[t]) /\ step # "idle" ~> step = "idle"
=============================================================================

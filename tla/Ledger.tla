------------------------------- MODULE Ledger -------------------------------
(***************************************************************************)
(* The ledger of one flush interval: buffer() parses a line and adds it to *)
(* the counters, timers, gauges or sets; process() computes the rates and  *)
(* the timers' statistics that the backends print.                         *)
(*                                                                         *)
(* A line is a record of the tokens sscanf may find in it.  Numbers are    *)
(* integers and a sampling rate is given by its inverse, so that           *)
(* value * (1 / rate) is exact.                                            *)
(***************************************************************************)
EXTENDS Integers, Sequences, FiniteSets, FiniteSetsExt, Functions

CONSTANTS
  Name,          \* metric names
  BadLinesSeen,  \* the counter <config name>.bad_lines_seen
  Line,          \* the lines that may arrive; see LineType
  Percentiles,   \* config->percentiles
  Frequency,     \* config->frequency
  MaxLines,      \* bound on the lines of an interval
  MaxTimers      \* bound on those of an interval that has only timers

(* type: what is between the second '|' and the next one; "" when missing.  *)
(* inverse: 1 / rate, 1 when there is none; rates that are 0 or below, and  *)
(* those whose inverse is not a number, are left out.  rateAfterBar: the    *)
(* rate is in a field of its own, "|c|@0.5", and not run on to the type,    *)
(* "|c@0.5".                                                                *)
LineType ==
  [name : Name, value : Int, numeric : BOOLEAN, signed : BOOLEAN,
   type : {"ms", "c", "g", "s", "other", ""},
   inverse : Nat \ {0}, rateAfterBar : BOOLEAN]

ASSUME LedgerAssumption ==
  /\ BadLinesSeen \notin Name
  /\ Line \subseteq LineType
  /\ Percentiles \subseteq -100..100
  /\ Frequency \in Nat \ {0}
  /\ MaxLines \in Nat
  /\ MaxTimers \in Nat /\ MaxTimers >= MaxLines

VARIABLES
  metrics_processed,  \* statsd_metrics["metrics_processed"]
  frequency,
  counters,
  timers,
  timer_counters,
  gauges,
  sets,
  counter_rates,
  timer_data,
  processed,          \* process() has run
  seen                \* the lines buffered so far, for the properties

vars == <<metrics_processed, frequency, counters, timers, timer_counters,
          gauges, sets, counter_rates, timer_data, processed, seen>>

Init ==
  /\ metrics_processed = 0
  /\ frequency = <<>>
  /\ counters = <<>>
  /\ timers = <<>>
  /\ timer_counters = <<>>
  /\ gauges = <<>>
  /\ sets = <<>>
  /\ counter_rates = <<>>
  /\ timer_data = <<>>
  /\ processed = FALSE
  /\ seen = <<>>

-----------------------------------------------------------------------------
(* std::unordered_map: operator[] inserts the default when k is missing.    *)
At(f, k, default) == IF k \in DOMAIN f THEN f[k] ELSE default
Put(f, k, v) == [x \in DOMAIN f \cup {k} |-> IF x = k THEN v ELSE f[x]]
Add(f, k, v) == Put(f, k, At(f, k, 0) + v)

(* sscanf reads the rate only from a field of its own, after a type of at   *)
(* most two characters: otherwise sample_rate stays 1.                      *)
InverseRate(l) == IF l.rateAfterBar THEN l.inverse ELSE 1

(* Only a set's value need not be a number; a type that is none of the four *)
(* counts as a counter.                                                     *)
BadLine(l) == l.type = "" \/ (l.type # "s" /\ ~l.numeric)

(* Fault: a bad line is only logged. *)
CountNothing ==
  UNCHANGED <<counters, frequency, timers, timer_counters, gauges, sets>>

CountBadLine ==
  /\ counters' = Add(counters, BadLinesSeen, 1)
  /\ UNCHANGED <<frequency, timers, timer_counters, gauges, sets>>

(* Fault: only sampled timers are counted. *)
BufferTimerUncounted(l) ==
  /\ l.type = "ms"
  /\ timer_counters' = IF l.rateAfterBar
                         THEN Add(timer_counters, l.name, InverseRate(l))
                         ELSE timer_counters
  /\ timers' = Put(timers, l.name, Append(At(timers, l.name, <<>>), l.value))
  /\ UNCHANGED <<counters, gauges, sets>>

BufferTimer(l) ==
  /\ l.type = "ms"
  /\ timer_counters' = Add(timer_counters, l.name, InverseRate(l))
  /\ timers' = Put(timers, l.name, Append(At(timers, l.name, <<>>), l.value))
  /\ UNCHANGED <<counters, gauges, sets>>

BufferGauge(l) ==
  /\ l.type = "g"
  /\ gauges' = IF l.signed THEN Add(gauges, l.name, l.value)
                           ELSE Put(gauges, l.name, l.value)
  /\ UNCHANGED <<counters, timers, timer_counters, sets>>

BufferSet(l) ==
  /\ l.type = "s"
  /\ sets' = Put(sets, l.name, At(sets, l.name, {}) \cup {l.value})
  /\ UNCHANGED <<counters, timers, timer_counters, gauges>>

(* Fault: the rate of a sampled counter is forgotten. *)
BufferCounterUnscaled(l) ==
  /\ l.type \in {"c", "other"}
  /\ counters' = Add(counters, l.name, l.value)
  /\ UNCHANGED <<timers, timer_counters, gauges, sets>>

BufferCounter(l) ==
  /\ l.type \in {"c", "other"}
  /\ counters' = Add(counters, l.name, l.value * InverseRate(l))
  /\ UNCHANGED <<timers, timer_counters, gauges, sets>>

OnlyTimers(l) == \A k \in {l} \cup {seen[i] : i \in DOMAIN seen} : k.type = "ms"

buffer(l) ==
  /\ ~processed
  /\ Len(seen) < IF OnlyTimers(l) THEN MaxTimers ELSE MaxLines
  /\ metrics_processed' = metrics_processed + 1
  /\ \/ BadLine(l) /\ CountBadLine
     \/ /\ ~BadLine(l)
        /\ frequency' = Add(frequency, l.name, 1)
        /\ BufferTimer(l) \/ BufferGauge(l) \/ BufferSet(l) \/ BufferCounter(l)
  /\ seen' = Append(seen, l)
  /\ UNCHANGED <<counter_rates, timer_data, processed>>

-----------------------------------------------------------------------------
SumTo(s, n) == SumFunctionOnSet(s, 1..n)

(* std::sort *)
SortedCopy(s) ==
  CHOOSE t \in [DOMAIN s -> {s[i] : i \in DOMAIN s}] :
    /\ \A i, j \in DOMAIN t : i <= j => t[i] <= t[j]
    /\ \A v \in {s[i] : i \in DOMAIN s} :
         Cardinality({i \in DOMAIN s : s[i] = v})
           = Cardinality({i \in DOMAIN t : t[i] = v})

Magnitude(p) == IF p < 0 THEN -p ELSE p

(* round(pct / 100 * count), halves away from zero *)
RoundedShare(pct, count) == (2 * pct * count + 100) \div 200

(* Fault: the boundary is the sample after the last one inside. *)
PercentileNext(values, pct) ==
  LET count == Len(values)
      n     == IF count > 1 THEN RoundedShare(pct, count) ELSE 0
  IN  [upper |-> values[IF n < count /\ count > 1 THEN n + 1 ELSE count],
       count |-> n,
       sum   |-> SumTo(values, n)]

(* One percentile of the sorted samples.  mean_<pct> is sum / count, which  *)
(* is NaN when count is 0.                                                  *)
Percentile(values, pct) ==
  LET count == Len(values)
      n     == IF count > 1 THEN RoundedShare(pct, count) ELSE 0
  IN  [upper |-> IF count > 1 THEN values[n] ELSE values[count],
       count |-> n,
       sum   |-> SumTo(values, n)]

(* The percentiles that are reported: with several samples, one that rounds *)
(* to no sample at all is left out.                                         *)
Reported(count) ==
  {pct \in {Magnitude(p) : p \in Percentiles} :
     count > 1 => RoundedShare(pct, count) # 0}

TimerData(name) ==
  LET values == SortedCopy(timers[name])
      count  == Len(values)
  IN  [pct   |-> [p \in Reported(count) |-> Percentile(values, p)],
       upper |-> values[count],
       lower |-> values[1],
       count |-> timer_counters[name],
       sum   |-> SumTo(values, count)]

(* Fault: the rates are computed for the names that had a line. *)
RatesByFrequency == [k \in DOMAIN frequency |-> <<At(counters, k, 0), Frequency>>]

(* counters / config->frequency, as a fraction *)
Rates == [k \in DOMAIN counters |-> <<counters[k], Frequency>>]

process ==
  /\ ~processed
  /\ processed' = TRUE
  /\ counter_rates' = Rates
  /\ timer_data' = [name \in DOMAIN timers |-> TimerData(name)]
  /\ UNCHANGED <<metrics_processed, frequency, counters, timers,
                 timer_counters, gauges, sets, seen>>

(* Fault: the gauges live on in the next ledger. *)
RenewKeepsGauges ==
  /\ processed
  /\ metrics_processed' = 0 /\ frequency' = <<>> /\ counters' = <<>>
  /\ timers' = <<>> /\ timer_counters' = <<>> /\ sets' = <<>>
  /\ counter_rates' = <<>> /\ timer_data' = <<>>
  /\ processed' = FALSE /\ seen' = <<>>
  /\ UNCHANGED gauges

(* The worker has handed the ledger over and starts an empty one. *)
Renew ==
  /\ processed
  /\ metrics_processed' = 0 /\ frequency' = <<>> /\ counters' = <<>>
  /\ timers' = <<>> /\ timer_counters' = <<>> /\ gauges' = <<>>
  /\ sets' = <<>> /\ counter_rates' = <<>> /\ timer_data' = <<>>
  /\ processed' = FALSE /\ seen' = <<>>

Next ==
  \/ \E l \in Line : buffer(l)
  \/ process
  \/ Renew

Spec == Init /\ [][Next]_vars

-----------------------------------------------------------------------------
TypeOK ==
  /\ metrics_processed \in 0..MaxTimers
  /\ frequency \in [DOMAIN frequency -> 1..MaxTimers]
  /\ counters \in [DOMAIN counters -> Int]
  /\ DOMAIN counters \subseteq Name \cup {BadLinesSeen}
  /\ \A n \in DOMAIN timers : n \in Name /\ Len(timers[n]) \in 1..MaxTimers
  /\ DOMAIN timer_counters = DOMAIN timers
  /\ gauges \in [DOMAIN gauges -> Int]
  /\ \A n \in DOMAIN sets : n \in Name /\ sets[n] # {}
  /\ processed \in BOOLEAN
  /\ processed => DOMAIN counter_rates = DOMAIN counters
  /\ seen \in Seq(Line)

(* A metric in one of the formats of ledger.h:32-37: it has a type, and a   *)
(* number unless it is a set's.                                             *)
WellFormed(l) == l.type # "" /\ (l.numeric \/ l.type = "s")

Good(i)       == WellFormed(seen[i])
Of(name, tys) == {i \in DOMAIN seen : Good(i) /\ seen[i].name = name /\ seen[i].type \in tys}

CounterLines(n) == Of(n, {"c", "other"})

(* The lines of the counter n, each scaled up by its sampling rate. *)
ScaledSum(n) == SumFunction([i \in CounterLines(n) |-> seen[i].value * seen[i].inverse])

(* A counter is the sum of its lines, each scaled up by its sampling rate,  *)
(* provided that each of its rates has a field of its own.  The form that   *)
(* ledger.h:33 gives, METRIC_VALUE|c@SAMPLING_RATE, is not scaled (sscanf   *)
(* wants a '|' before the '@'), so a counter with such a line is excepted.  *)
(* And no line is dropped in silence: each is counted under its name or as  *)
(* a bad line.                                                              *)
CountersAreSums ==
  /\ \A n \in Name :
       /\ n \in DOMAIN counters <=> CounterLines(n) # {}
       /\ (\A i \in CounterLines(n) : seen[i].rateAfterBar \/ seen[i].inverse = 1)
            => At(counters, n, 0) = ScaledSum(n)
  /\ metrics_processed = SumFunction(frequency) + At(counters, BadLinesSeen, 0)

(* A gauge is the last value set in this interval, 0 if none was, plus the  *)
(* signed changes that came after it: lines of an earlier interval have no  *)
(* part in it.                                                              *)
GaugeFollowsInterval ==
  \A n \in Name :
    LET own     == Of(n, {"g"})
        settled == {i \in own : ~seen[i].signed}
        base    == IF settled = {} THEN 0 ELSE Max(settled)
    IN  /\ n \in DOMAIN gauges <=> own # {}
        /\ At(gauges, n, 0) =
             (IF base = 0 THEN 0 ELSE seen[base].value)
               + SumFunction([i \in {j \in own : j > base} |-> seen[i].value])

Samples(n) == Of(n, {"ms"})

(* Reference definition of a percentile over two or more samples: its sum   *)
(* is the least that count_<pct> of the samples add up to, its bound is one *)
(* of the samples, at least that many are not above it and fewer below it.  *)
PercentilesAreRanks ==
  \A n \in DOMAIN timer_data : \A p \in DOMAIN timer_data[n].pct :
    LET own == Samples(n)
        t   == timer_data[n].pct[p]
    IN  Cardinality(own) > 1 =>
          /\ t.count \in 1..Cardinality(own)
          /\ \E i \in own : seen[i].value = t.upper
          /\ Cardinality({i \in own : seen[i].value <= t.upper}) >= t.count
          /\ Cardinality({i \in own : seen[i].value < t.upper}) < t.count
          /\ t.sum = Min({SumFunction([i \in c |-> seen[i].value]) :
                            c \in kSubset(t.count, own)})
=============================================================================

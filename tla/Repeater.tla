------------------------------ MODULE Repeater ------------------------------
(***************************************************************************)
(* The repeater backend, between two ledgers: it prints the aggregates of  *)
(* the one this module extends as lines again and sends them by UDP to     *)
(* other daemons, which parse them as BadLine and buffer do.               *)
(***************************************************************************)
EXTENDS Ledger

CONSTANT NumDestinations  \* config->backends.repeaters, a natural number

Destination == 1..NumDestinations

VARIABLES
  pending,  \* the aggregates flush_stats has not sent yet
  arrived   \* arrived[d]: the lines destination d has read

repeaterVars == <<vars, pending, arrived>>

RepeaterInit ==
  /\ Init
  /\ pending = {}
  /\ arrived = [d \in Destination |-> {}]

(* The loops of flush_stats, in their order. *)
Loops == <<"c", "ms", "g", "s">>

Aggregates ==
  (({1} \X DOMAIN counters) \cup ({2} \X DOMAIN timer_data))
    \cup (({3} \X DOMAIN gauges) \cup ({4} \X DOMAIN sets))

(* A line with a number in it. *)
PrintedLine(name, value, type) ==
  [name |-> name, value |-> value, numeric |-> TRUE, signed |-> value < 0,
   type |-> type, inverse |-> 1, rateAfterBar |-> FALSE]

(* The lines of the string for an aggregate.  Those of a timer are printed  *)
(* without a newline between them: the receiver reads the first and takes   *)
(* the others for something after its type.  A rate is given by its         *)
(* numerator.                                                               *)
Printed(loop, name) ==
  CASE Loops[loop] = "c"  -> << PrintedLine(name, counter_rates[name][1], "c"),
                                PrintedLine(name, counters[name], "c") >>
    [] Loops[loop] = "ms" -> << PrintedLine(name, timer_data[name].upper, "ms") >>
    [] Loops[loop] = "g"  -> << PrintedLine(name, gauges[name], "g") >>
    [] Loops[loop] = "s"  -> << PrintedLine(name, Cardinality(sets[name]), "s") >>

(* A line that lost its last n characters: the type is one of them.  Of a   *)
(* timer's string it is not the line that is read that loses them.          *)
CutBy(n, line) ==
  IF n = 0 \/ line.type = "ms" THEN line ELSE [line EXCEPT !.type = ""]

(* send() takes one more character off the string for each destination.     *)
SentTo(d, lines) ==
  {lines[i] : i \in 1..Len(lines) - 1} \cup {CutBy(d, lines[Len(lines)])}

(* The flusher is given the processed ledger. *)
StartFlush ==
  /\ process
  /\ pending' = Aggregates'
  /\ UNCHANGED arrived

(* One datagram to each destination; it may be lost on its way. *)
SendAggregate ==
  /\ processed
  /\ \E a \in pending, reached \in SUBSET Destination :
       /\ \A b \in pending : a[1] <= b[1]
       /\ pending' = pending \ {a}
       /\ arrived' = [d \in Destination |->
                        arrived[d] \cup
                          IF d \in reached THEN SentTo(d, Printed(a[1], a[2])) ELSE {}]
  /\ UNCHANGED vars

RepeaterNext ==
  \/ (\E l \in Line : buffer(l)) /\ UNCHANGED <<pending, arrived>>
  \/ StartFlush
  \/ SendAggregate
  \/ pending = {} /\ Renew /\ UNCHANGED <<pending, arrived>>

RepeaterSpec == RepeaterInit /\ [][RepeaterNext]_repeaterVars

-----------------------------------------------------------------------------
(* "Using repeaters you can flush the aggregates to another                 *)
(* statsdcc-aggregator or statsdcc-proxy" (README.md:143): no destination   *)
(* counts a line of the repeater as a bad line (repeater.h:44).             *)
RepeatedIsReadable == \A d \in Destination : \A l \in arrived[d] : ~BadLine(l)
=============================================================================

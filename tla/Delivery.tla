------------------------------- MODULE Delivery -------------------------------
(***************************************************************************)
(* What the aggregator promises about one received line, whatever the      *)
(* number of workers, the depth of the queues and the schedule: the line   *)
(* is either refused when it arrives, and then no backend ever sees it, or *)
(* it is accepted, and then every backend is given it at most once, in the *)
(* order the backends were configured.  Once accepted it is never refused. *)
(***************************************************************************)
EXTENDS Naturals

CONSTANTS Metric,        \* the lines that may arrive
          NumBackends    \* how many backends are configured

VARIABLES fresh,         \* lines that have not arrived yet
          lost,          \* lines refused on arrival
          sent           \* sent[b][m]: how often backend b was given m

vars == <<fresh, lost, sent>>

Backend == 1..NumBackends

Init == /\ fresh = Metric
        /\ lost = {}
        /\ sent = [b \in Backend |-> [m \in Metric |-> 0]]

Accept(m) == /\ m \in fresh
             /\ fresh' = fresh \ {m}
             /\ UNCHANGED <<lost, sent>>

Refuse(m) == /\ m \in fresh
             /\ fresh' = fresh \ {m}
             /\ lost' = lost \cup {m}
             /\ UNCHANGED sent

\* One call of a backend's flush_stats with the lines of one ledger.
Deliver(b, S) ==
  /\ S \cap (fresh \cup lost) = {}
  /\ \A m \in S : sent[b][m] = 0 /\ \A c \in 1..(b-1) : sent[c][m] = 1
  /\ sent' = [sent EXCEPT ![b] =
                 [m \in Metric |-> IF m \in S THEN @[m] + 1 ELSE @[m]]]
  /\ UNCHANGED <<fresh, lost>>

Next == \/ \E m \in Metric : Accept(m) \/ Refuse(m)
        \/ \E b \in Backend, S \in SUBSET Metric : Deliver(b, S)

Spec == Init /\ [][Next]_vars
===============================================================================

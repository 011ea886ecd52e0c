---------------------------- MODULE MCAggregator ----------------------------
(* Finite instances of Aggregator for TLC. *)
EXTENDS Aggregator, TLC

CONSTANTS m1, m2, m3, m4, kA, kB, kBad

\* m1 and m2 share a name, m3 is routed to the other worker and is a bad
\* line, m4 has no ':'.
MCKey     == {kA, kB, kBad}
MCKeyOf   == [m \in Metric |-> CASE m \in {m1, m2} -> kA
                                 [] m = m3         -> kB
                                 [] OTHER          -> NoKey]
MCStrHash == (kA :> 4) @@ (kB :> 7) @@ (kBad :> 10)
MCMalformed == Metric \cap {m3}
MCGarbage == {3}
=============================================================================

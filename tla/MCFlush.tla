------------------------------ MODULE MCFlush ------------------------------
(* A finite instance of Flush for TLC. *)
EXTENDS Flush, TLC

CONSTANTS d1, d2, w1, w2

\* "a b" and "a_b" are of different workers and clean up to one name.
MCName     == {"a b", "a_b"}
MCWorkerOf == ("a b" :> w1) @@ ("a_b" :> w2)
MCClean    == ("a b" :> "a_b") @@ ("a_b" :> "a_b") @@ ("bad" :> "bad")
MCPrefixOf == ("c" :> "counters.") @@ ("ms" :> "timers.") @@ ("g" :> "gauges.") @@ ("s" :> "sets.")
MCPlace    == ("a b" :> d1) @@ ("a_b" :> d2) @@ ("bad" :> d2)
MCFigurePlace == (<<w1, "numStats">> :> d2) @@ (<<w2, "numStats">> :> d2)
MCLedgers  == (w1 :> {{<<"g", "a b">>}}) @@ (w2 :> {{<<"g", "a_b">>}})
=============================================================================

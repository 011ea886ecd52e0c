------------------------------- MODULE MCProxy -------------------------------
(* Finite instances of Proxy for TLC. *)
EXTENDS Proxy, TLC

CONSTANTS m1, m2, m3, kA

\* m1 has a name, m2 has none, and a configuration may blacklist m3.
MCKeyOf == [m \in Metric |-> IF m = m2 THEN NoKey ELSE kA]
MCStrHash == [k \in Key |-> 5]
MCGarbage == {3}
=============================================================================

----------------------------- MODULE MCHashring -----------------------------
(* Finite instances of Hashring for TLC. *)
EXTENDS Hashring

CONSTANTS s1, s2, s3

\* s1 is twice as heavy as each of the others.
MCWeight == [s \in Shard |-> IF s = s1 THEN 2 ELSE 1]

\* s1 has a custom number of virtual nodes; the others leave theirs to the
\* weights, and get one point beside s1 and two without it.
MCVnodes    == [s \in Shard |-> IF s = s1 THEN 1 ELSE 0]
MCMaxPoints == [s \in Shard |-> IF s = s1 THEN 1 ELSE 2]
=============================================================================

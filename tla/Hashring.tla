------------------------------ MODULE Hashring ------------------------------
(***************************************************************************)
(* The consistent-hash ring that the carbon backend uses to pick, for each *)
(* metric name, the carbon server to send it to.                           *)
(*                                                                         *)
(* Each server (shard) puts a number of points on the ring, at positions   *)
(* given by MD4 words; get(key) hashes the key and a binary search returns *)
(* the server of the first point at or after it.  The process may be       *)
(* restarted with one server taken out of its configuration; the key is    *)
(* then looked up again.                                                   *)
(*                                                                         *)
(* Vector indices are 0-based as in the code: ring[i + 1] is the code's    *)
(* ring[i].                                                                *)
(***************************************************************************)
EXTENDS Integers, FiniteSets, FiniteSetsExt

CONSTANTS
  Shard,         \* the servers, by shard name
  NoShard,       \* "not looked up yet"
  Weight,        \* Weight[s]: the configured weight
  Vnodes,        \* Vnodes[s]: the configured number of virtual nodes
  DefaultVnodes, \* Hashring::vnodes (40 in the code)
  Replicas,      \* Hashring::replicas (4 in the code)
  MaxPoints,     \* MaxPoints[s]: bound on the points of s
  MaxHash        \* largest hash value (2^32 - 1 in the code)

ASSUME RingAssumption ==
  /\ IsFiniteSet(Shard)
  /\ NoShard \notin Shard
  /\ Weight \in [Shard -> Nat \ {0}]
  /\ Vnodes \in [Shard -> Nat]
  /\ DefaultVnodes \in Nat \ {0}
  /\ Replicas \in Nat \ {0}
  /\ MaxPoints \in [Shard -> Nat]
  /\ MaxHash \in Nat

Hash  == 0..MaxHash
Point == UNION {{s} \X (1..MaxPoints[s]) : s \in Shard}

VARIABLES
  md4,     \* md4[<<s, i>>]: the i-th word of the digests of "s-0", "s-1", ...
  nodes,   \* Hashring::nodes
  ring,    \* Hashring::ring: its points in order; the shard of p is p[1]
  pc,      \* "build", "ready", "find", "found"
  key,     \* hash_value of the key being looked up
  low,
  high,
  answer,  \* what find returned
  before   \* the server the key had before the restart

vars == <<md4, nodes, ring, pc, key, low, high, answer, before>>

Size == Cardinality(DOMAIN ring)

TypeOK ==
  /\ md4 \in [Point -> Hash]
  /\ nodes \subseteq Shard
  /\ DOMAIN ring = 1..Size
  /\ \A i \in 1..Size : ring[i] \in Point
  /\ pc \in {"build", "ready", "find", "found"}
  /\ key \in Hash
  /\ low \in 0..Size
  /\ high \in 0..Size
  /\ answer \in 0..Size
  /\ before \in Shard \cup {NoShard}

(* MD4 is not computed: any assignment of words to points is possible.      *)
Init ==
  /\ md4 \in [Point -> Hash]
  /\ nodes = Shard
  /\ ring = <<>>
  /\ pc = "build"
  /\ key \in Hash
  /\ low = 0 /\ high = 0
  /\ answer = 0
  /\ before = NoShard

-----------------------------------------------------------------------------
TotalWeight(ns) == MapThenSumSet(LAMBDA s : Weight[s], ns)

WantedVnodes(s) == IF Vnodes[s] # 0 THEN Vnodes[s] ELSE DefaultVnodes

(* The number of digests of a server.  The code computes the share in       *)
(* double precision; the model is exact.                                    *)
Length(s, ns) ==
  IF WantedVnodes(s) # DefaultVnodes
    THEN WantedVnodes(s)
    ELSE (Weight[s] * WantedVnodes(s) * Cardinality(ns)) \div TotalWeight(ns)

(* The bound named MaxPoints holds for every configuration that is built.   *)
ASSUME LengthAssumption ==
  \A ns \in SUBSET Shard : \A s \in ns :
    Length(s, ns) * Replicas \in 0..MaxPoints[s]

(* Fault: the text that is hashed depends on the number of servers. *)
PointsByCount(s, ns) ==
  {<<s, 1 + ((i + Cardinality(ns)) % MaxPoints[s])>> : i \in 1..Length(s, ns) * Replicas}

Points(s, ns) == {s} \X (1..Length(s, ns) * Replicas)

Continuum(ns) == UNION {Points(s, ns) : s \in ns}

(* All the ways to lay the points out in hash order.  RingElement's         *)
(* operator< is <=, so points with equal hashes may end up in any order.    *)
Layouts(points) ==
  LET n == Cardinality(points) IN
  {f \in [1..n -> points] :
     /\ \A i, j \in 1..n : f[i] = f[j] => i = j
     /\ \A i, j \in 1..n : i <= j => md4[f[i]] <= md4[f[j]]}

generate_continuum ==
  /\ pc = "build"
  /\ ring' \in Layouts(Continuum(nodes))
  /\ pc' = "ready"
  /\ UNCHANGED <<md4, nodes, key, low, high, answer, before>>

(* get(): the search starts on the whole ring. *)
Get ==
  /\ pc = "ready"
  /\ pc' = "find"
  /\ low' = 0
  /\ high' = Size
  /\ UNCHANGED <<md4, nodes, ring, key, answer, before>>

Return(i) ==
  /\ pc' = "found"
  /\ answer' = i
  /\ UNCHANGED <<low, high>>

(* Fault: the empty interval is not noticed. *)
NarrowToNothing(l, h) == low' = l /\ high' = h /\ UNCHANGED <<pc, answer>>

Narrow(l, h) ==
  IF l > h
    THEN Return(0)
    ELSE low' = l /\ high' = h /\ UNCHANGED <<pc, answer>>

Mid == (low + high) \div 2

HashAt(i) == md4[ring[i + 1]]

Prev(i) == IF i = 0 THEN 0 ELSE HashAt(i - 1)

(* Fault: a key equal to a point belongs to the next one. *)
SearchStrict ==
  CASE Mid = Size -> Return(0)
    [] Mid < Size /\ key < HashAt(Mid) /\ key >= Prev(Mid) -> Return(Mid)
    [] Mid < Size /\ HashAt(Mid) <= key -> Narrow(Mid + 1, high)
    [] OTHER -> Narrow(low, Mid - 1)

(* Fault: going up, the search forgets where the interval ended. *)
SearchForgetsHigh ==
  CASE Mid = Size -> Return(0)
    [] Mid < Size /\ key <= HashAt(Mid) /\ key > Prev(Mid) -> Return(Mid)
    [] Mid < Size /\ HashAt(Mid) < key -> Narrow(Mid + 1, Size)
    [] OTHER -> Narrow(low, Mid - 1)

(* One iteration of the loop of find(). *)
Search ==
  CASE Mid = Size -> Return(0)
    [] Mid < Size /\ key <= HashAt(Mid) /\ key > Prev(Mid) -> Return(Mid)
    [] Mid < Size /\ HashAt(Mid) < key -> Narrow(Mid + 1, high)
    [] OTHER -> Narrow(low, Mid - 1)

find ==
  /\ pc = "find"
  /\ Search
  /\ UNCHANGED <<md4, nodes, ring, key, before>>

Owner == ring[answer + 1][1]

(* The process is restarted without server s; the key is looked up again.   *)
Restart(s) ==
  /\ pc = "found"
  /\ before = NoShard
  /\ answer < Size
  /\ nodes \ {s} # {}
  /\ before' = Owner
  /\ nodes' = nodes \ {s}
  /\ ring' = <<>>
  /\ pc' = "build"
  /\ low' = 0 /\ high' = 0
  /\ answer' = 0
  /\ UNCHANGED <<md4, key>>

Next ==
  \/ generate_continuum
  \/ Get
  \/ find
  \/ \E s \in nodes : Restart(s)

Spec == Init /\ [][Next]_vars

-----------------------------------------------------------------------------
(* Reference definition: i is the position of the first point at or after   *)
(* the key, going round to position 0 when there is none.                   *)
IsSuccessor(i) ==
  \/ /\ i \in 0..Size - 1
     /\ key <= HashAt(i)
     /\ \A j \in 0..i - 1 : HashAt(j) < key
  \/ /\ i = 0
     /\ \A j \in 0..Size - 1 : HashAt(j) < key

(* What find() returns is the successor of the key on the ring, whatever    *)
(* the ring's size, ties between points and the key's place (before the     *)
(* first point, after the last, at 0).                                      *)
FindIsSuccessor == pc = "found" => IsSuccessor(answer)

(* The interval of find() shrinks on every pass of its while (true).        *)
SearchNarrows ==
  [][pc = "find" /\ pc' = "find" => high' - low' < high - low]_vars

Tied(i) == \E j \in 0..Size - 1 : j # i /\ HashAt(j) = HashAt(i)

(* Consistent hashing: taking one server out moves no key between the       *)
(* servers that stay, as long as they keep their number of points (a server *)
(* with custom virtual nodes always does) and the key's point shares its    *)
(* hash with no other.                                                      *)
OnlyItsKeysMove ==
  /\ pc = "found" /\ before \in nodes /\ answer < Size /\ ~Tied(answer)
  /\ \A s \in nodes : Length(s, nodes) = Length(s, Shard)
  => Owner = before

=============================================================================

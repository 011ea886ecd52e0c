--------------------------- MODULE Hashring_proofs ---------------------------
(***************************************************************************)
(* Proofs about Hashring, for every set of servers, every configuration of *)
(* weights and virtual nodes and every assignment of hashes.               *)
(***************************************************************************)
EXTENDS Hashring, FiniteSetTheorems, TLAPS

(* What every state of the search satisfies: the ring is sorted, everything *)
(* left of low is before the key and everything from high on is not.        *)
RingType ==
  /\ md4 \in [Point -> Hash]
  /\ nodes \subseteq Shard
  /\ key \in Hash
  /\ pc \in {"build", "ready", "find", "found"}
  /\ before \in Shard \cup {NoShard}
  /\ Size \in Nat
  /\ DOMAIN ring = 1..Size
  /\ \A i \in 1..Size : ring[i] \in Point

Sorted == \A i, j \in 1..Size : i <= j => md4[ring[i]] <= md4[ring[j]]

SearchInv ==
  /\ low \in 0..Size
  /\ high \in 0..Size
  /\ answer \in 0..Size
  /\ pc \in {"build", "ready"} => low = 0 /\ high = 0 /\ answer = 0
  /\ pc = "find" =>
       /\ low <= high
       /\ \A j \in 0..low - 1 : HashAt(j) < key
       /\ \A j \in high..Size - 1 : key <= HashAt(j)

RingInv == RingType /\ Sorted /\ SearchInv /\ FindIsSuccessor

(* The points of any configuration are points with a known MD4 word, and    *)
(* there are finitely many of them.                                         *)
LEMMA PointsFinite ==
  ASSUME NEW ns \in SUBSET Shard
  PROVE  /\ Continuum(ns) \subseteq Point
         /\ IsFiniteSet(Continuum(ns))
         /\ Cardinality(Continuum(ns)) \in Nat
<1> DEFINE P(s) == {s} \X (1..MaxPoints[s])
<1>1. Continuum(ns) \subseteq Point
  <2> SUFFICES ASSUME NEW s \in ns
               PROVE  Points(s, ns) \subseteq Point
    BY DEF Continuum
  <2>1. Length(s, ns) * Replicas \in 0..MaxPoints[s] /\ MaxPoints[s] \in Nat
    BY LengthAssumption, RingAssumption
  <2>2. 1..Length(s, ns) * Replicas \subseteq 1..MaxPoints[s]
    BY <2>1
  <2> QED
    BY <2>2 DEF Points, Point
<1>2. IsFiniteSet(Point)
  <2>1. \A s \in Shard : IsFiniteSet(P(s))
    <3> SUFFICES ASSUME NEW s \in Shard
                 PROVE  IsFiniteSet(P(s))
      OBVIOUS
    <3>1. IsFiniteSet(1..MaxPoints[s])
      BY FS_Interval, RingAssumption
    <3>2. IsFiniteSet({s})
      BY FS_Singleton
    <3> QED
      BY <3>1, <3>2, FS_Product
  <2>2. IsFiniteSet({P(s) : s \in Shard})
    <3> DEFINE f == [s \in Shard |-> P(s)]
    <3>1. f \in Surjection(Shard, {P(s) : s \in Shard})
      BY DEF Surjection
    <3> QED
      BY <3>1, FS_Surjection, RingAssumption
  <2>3. IsFiniteSet(UNION {P(s) : s \in Shard})
    BY <2>1, <2>2, FS_UNION
  <2> QED
    BY <2>3 DEF Point
<1> QED
  BY <1>1, <1>2, FS_Subset, FS_CardinalityType

(* Building the ring leaves it sorted and inside the known points. *)
LEMMA BuildStep ==
  ASSUME RingInv, generate_continuum
  PROVE  RingInv'
<1> DEFINE n == Cardinality(Continuum(nodes))
<1>1. n \in Nat /\ Continuum(nodes) \subseteq Point
  BY PointsFinite DEF RingInv, RingType
<1>2. /\ ring' \in [1..n -> Continuum(nodes)]
      /\ \A i, j \in 1..n : i <= j => md4[ring'[i]] <= md4[ring'[j]]
  BY DEF generate_continuum, Layouts
<1>3. Size' = n
  <2>1. Cardinality(1..n) = n
    BY <1>1, FS_Interval
  <2> QED
    BY <1>2, <2>1 DEF Size
<1> HIDE DEF n
<1>4. RingType'
  BY <1>1, <1>2, <1>3 DEF RingInv, RingType, generate_continuum
<1>5. Sorted'
  BY <1>2, <1>3 DEF Sorted, generate_continuum
<1>6. SearchInv' /\ FindIsSuccessor'
  BY <1>1, <1>3 DEF RingInv, SearchInv, generate_continuum, FindIsSuccessor
<1> QED
  BY <1>4, <1>5, <1>6 DEF RingInv

(* A lookup starts with the whole ring between low and high. *)
LEMMA GetStep ==
  ASSUME RingInv, Get
  PROVE  RingInv'
<1>1. Size' = Size /\ (\A j : HashAt(j)' = HashAt(j))
  BY DEF Get, Size, HashAt
<1> QED
  BY <1>1 DEF RingInv, RingType, Sorted, SearchInv, FindIsSuccessor, Get

(* The sorted ring, in the 0-based indices of the code. *)
LEMMA HashOrder ==
  ASSUME RingType, Sorted
  PROVE  /\ \A j \in 0..Size - 1 : HashAt(j) \in Hash
         /\ \A i, j \in 0..Size - 1 : i <= j => HashAt(i) <= HashAt(j)
BY DEF RingType, Sorted, HashAt

(* One pass of the loop either returns the successor of the key or narrows  *)
(* the interval around it.                                                  *)
LEMMA SearchStep ==
  ASSUME RingInv, find
  PROVE  /\ SearchInv'
         /\ FindIsSuccessor'
         /\ pc' \in {"find", "found"}
         /\ pc' = "find" => high' - low' < high - low
<1>1. /\ Size \in Nat
      /\ low \in 0..Size /\ high \in 0..Size /\ low <= high
      /\ answer \in 0..Size
      /\ \A j \in 0..low - 1 : HashAt(j) < key
      /\ \A j \in high..Size - 1 : key <= HashAt(j)
      /\ key \in Nat /\ pc = "find"
      /\ \A j \in 0..Size - 1 : HashAt(j) \in Nat
      /\ \A i, j \in 0..Size - 1 : i <= j => HashAt(i) <= HashAt(j)
  BY HashOrder, RingAssumption DEF RingInv, RingType, SearchInv, find, Hash
<1>2. Size' = Size /\ key' = key /\ (\A j : HashAt(j)' = HashAt(j))
  BY DEF find, Size, HashAt
<1>3. Mid \in low..high /\ Mid \in Nat /\ Mid <= Size /\ (Mid = Size => low = Size)
  BY <1>1 DEF Mid
<1>4. ASSUME NEW i \in 0..Size, Return(i), IsSuccessor(i)
      PROVE  /\ SearchInv' /\ FindIsSuccessor'
             /\ pc' \in {"find", "found"} /\ pc' # "find"
  <2>1. pc' = "found" /\ answer' = i /\ low' = low /\ high' = high
    BY <1>4 DEF Return
  <2>2. IsSuccessor(answer)'
    BY <1>2, <1>4, <2>1 DEF IsSuccessor
  <2> QED
    BY <1>1, <1>2, <2>1, <2>2 DEF SearchInv, FindIsSuccessor
<1>5. CASE Mid = Size
  <2>1. Return(0)
    BY <1>1, <1>3, <1>5 DEF find, Search
  <2>2. IsSuccessor(0)
    BY <1>1, <1>3, <1>5 DEF IsSuccessor
  <2> QED
    BY <1>1, <1>4, <2>1, <2>2
<1>6. CASE Mid < Size /\ key <= HashAt(Mid) /\ key > Prev(Mid)
  <2>1. Return(Mid)
    BY <1>1, <1>3, <1>6 DEF find, Search
  <2>2. \A j \in 0..Mid - 1 : HashAt(j) < key
    <3> SUFFICES ASSUME NEW j \in 0..Mid - 1
                 PROVE  HashAt(j) < key
      OBVIOUS
    <3>1. HashAt(j) <= HashAt(Mid - 1) /\ HashAt(j) \in Nat /\ HashAt(Mid - 1) \in Nat
      BY <1>1, <1>3, <1>6
    <3>2. HashAt(Mid - 1) < key
      BY <1>1, <1>3, <1>6 DEF Prev
    <3> QED
      BY <1>1, <3>1, <3>2
  <2>3. IsSuccessor(Mid)
    BY <1>1, <1>3, <1>6, <2>2 DEF IsSuccessor
  <2> QED
    BY <1>3, <1>4, <2>1, <2>3
<1>7. CASE Mid < Size /\ HashAt(Mid) < key
  <2>1. Narrow(Mid + 1, high)
    BY <1>1, <1>3, <1>7 DEF find, Search
  <2>2. Mid + 1 <= high
    BY <1>1, <1>3, <1>7
  <2>3. low' = Mid + 1 /\ high' = high /\ pc' = pc /\ answer' = answer
    BY <1>1, <1>3, <2>1, <2>2 DEF Narrow
  <2>4. \A j \in 0..Mid : HashAt(j) < key
    BY <1>1, <1>3, <1>7
  <2>5. SearchInv'
    BY <1>1, <1>2, <1>3, <2>2, <2>3, <2>4 DEF SearchInv
  <2> QED
    BY <1>1, <1>3, <2>3, <2>5 DEF FindIsSuccessor
<1>8. CASE Mid < Size /\ key <= HashAt(Mid) /\ key <= Prev(Mid)
  <2>1. Narrow(low, Mid - 1)
    <3>1. Prev(Mid) \in Nat
      BY <1>1, <1>3, <1>8 DEF Prev
    <3> QED
      BY <1>1, <1>3, <1>8, <3>1 DEF find, Search
  <2>2. CASE Mid = 0
    <3>1. Return(0)
      BY <1>1, <1>3, <2>1, <2>2 DEF Narrow
    <3>2. IsSuccessor(0)
      BY <1>1, <1>3, <1>8, <2>2 DEF IsSuccessor
    <3> QED
      BY <1>1, <1>4, <3>1, <3>2
  <2>3. CASE Mid # 0
    <3>1. key <= HashAt(Mid - 1) /\ Mid - 1 \in 0..Size - 1
      BY <1>1, <1>3, <1>8, <2>3 DEF Prev
    <3>2. low <= Mid - 1
      BY <1>1, <1>3, <3>1, <2>3
    <3>3. low' = low /\ high' = Mid - 1 /\ pc' = pc /\ answer' = answer
      BY <1>1, <1>3, <2>1, <3>2 DEF Narrow
    <3>4. \A j \in Mid - 1..Size - 1 : key <= HashAt(j)
      BY <1>1, <1>3, <3>1
    <3>5. SearchInv'
      BY <1>1, <1>2, <1>3, <3>1, <3>2, <3>3, <3>4 DEF SearchInv
    <3> QED
      BY <1>1, <1>3, <3>3, <3>5 DEF FindIsSuccessor
  <2> QED
    BY <2>2, <2>3
<1>9. Mid < Size => HashAt(Mid) \in Nat /\ Prev(Mid) \in Nat
  BY <1>1, <1>3 DEF Prev
<1> QED
  BY <1>1, <1>3, <1>5, <1>6, <1>7, <1>8, <1>9

(* A pass of the loop leaves the ring alone. *)
LEMMA FindStep ==
  ASSUME RingInv, find
  PROVE  RingInv'
<1>1. Size' = Size
  BY DEF find, Size
<1>2. RingType' /\ Sorted'
  BY <1>1, SearchStep DEF RingInv, RingType, Sorted, find
<1> QED
  BY <1>2, SearchStep DEF RingInv

(* A restart empties the ring. *)
LEMMA RestartStep ==
  ASSUME RingInv, NEW s \in nodes, Restart(s)
  PROVE  RingInv'
<1>1. Size' = 0
  BY FS_EmptySet DEF Restart, Size
<1>2. Owner \in Shard
  <2>1. answer + 1 \in 1..Size
    BY DEF Restart, RingInv, RingType, SearchInv
  <2>2. ring[answer + 1] \in Point
    BY <2>1 DEF RingInv, RingType
  <2> QED
    BY <2>2 DEF Owner, Point
<1> QED
  BY <1>1, <1>2 DEF RingInv, RingType, Sorted, SearchInv, FindIsSuccessor, Restart

(* RingInv holds in every reachable state. *)
LEMMA RingInvAlways == Spec => []RingInv
<1>1. Init => RingInv
  <2> SUFFICES ASSUME Init
               PROVE  RingInv
    OBVIOUS
  <2>1. Size = 0
    BY FS_EmptySet DEF Init, Size
  <2> QED
    BY <2>1 DEF Init, RingInv, RingType, Sorted, SearchInv, FindIsSuccessor
<1>2. RingInv /\ [Next]_vars => RingInv'
  <2> SUFFICES ASSUME RingInv, [Next]_vars
               PROVE  RingInv'
    OBVIOUS
  <2>1. CASE UNCHANGED vars
    <3>1. Size' = Size /\ (\A j : HashAt(j)' = HashAt(j))
      BY <2>1 DEF vars, Size, HashAt
    <3> QED
      BY <2>1, <3>1 DEF vars, RingInv, RingType, Sorted, SearchInv,
                        FindIsSuccessor, IsSuccessor
  <2> QED
    BY <2>1, BuildStep, GetStep, FindStep, RestartStep DEF Next
<1> QED
  BY <1>1, <1>2, PTL DEF Spec

(* Every reachable state of the ring is well typed; in particular find()    *)
(* never indexes outside the ring: low, high and the answer stay in 0..Size.*)
THEOREM RingTypeCorrect == Spec => []TypeOK
<1>1. RingInv => TypeOK
  BY DEF RingInv, RingType, SearchInv, TypeOK
<1> QED
  BY <1>1, RingInvAlways, PTL

(* find() returns the successor of the key, for every sorted ring. *)
THEOREM FindCorrect == Spec => []FindIsSuccessor
<1>1. RingInv => FindIsSuccessor
  BY DEF RingInv
<1> QED
  BY <1>1, RingInvAlways, PTL

(* Each pass of the loop of find() shrinks the interval: the while (true)   *)
(* ends after at most Size passes.                                          *)
THEOREM FindNarrows == Spec => SearchNarrows
<1>1. RingInv /\ [Next]_vars
        => [pc = "find" /\ pc' = "find" => high' - low' < high - low]_vars
  <2> SUFFICES ASSUME RingInv, Next, pc = "find", pc' = "find"
               PROVE  high' - low' < high - low
    OBVIOUS
  <2>1. find
    BY DEF Next, generate_continuum, Get, Restart
  <2> QED
    BY <2>1, SearchStep
<1> QED
  BY <1>1, RingInvAlways, PTL DEF Spec, SearchNarrows

-----------------------------------------------------------------------------
(* p is a point whose server owns the key when the points of the ring are   *)
(* the set P: none of P lies between the key and p, going round at the end. *)
Successor(p, P) ==
  \/ /\ key <= md4[p]
     /\ \A q \in P : key <= md4[q] => md4[p] <= md4[q]
  \/ \A q \in P : md4[q] < key /\ md4[p] <= md4[q]

(* What the lookup before a restart and the one after it have in common:    *)
(* until the restart all servers are there, a ring that was built holds     *)
(* every point of its servers, and the server the key had is that of its    *)
(* successor on the full ring.                                              *)
MoveInv ==
  /\ before = NoShard => nodes = Shard
  /\ pc # "build" =>
       /\ \A i \in 1..Size : ring[i] \in Continuum(nodes)
       /\ \A p \in Continuum(nodes) : \E i \in 1..Size : ring[i] = p
  /\ before # NoShard =>
       \E p \in Continuum(Shard) : p[1] = before /\ Successor(p, Continuum(Shard))

(* A layout of the points leaves none of them out. *)
LEMMA BuildComplete ==
  ASSUME RingInv, generate_continuum
  PROVE  /\ \A i \in 1..Size' : ring'[i] \in Continuum(nodes)
         /\ \A p \in Continuum(nodes) : \E i \in 1..Size' : ring'[i] = p
<1> DEFINE P == Continuum(nodes)
<1> DEFINE n == Cardinality(P)
<1>1. n \in Nat /\ IsFiniteSet(P)
  BY PointsFinite DEF RingInv, RingType
<1>2. /\ ring' \in [1..n -> P]
      /\ \A i, j \in 1..n : ring'[i] = ring'[j] => i = j
  BY DEF generate_continuum, Layouts
<1> HIDE DEF P
<1>3. IsFiniteSet(1..n) /\ Cardinality(1..n) = n
  BY <1>1, FS_Interval
<1>4. Size' = n
  BY <1>2, <1>3 DEF Size
<1>5. ring' \in Injection(1..n, P)
  BY <1>2 DEF Injection, IsInjective
<1>6. ring' \in Surjection(1..n, P)
  BY <1>1, <1>3, <1>5, FS_Injection
<1> QED
  BY <1>2, <1>4, <1>6 DEF Surjection, P

(* The answer of find() on a complete ring is a successor of the key among  *)
(* the points of the ring.                                                  *)
LEMMA AnswerIsSuccessor ==
  ASSUME RingInv, MoveInv, pc = "found", answer < Size
  PROVE  /\ answer + 1 \in 1..Size
         /\ ring[answer + 1] \in Continuum(nodes)
         /\ Successor(ring[answer + 1], Continuum(nodes))
<1>1. /\ Size \in Nat /\ answer \in 0..Size - 1 /\ key \in Nat
      /\ \A j \in 0..Size - 1 : HashAt(j) \in Nat
      /\ \A i, j \in 0..Size - 1 : i <= j => HashAt(i) <= HashAt(j)
  BY HashOrder, RingAssumption DEF RingInv, RingType, SearchInv, Hash
<1>2. IsSuccessor(answer)
  BY DEF RingInv, FindIsSuccessor
<1>3. \A q \in Continuum(nodes) : \E j \in 0..Size - 1 : HashAt(j) = md4[q]
  <2> SUFFICES ASSUME NEW q \in Continuum(nodes)
               PROVE  \E j \in 0..Size - 1 : HashAt(j) = md4[q]
    OBVIOUS
  <2>1. PICK i \in 1..Size : ring[i] = q
    BY DEF MoveInv
  <2>2. i - 1 \in 0..Size - 1 /\ (i - 1) + 1 = i
    BY <1>1
  <2> QED
    BY <2>1, <2>2 DEF HashAt
<1>4. HashAt(answer) = md4[ring[answer + 1]]
  BY DEF HashAt
<1>5. Successor(ring[answer + 1], Continuum(nodes))
  <2>1. CASE /\ key <= HashAt(answer)
             /\ \A j \in 0..answer - 1 : HashAt(j) < key
    <3>1. \A j \in 0..Size - 1 : key <= HashAt(j) => HashAt(answer) <= HashAt(j)
      BY <1>1, <2>1
    <3> QED
      BY <1>3, <1>4, <2>1, <3>1 DEF Successor
  <2>2. CASE answer = 0 /\ \A j \in 0..Size - 1 : HashAt(j) < key
    <3>1. \A j \in 0..Size - 1 : HashAt(j) < key /\ HashAt(answer) <= HashAt(j)
      BY <1>1, <2>2
    <3> QED
      BY <1>3, <1>4, <3>1 DEF Successor
  <2> QED
    BY <1>2, <2>1, <2>2 DEF IsSuccessor
<1> QED
  BY <1>1, <1>5 DEF MoveInv

(* The server of a point of a configuration is one of its servers. *)
LEMMA PointOf ==
  ASSUME NEW ns \in SUBSET Shard, NEW p \in Continuum(ns)
  PROVE  p[1] \in ns /\ p \in Points(p[1], ns)
BY DEF Continuum, Points

LEMMA MoveStep == RingInv /\ MoveInv /\ [Next]_vars => MoveInv'
<1> SUFFICES ASSUME RingInv, MoveInv, [Next]_vars
             PROVE  MoveInv'
  OBVIOUS
<1>1. CASE generate_continuum
  <2>1. nodes' = nodes /\ before' = before /\ md4' = md4 /\ key' = key
    BY <1>1 DEF generate_continuum
  <2>2. Continuum(nodes)' = Continuum(nodes)
    BY <2>1
  <2> QED
    BY <1>1, <2>1, <2>2, BuildComplete DEF MoveInv, Successor
<1>2. CASE Get \/ find \/ UNCHANGED vars
  <2>1. UNCHANGED <<nodes, before, md4, key, ring>> /\ (pc' # "build" => pc # "build")
    BY <1>2 DEF Get, find, vars
  <2>2. Continuum(nodes)' = Continuum(nodes) /\ Size' = Size
    BY <2>1 DEF Size
  <2> QED
    BY <2>1, <2>2 DEF MoveInv, Successor
<1>3. ASSUME NEW s \in nodes, Restart(s) PROVE MoveInv'
  <2>1. /\ pc = "found" /\ answer < Size /\ before = NoShard /\ nodes = Shard
        /\ before' = Owner /\ pc' = "build" /\ md4' = md4 /\ key' = key
    BY <1>3 DEF Restart, MoveInv
  <2>2. /\ ring[answer + 1] \in Continuum(Shard)
        /\ Successor(ring[answer + 1], Continuum(Shard))
    BY <2>1, AnswerIsSuccessor
  <2>3. before' \in Shard
    BY <2>1, <2>2, PointOf DEF Owner
  <2>4. before' # NoShard
    BY <2>3, RingAssumption
  <2> QED
    BY <2>1, <2>2, <2>4 DEF MoveInv, Successor, Owner
<1> QED
  BY <1>1, <1>2, <1>3 DEF Next

(* Consistent hashing, for every ring: a restart without one of the servers *)
(* moves a key only if its server is the one that went, as long as the      *)
(* others keep their number of points and no other point has the hash of    *)
(* the key's (hashring.cc:16-68, 70-102).                                   *)
THEOREM KeysStay == Spec => []OnlyItsKeysMove
<1>1. RingInv /\ MoveInv => OnlyItsKeysMove
  <2> SUFFICES ASSUME RingInv, MoveInv,
                      pc = "found", before \in nodes, answer < Size, ~Tied(answer),
                      \A s \in nodes : Length(s, nodes) = Length(s, Shard)
               PROVE  Owner = before
    BY DEF OnlyItsKeysMove
  <2> DEFINE r == ring[answer + 1]
  <2>1. nodes \subseteq Shard /\ before # NoShard
    BY RingAssumption DEF RingInv, RingType
  <2>2. PICK p \in Continuum(Shard) : p[1] = before /\ Successor(p, Continuum(Shard))
    BY <2>1 DEF MoveInv
  <2>3. \A s \in nodes : Points(s, nodes) = Points(s, Shard)
    BY DEF Points
  <2>4. Continuum(nodes) \subseteq Continuum(Shard)
    BY <2>1, <2>3 DEF Continuum
  <2>5. p \in Continuum(nodes)
    BY <2>2, <2>3, PointOf DEF Continuum
  <2>6. /\ answer + 1 \in 1..Size /\ r \in Continuum(nodes)
        /\ Successor(r, Continuum(nodes))
    BY AnswerIsSuccessor
  <2>7. md4[p] \in Int /\ md4[r] \in Int /\ key \in Int
    BY <2>1, <2>5, <2>6, PointsFinite, RingAssumption DEF RingInv, RingType, Hash
  <2> HIDE DEF r
  <2>8. md4[r] = md4[p]
    BY <2>2, <2>4, <2>5, <2>6, <2>7 DEF Successor
  <2>9. PICK i \in 1..Size : ring[i] = p
    BY <2>5 DEF MoveInv
  <2>10. i - 1 \in 0..Size - 1 /\ (i - 1) + 1 = i /\ answer \in 0..Size - 1
    BY DEF RingInv, RingType, SearchInv
  <2>11. HashAt(i - 1) = HashAt(answer)
    BY <2>8, <2>9, <2>10 DEF HashAt, r
  <2>12. i - 1 = answer
    BY <2>10, <2>11 DEF Tied
  <2> QED
    BY <2>2, <2>9, <2>10, <2>12 DEF Owner
<1>2. Init => MoveInv
  BY DEF Init, MoveInv
<1> QED
  BY <1>1, <1>2, MoveStep, RingInvAlways, PTL DEF Spec
=============================================================================

---------------------------- MODULE Ledger_proofs ----------------------------
(***************************************************************************)
(* Proofs about Ledger, for any lines, percentiles and bounds: the         *)
(* aggregates are what the lines of the interval say.                      *)
(*                                                                         *)
(* Induction is by the least counterexample: a set of numbers has a least  *)
(* element, and among subsets of a finite set there is one without a       *)
(* smaller one.                                                            *)
(***************************************************************************)
EXTENDS Ledger, FiniteSetTheorems, TLAPS

LEMMA LeastNumber ==
  ASSUME NEW B \in SUBSET Nat, B # {}
  PROVE  \E x \in B : \A y \in B : x <= y
<1>1. PICK x \in B : \A y \in B : ~ (<<y, x>> \in OpToRel(<, Nat))
  BY NatLessThanWellFounded, WFMin, Zenon
<1>2. \A y \in B : ~ (y < x)
  BY <1>1 DEF OpToRel
<1> QED
  BY <1>2

LEMMA LeastSubset ==
  ASSUME NEW S, IsFiniteSet(S), NEW B \in SUBSET SUBSET S, B # {}
  PROVE  \E b \in B : \A c \in B : c \subseteq b => c = b
<1>1. IsWellFoundedOn(StrictSubsetOrdering(S), SUBSET S)
  BY FS_StrictSubsetOrderingWellFounded, FS_FiniteSubsetsOfFinite
<1>2. PICK b \in B : \A c \in B : ~ (<<c, b>> \in StrictSubsetOrdering(S))
  BY <1>1, WFMin, Zenon
<1> SUFFICES ASSUME NEW c \in B, c \subseteq b, c # b PROVE FALSE
  BY Zenon
<1>3. <<c, b>> \in (SUBSET S) \X (SUBSET S)
  OBVIOUS
<1> QED
  BY <1>2, <1>3 DEF StrictSubsetOrdering

-----------------------------------------------------------------------------
(* Sums.  SumFunctionOnSet is defined by a recursive function on the        *)
(* subsets of S, one chosen element after the other.                        *)
Pick(s) == CHOOSE x \in s : TRUE
Summed(f, g, s) == IF s = {} THEN 0 ELSE f[Pick(s)] + g[s \ {Pick(s)}]
SumRule(f, S, g) == g = [s \in SUBSET S |-> Summed(f, g, s)]

LEMMA SumIs ==
  ASSUME NEW f, NEW S
  PROVE  SumFunctionOnSet(f, S) = (CHOOSE g : SumRule(f, S, g))[S]
  BY DEF SumFunctionOnSet, FoldFunctionOnSet, MapThenFoldSet, SumRule, Summed, Pick

LEMMA PickIn == ASSUME NEW s, s # {} PROVE Pick(s) \in s
  BY DEF Pick

LEMMA PickSmaller ==
  ASSUME NEW S, IsFiniteSet(S), NEW s \in SUBSET S, s # {}
  PROVE  /\ s \ {Pick(s)} \in SUBSET S
         /\ Cardinality(s) \in Nat
         /\ Cardinality(s \ {Pick(s)}) = Cardinality(s) - 1
<1>1. IsFiniteSet(s)
  BY FS_Subset
<1> QED
  BY <1>1, PickIn, FS_RemoveElement, FS_CardinalityType

(* There is such a function: it can be built for sets of up to n elements.  *)
LEMMA SumRuleHas ==
  ASSUME NEW f, NEW S, IsFiniteSet(S)
  PROVE  \E g : SumRule(f, S, g)
<1> DEFINE Upto(n, g) == \A s \in SUBSET S : Cardinality(s) <= n => g[s] = Summed(f, g, s)
           Bad == {n \in Nat : ~ \E g : Upto(n, g)}
<1>1. \A s \in SUBSET S : Cardinality(s) \in Nat /\ (Cardinality(s) = 0 <=> s = {})
  BY FS_Subset, FS_CardinalityType, FS_EmptySet
<1>2. Bad = {}
  <2> SUFFICES ASSUME Bad # {} PROVE FALSE
    OBVIOUS
  <2>1. PICK m \in Bad : \A y \in Bad : m <= y
    <3>1. Bad \in SUBSET Nat
      OBVIOUS
    <3> HIDE DEF Bad
    <3> QED
      BY <3>1, LeastNumber
  <2>2. m # 0
    <3> SUFFICES ASSUME m = 0 PROVE FALSE
      OBVIOUS
    <3> DEFINE g == [s \in SUBSET S |-> 0]
    <3>1. Upto(0, g)
      BY <1>1 DEF Summed
    <3> HIDE DEF g
    <3> QED
      BY <3>1, <2>1
  <2>3. m - 1 \in Nat /\ m - 1 \notin Bad
    BY <2>1, <2>2
  <2>4. PICK g : Upto(m - 1, g)
    BY <2>3
  <2> DEFINE h == [s \in SUBSET S |-> IF Cardinality(s) <= m - 1 THEN g[s] ELSE Summed(f, g, s)]
  <2>5. Upto(m, h)
    <3> SUFFICES ASSUME NEW s \in SUBSET S, Cardinality(s) <= m
                 PROVE  h[s] = Summed(f, h, s)
      OBVIOUS
    <3>1. CASE s = {}
      BY <3>1, <2>4, <2>3, <1>1 DEF Summed
    <3>2. CASE s # {}
      <4> DEFINE r == s \ {Pick(s)}
      <4>1. r \in SUBSET S /\ Cardinality(r) <= m - 1
        BY <3>2, PickSmaller, <2>3
      <4>2. h[r] = g[r]
        BY <4>1
      <4>3. h[s] = Summed(f, g, s)
        BY <2>4
      <4> QED
        BY <4>2, <4>3, <3>2 DEF Summed
    <3> QED
      BY <3>1, <3>2
  <2> HIDE DEF h
  <2> QED
    BY <2>5, <2>1
<1>3. Cardinality(S) \in Nat /\ \A s \in SUBSET S : Cardinality(s) <= Cardinality(S)
  BY FS_Subset, FS_CardinalityType
<1>4. PICK g : Upto(Cardinality(S), g)
  BY <1>2, <1>3
<1> DEFINE k == [s \in SUBSET S |-> g[s]]
<1>5. SumRule(f, S, k)
  <2> SUFFICES ASSUME NEW s \in SUBSET S PROVE k[s] = Summed(f, k, s)
    BY DEF SumRule
  <2>1. k[s] = Summed(f, g, s)
    BY <1>3, <1>4
  <2>2. s # {} => s \ {Pick(s)} \in SUBSET S
    OBVIOUS
  <2> QED
    BY <2>1, <2>2 DEF Summed
<1> HIDE DEF k
<1> QED
  BY <1>5

(* It agrees with the one for a smaller set. *)
LEMMA SumRuleAgrees ==
  ASSUME NEW f, NEW S, IsFiniteSet(S), NEW T \in SUBSET S, NEW g, NEW h,
         SumRule(f, S, g), SumRule(f, T, h)
  PROVE  g[T] = h[T]
<1> DEFINE Bad == {s \in SUBSET T : g[s] # h[s]}
<1> SUFFICES ASSUME Bad # {} PROVE FALSE
  OBVIOUS
<1>1. Bad \in SUBSET SUBSET S
  OBVIOUS
<1>2. PICK b \in Bad : \A c \in Bad : c \subseteq b => c = b
  <2> HIDE DEF Bad
  <2> QED
    BY <1>1, LeastSubset
<1>3. b \in SUBSET T /\ b \in SUBSET S /\ g[b] # h[b]
  OBVIOUS
<1>4. g[b] = Summed(f, g, b) /\ h[b] = Summed(f, h, b)
  BY <1>3 DEF SumRule
<1>5. b # {}
  BY <1>3, <1>4 DEF Summed
<1> DEFINE r == b \ {Pick(b)}
<1>6. r \in SUBSET T /\ r # b /\ r \subseteq b
  BY <1>3, <1>5, PickIn
<1>7. g[r] = h[r]
  BY <1>2, <1>6
<1> QED
  BY <1>3, <1>4, <1>5, <1>7 DEF Summed

LEMMA SumUnfolds ==
  ASSUME NEW f, NEW S, IsFiniteSet(S)
  PROVE  SumFunctionOnSet(f, S) =
           IF S = {} THEN 0 ELSE f[Pick(S)] + SumFunctionOnSet(f, S \ {Pick(S)})
<1> DEFINE T == S \ {Pick(S)}
           g == CHOOSE k : SumRule(f, S, k)
           h == CHOOSE k : SumRule(f, T, k)
<1>1. IsFiniteSet(T) /\ T \in SUBSET S
  BY FS_Subset
<1>2. SumRule(f, S, g) /\ SumRule(f, T, h)
  BY <1>1, SumRuleHas
<1>3. SumFunctionOnSet(f, S) = g[S] /\ SumFunctionOnSet(f, T) = h[T]
  BY SumIs
<1> HIDE DEF g, h, T
<1>4. g[T] = h[T]
  BY <1>1, <1>2, SumRuleAgrees
<1>5. g[S] = Summed(f, g, S)
  BY <1>2 DEF SumRule
<1> QED
  BY <1>3, <1>4, <1>5 DEF Summed, T

(* What the rest of the proofs use of sums: they are integers, an element    *)
(* may be taken out, only the values on the set matter, and one may sum over *)
(* another set of the same size.                                             *)
LEMMA SumEmpty == ASSUME NEW f PROVE SumFunctionOnSet(f, {}) = 0
  BY SumUnfolds, FS_EmptySet

LEMMA SumType ==
  ASSUME NEW S, IsFiniteSet(S), NEW f, \A i \in S : f[i] \in Int
  PROVE  SumFunctionOnSet(f, S) \in Int
<1> DEFINE Bad == {s \in SUBSET S : SumFunctionOnSet(f, s) \notin Int}
<1> SUFFICES ASSUME Bad # {} PROVE FALSE
  OBVIOUS
<1>1. Bad \in SUBSET SUBSET S
  OBVIOUS
<1>2. PICK b \in Bad : \A c \in Bad : c \subseteq b => c = b
  <2> HIDE DEF Bad
  <2> QED
    BY <1>1, LeastSubset
<1>3. b \in SUBSET S /\ SumFunctionOnSet(f, b) \notin Int
  OBVIOUS
<1>4. IsFiniteSet(b)
  BY <1>3, FS_Subset
<1>5. b # {}
  BY <1>3, SumEmpty
<1> DEFINE r == b \ {Pick(b)}
<1>6. r \in SUBSET S /\ r # b /\ r \subseteq b /\ Pick(b) \in S
  BY <1>3, <1>5, PickIn
<1>7. SumFunctionOnSet(f, r) \in Int
  BY <1>2, <1>6
<1>8. SumFunctionOnSet(f, b) = f[Pick(b)] + SumFunctionOnSet(f, r)
  BY <1>4, <1>5, SumUnfolds
<1> QED
  BY <1>3, <1>6, <1>7, <1>8

LEMMA SumRemove ==
  ASSUME NEW S, IsFiniteSet(S), NEW f, \A i \in S : f[i] \in Int, NEW x \in S
  PROVE  SumFunctionOnSet(f, S) = f[x] + SumFunctionOnSet(f, S \ {x})
<1> DEFINE Fine(s, y) == SumFunctionOnSet(f, s) = f[y] + SumFunctionOnSet(f, s \ {y})
           Bad == {s \in SUBSET S : \E y \in s : ~ Fine(s, y)}
<1> SUFFICES ASSUME Bad # {} PROVE FALSE
  OBVIOUS
<1>1. Bad \in SUBSET SUBSET S
  OBVIOUS
<1>2. PICK b \in Bad : \A c \in Bad : c \subseteq b => c = b
  <2> HIDE DEF Bad
  <2> QED
    BY <1>1, LeastSubset
<1>3. b \in SUBSET S
  OBVIOUS
<1>4. PICK y \in b : ~ Fine(b, y)
  OBVIOUS
<1> DEFINE p == Pick(b)
           r == b \ {p}
           q == b \ {y}
<1> SUFFICES Fine(b, y)
  BY <1>4
<1>5. IsFiniteSet(b) /\ b # {} /\ p \in b
  BY <1>3, <1>4, FS_Subset, PickIn
<1>6. SumFunctionOnSet(f, b) = f[p] + SumFunctionOnSet(f, r)
  BY <1>5, SumUnfolds
<1>7. CASE y = p
  BY <1>6, <1>7
<1>8. CASE y # p
  <2> HIDE DEF p
  <2>1. y \in r /\ p \in q /\ r \ {y} = q \ {p}
    BY <1>5, <1>8
  <2>2. Fine(r, y) /\ Fine(q, p)
    <3>1. r \in SUBSET S /\ r # b /\ r \subseteq b
      BY <1>3, <1>5
    <3>2. q \in SUBSET S /\ q # b /\ q \subseteq b
      BY <1>3, <1>4
    <3>3. r \notin Bad /\ q \notin Bad
      BY <1>2, <3>1, <3>2
    <3> QED
      BY <3>1, <3>2, <3>3, <2>1
  <2>3. IsFiniteSet(r \ {y}) /\ \A i \in r \ {y} : f[i] \in Int
    BY <1>3, <1>5, FS_Subset
  <2>4. SumFunctionOnSet(f, r \ {y}) \in Int
    BY <2>3, SumType
  <2>5. f[y] \in Int /\ f[p] \in Int
    BY <1>3, <1>5
  <2>6. SumFunctionOnSet(f, q \ {p}) = SumFunctionOnSet(f, r \ {y})
    BY <2>1
  <2> HIDE DEF r, q, Bad
  <2>7. /\ SumFunctionOnSet(f, r) = f[y] + SumFunctionOnSet(f, r \ {y})
        /\ SumFunctionOnSet(f, q) = f[p] + SumFunctionOnSet(f, r \ {y})
    BY <2>2, <2>6
  <2>8. SumFunctionOnSet(f, b) = f[y] + SumFunctionOnSet(f, q)
    BY <1>6, <2>7, <2>4, <2>5
  <2> QED
    BY <2>8 DEF q
<1> QED
  BY <1>7, <1>8

LEMMA SumAdd ==
  ASSUME NEW S, IsFiniteSet(S), NEW f, NEW x, x \notin S, \A i \in S \cup {x} : f[i] \in Int
  PROVE  SumFunctionOnSet(f, S \cup {x}) = f[x] + SumFunctionOnSet(f, S)
<1>1. IsFiniteSet(S \cup {x}) /\ (S \cup {x}) \ {x} = S
  BY FS_AddElement
<1> QED
  BY <1>1, SumRemove

(* Summing over another set of indices, along a bijection. *)
LEMMA SumMoved ==
  ASSUME NEW S, NEW T, IsFiniteSet(S), NEW b \in Bijection(S, T), NEW f, NEW g,
         \A i \in S : f[i] \in Int /\ g[b[i]] = f[i]
  PROVE  SumFunctionOnSet(f, S) = SumFunctionOnSet(g, T)
<1> DEFINE Img(s) == {b[i] : i \in s}
           Bad == {s \in SUBSET S : SumFunctionOnSet(f, s) # SumFunctionOnSet(g, Img(s))}
<1>0. /\ \A i, j \in S : b[i] = b[j] => i = j
      /\ \A i \in S : b[i] \in T
      /\ \A t \in T : \E i \in S : b[i] = t
  BY DEF Bijection, Injection, Surjection, IsInjective
<1>1. Bad = {}
  <2> SUFFICES ASSUME Bad # {} PROVE FALSE
    OBVIOUS
  <2>1. Bad \in SUBSET SUBSET S
    OBVIOUS
  <2>2. PICK a \in Bad : \A c \in Bad : c \subseteq a => c = a
    <3> HIDE DEF Bad
    <3> QED
      BY <2>1, LeastSubset
  <2>3. a \in SUBSET S /\ SumFunctionOnSet(f, a) # SumFunctionOnSet(g, Img(a))
    OBVIOUS
  <2>4. IsFiniteSet(a)
    BY <2>3, FS_Subset
  <2>5. a # {}
    <3> SUFFICES ASSUME a = {} PROVE FALSE
      OBVIOUS
    <3>1. Img(a) = {}
      OBVIOUS
    <3> QED
      BY <3>1, <2>3, SumEmpty
  <2>6. PICK x \in a : TRUE
    BY <2>5
  <2> DEFINE r == a \ {x}
  <2>7. SumFunctionOnSet(f, r) = SumFunctionOnSet(g, Img(r))
    <3>1. r \in SUBSET S /\ r # a /\ r \subseteq a
      BY <2>3, <2>6
    <3>2. r \notin Bad
      BY <3>1, <2>2
    <3> QED
      BY <3>1, <3>2
  <2>8. SumFunctionOnSet(f, a) = f[x] + SumFunctionOnSet(f, r)
    BY <2>3, <2>4, SumRemove
  <2>9. IsFiniteSet(Img(a))
    <3> DEFINE k == [i \in a |-> b[i]]
    <3>1. k \in Surjection(a, Img(a))
      BY DEF Surjection
    <3> HIDE DEF k
    <3> QED
      BY <3>1, <2>4, FS_Surjection
  <2>10. b[x] \in Img(a) /\ Img(r) = Img(a) \ {b[x]}
    BY <2>3, <1>0
  <2>11. \A t \in Img(a) : g[t] \in Int
    BY <2>3
  <2>12. SumFunctionOnSet(g, Img(a)) = g[b[x]] + SumFunctionOnSet(g, Img(a) \ {b[x]})
    <3> HIDE DEF Img
    <3> QED
      BY <2>9, <2>10, <2>11, SumRemove
  <2>13. g[b[x]] = f[x]
    BY <2>3
  <2> QED
    BY <2>3, <2>7, <2>8, <2>10, <2>12, <2>13
<1>2. Img(S) = T
  BY <1>0
<1> QED
  BY <1>1, <1>2

LEMMA SumSame ==
  ASSUME NEW S, IsFiniteSet(S), NEW f, NEW g, \A i \in S : f[i] \in Int /\ g[i] = f[i]
  PROVE  SumFunctionOnSet(f, S) = SumFunctionOnSet(g, S)
<1> DEFINE b == [i \in S |-> i]
<1>1. b \in Bijection(S, S) /\ \A i \in S : b[i] = i
  BY DEF Bijection, Injection, Surjection, IsInjective
<1> HIDE DEF b
<1> QED
  BY <1>1, SumMoved

LEMMA SumOneMore ==
  ASSUME NEW f, NEW g, NEW x, IsFiniteSet(DOMAIN f), x \notin DOMAIN f,
         DOMAIN g = DOMAIN f \cup {x}, g[x] \in Int,
         \A i \in DOMAIN f : f[i] \in Int /\ g[i] = f[i]
  PROVE  SumFunction(g) = SumFunction(f) + g[x]
<1> DEFINE D == DOMAIN f
<1>1. SumFunction(g) = SumFunctionOnSet(g, D \cup {x}) /\ SumFunction(f) = SumFunctionOnSet(f, D)
  BY DEF SumFunction
<1>2. \A i \in D \cup {x} : g[i] \in Int
  OBVIOUS
<1> HIDE DEF D
<1>3. SumFunctionOnSet(g, D \cup {x}) = g[x] + SumFunctionOnSet(g, D)
  BY <1>2, SumAdd DEF D
<1>4. SumFunctionOnSet(f, D) = SumFunctionOnSet(g, D) /\ SumFunctionOnSet(f, D) \in Int
  BY SumSame, SumType DEF D
<1> QED
  BY <1>1, <1>3, <1>4

LEMMA SumReplaced ==
  ASSUME NEW f, NEW g, NEW x \in DOMAIN f, IsFiniteSet(DOMAIN f),
         DOMAIN g = DOMAIN f, g[x] \in Int,
         \A i \in DOMAIN f : f[i] \in Int /\ (i # x => g[i] = f[i])
  PROVE  SumFunction(g) = SumFunction(f) - f[x] + g[x]
<1> DEFINE D == DOMAIN f
<1>1. SumFunction(g) = SumFunctionOnSet(g, D) /\ SumFunction(f) = SumFunctionOnSet(f, D)
  BY DEF SumFunction
<1>2. IsFiniteSet(D \ {x})
  BY FS_Subset
<1>3. SumFunctionOnSet(g, D) = g[x] + SumFunctionOnSet(g, D \ {x})
  BY SumRemove
<1>4. SumFunctionOnSet(f, D) = f[x] + SumFunctionOnSet(f, D \ {x})
  BY SumRemove
<1>5. SumFunctionOnSet(f, D \ {x}) = SumFunctionOnSet(g, D \ {x}) /\ SumFunctionOnSet(f, D \ {x}) \in Int
  BY <1>2, SumSame, SumType
<1>6. f[x] \in Int
  OBVIOUS
<1> HIDE DEF D
<1> QED
  BY <1>1, <1>3, <1>4, <1>5, <1>6

LEMMA AtType == ASSUME NEW f, f \in [DOMAIN f -> Int], NEW k PROVE At(f, k, 0) \in Int
  BY DEF At

LEMMA SumOfAdd ==
  ASSUME NEW D, IsFiniteSet(D), NEW f \in [D -> Int], NEW k, NEW v \in Int
  PROVE  SumFunction(Add(f, k, v)) = SumFunction(f) + v
<1> DEFINE g == Add(f, k, v)
<1>1. /\ g \in [D \cup {k} -> Int]
      /\ g[k] = At(f, k, 0) + v
      /\ \A x \in D : x # k => g[x] = f[x]
  BY DEF Add, Put, At
<1>2. SumFunction(f) \in Int
  BY SumType DEF SumFunction
<1> HIDE DEF g
<1>3. CASE k \in D
  <2>1. SumFunction(g) = SumFunction(f) - f[k] + g[k]
    BY <1>1, <1>3, SumReplaced
  <2>2. At(f, k, 0) = f[k] /\ f[k] \in Int
    BY <1>3 DEF At
  <2> QED
    BY <1>1, <1>2, <2>1, <2>2 DEF g
<1>4. CASE k \notin D
  <2>1. SumFunction(g) = SumFunction(f) + g[k]
    BY <1>1, <1>4, SumOneMore
  <2>2. At(f, k, 0) = 0
    BY <1>4 DEF At
  <2> QED
    BY <1>1, <1>2, <2>1, <2>2 DEF g
<1> QED
  BY <1>3, <1>4

-----------------------------------------------------------------------------
(* The lines seen, and which of them are about a name. *)
LEMMA LineIs ==
  ASSUME NEW l \in Line
  PROVE  /\ l.name \in Name /\ l.name # BadLinesSeen
         /\ l.value \in Int
         /\ InverseRate(l) \in Int
         /\ l.value * InverseRate(l) \in Int
         /\ l.type \in {"ms", "c", "g", "s", "other", ""}
         /\ l.signed \in BOOLEAN
<1>1. l \in LineType /\ BadLinesSeen \notin Name
  BY LedgerAssumption
<1>2. l.name \in Name /\ l.value \in Int /\ l.inverse \in Nat \ {0}
  BY <1>1, Zenon DEF LineType
<1>3. l.type \in {"ms", "c", "g", "s", "other", ""} /\ l.signed \in BOOLEAN
  BY <1>1, Zenon DEF LineType
<1>4. InverseRate(l) = l.inverse \/ InverseRate(l) = 1
  BY Zenon DEF InverseRate
<1>5. InverseRate(l) \in Int
  BY <1>2, <1>4
<1>6. l.value * InverseRate(l) \in Int
  BY <1>2, <1>5
<1> QED
  BY <1>1, <1>2, <1>3, <1>5, <1>6

SeenOK == seen \in Seq(Line) /\ Len(seen) \in Nat

IsOf(l, n, tys) == ~BadLine(l) /\ l.name = n /\ l.type \in tys

LEMMA OfHas == ASSUME NEW n, NEW tys
               PROVE  /\ Of(n, tys) = {i \in DOMAIN seen : IsOf(seen[i], n, tys)}
                      /\ Of(n, tys)' = {i \in DOMAIN seen' : IsOf(seen'[i], n, tys)}
  BY DEF Of, Good, WellFormed, IsOf, BadLine

LEMMA OfIs ==
  ASSUME SeenOK, NEW n, NEW tys
  PROVE  /\ Of(n, tys) \subseteq 1..Len(seen)
         /\ IsFiniteSet(Of(n, tys))
         /\ \A i \in Of(n, tys) :
              /\ i \in Nat /\ i # 0 /\ i <= Len(seen)
              /\ seen[i] \in Line /\ seen[i].name = n /\ seen[i].type \in tys
<1>1. DOMAIN seen = 1..Len(seen) /\ Len(seen) \in Nat
  BY DEF SeenOK
<1>2. IsFiniteSet(1..Len(seen))
  BY <1>1, FS_Interval
<1>3. Of(n, tys) \in SUBSET (1..Len(seen))
  BY <1>1 DEF Of
<1> QED
  BY <1>1, <1>2, <1>3, FS_Subset DEF Of, SeenOK

LEMMA OneMoreSeen ==
  ASSUME SeenOK, NEW l \in Line, seen' = Append(seen, l)
  PROVE  /\ SeenOK'
         /\ Len(seen') = Len(seen) + 1
         /\ seen'[Len(seen) + 1] = l
         /\ \A i \in 1..Len(seen) : seen'[i] = seen[i]
  BY DEF SeenOK

LEMMA OneMoreOf ==
  ASSUME SeenOK, NEW l \in Line, seen' = Append(seen, l), NEW n, NEW tys
  PROVE  /\ IsOf(l, n, tys) => Of(n, tys)' = Of(n, tys) \cup {Len(seen) + 1}
         /\ ~IsOf(l, n, tys) => Of(n, tys)' = Of(n, tys)
<1>1. /\ Len(seen') = Len(seen) + 1 /\ Len(seen) \in Nat
      /\ seen'[Len(seen) + 1] = l
      /\ \A i \in 1..Len(seen) : seen'[i] = seen[i]
      /\ DOMAIN seen = 1..Len(seen) /\ DOMAIN seen' = 1..(Len(seen) + 1)
  BY OneMoreSeen DEF SeenOK
<1> DEFINE A == Of(n, tys)
           B == Of(n, tys)'
<1>2. A = {i \in 1..Len(seen) : IsOf(seen[i], n, tys)}
  BY <1>1, OfHas
<1>3. B = {i \in 1..(Len(seen) + 1) : IsOf(seen'[i], n, tys)}
  BY <1>1, OfHas
<1> HIDE DEF A, B
<1>4. IsOf(l, n, tys) => B = A \cup {Len(seen) + 1}
  BY <1>1, <1>2, <1>3
<1>5. ~IsOf(l, n, tys) => B = A
  BY <1>1, <1>2, <1>3
<1> QED
  BY <1>4, <1>5 DEF A, B

LEMMA UnseenOf ==
  ASSUME NEW n, NEW tys, UNCHANGED seen
  PROVE  Of(n, tys)' = Of(n, tys)
  BY DEF Of, Good, WellFormed

-----------------------------------------------------------------------------
(* buffer() on a line, map by map. *)
LEMMA BufferIs ==
  ASSUME SeenOK, NEW l \in Line, buffer(l)
  PROVE  /\ ~processed /\ UNCHANGED <<processed, counter_rates, timer_data>>
         /\ seen' = Append(seen, l) /\ Len(seen) < MaxTimers
         /\ metrics_processed' = metrics_processed + 1
         /\ frequency' = IF BadLine(l) THEN frequency ELSE Add(frequency, l.name, 1)
         /\ counters' = IF BadLine(l) THEN Add(counters, BadLinesSeen, 1)
                        ELSE IF l.type \in {"c", "other"}
                               THEN Add(counters, l.name, l.value * InverseRate(l))
                               ELSE counters
<1>1. MaxTimers \in Nat /\ MaxLines \in Nat /\ MaxLines <= MaxTimers /\ Len(seen) \in Nat
  BY LedgerAssumption DEF SeenOK
<1>2. Len(seen) < MaxTimers
  BY <1>1 DEF buffer
<1>3. l.type \in {"c", "other"} /\ ~BadLine(l) =>
        counters' = Add(counters, l.name, l.value * InverseRate(l))
  BY DEF buffer, BufferTimer, BufferGauge, BufferSet, BufferCounter
<1>4. l.type \notin {"c", "other"} /\ ~BadLine(l) => counters' = counters
  BY DEF buffer, BufferTimer, BufferGauge, BufferSet, BufferCounter
<1>5. BadLine(l) => counters' = Add(counters, BadLinesSeen, 1)
  BY DEF buffer, CountBadLine
<1>6. frequency' = IF BadLine(l) THEN frequency ELSE Add(frequency, l.name, 1)
  BY DEF buffer, CountBadLine
<1> QED
  BY <1>2, <1>3, <1>4, <1>5, <1>6 DEF buffer

LEMMA BufferOthers ==
  ASSUME NEW l \in Line, buffer(l)
  PROVE  /\ IF ~BadLine(l) /\ l.type = "ms"
              THEN /\ timer_counters' = Add(timer_counters, l.name, InverseRate(l))
                   /\ timers' = Put(timers, l.name, Append(At(timers, l.name, <<>>), l.value))
              ELSE UNCHANGED <<timers, timer_counters>>
         /\ IF ~BadLine(l) /\ l.type = "g"
              THEN gauges' = IF l.signed THEN Add(gauges, l.name, l.value)
                                         ELSE Put(gauges, l.name, l.value)
              ELSE UNCHANGED gauges
         /\ IF ~BadLine(l) /\ l.type = "s"
              THEN sets' = Put(sets, l.name, At(sets, l.name, {}) \cup {l.value})
              ELSE UNCHANGED sets
<1>1. CASE BadLine(l)
  BY <1>1 DEF buffer, CountBadLine
<1>2. CASE ~BadLine(l)
  BY <1>2 DEF buffer, BufferTimer, BufferGauge, BufferSet, BufferCounter
<1> QED
  BY <1>1, <1>2

(* The maps other than timers. *)
BasicInv ==
  /\ SeenOK /\ Len(seen) <= MaxTimers
  /\ metrics_processed = Len(seen)
  /\ frequency \in [DOMAIN frequency -> Int] /\ IsFiniteSet(DOMAIN frequency)
  /\ \A n \in DOMAIN frequency : frequency[n] \in 1..Len(seen)
  /\ counters \in [DOMAIN counters -> Int]
  /\ DOMAIN counters \subseteq Name \cup {BadLinesSeen}
  /\ gauges \in [DOMAIN gauges -> Int]
  /\ \A n \in DOMAIN sets : n \in Name /\ sets[n] # {}
  /\ processed \in BOOLEAN
  /\ processed => counter_rates = Rates

LEMMA EmptyMap == DOMAIN <<>> = {} /\ <<>> \in [{} -> Int]
  OBVIOUS

LEMMA BasicEmpty ==
  ASSUME metrics_processed = 0, frequency = <<>>, counters = <<>>, gauges = <<>>,
         sets = <<>>, processed = FALSE, seen = <<>>
  PROVE  BasicInv
<1>1. SeenOK /\ Len(seen) = 0 /\ Len(seen) <= MaxTimers
  BY LedgerAssumption DEF SeenOK
<1>2. IsFiniteSet(DOMAIN frequency)
  BY FS_EmptySet
<1> QED
  BY <1>1, <1>2, EmptyMap, Zenon DEF BasicInv

LEMMA BasicBuffer ==
  ASSUME BasicInv, NEW l \in Line, buffer(l)
  PROVE  BasicInv'
<1>1. /\ SeenOK' /\ Len(seen) \in Nat /\ Len(seen') = Len(seen) + 1
      /\ Len(seen') <= MaxTimers /\ metrics_processed' = Len(seen')
  BY BufferIs, OneMoreSeen, LedgerAssumption DEF BasicInv, SeenOK
<1>2. l.name \in Name /\ l.value \in Int /\ l.value * InverseRate(l) \in Int
  BY LineIs
<1>3. /\ frequency' \in [DOMAIN frequency' -> Int] /\ IsFiniteSet(DOMAIN frequency')
      /\ \A n \in DOMAIN frequency' : frequency'[n] \in 1..Len(seen')
  <2>1. CASE BadLine(l)
    BY <2>1, <1>1, BufferIs DEF BasicInv
  <2>2. CASE ~BadLine(l)
    <3> DEFINE D == DOMAIN frequency
               f == Add(frequency, l.name, 1)
    <3>1. frequency' = f
      BY <2>2, BufferIs DEF BasicInv
    <3>2. /\ f \in [D \cup {l.name} -> Int]
          /\ f[l.name] = At(frequency, l.name, 0) + 1
          /\ \A x \in D : x # l.name => f[x] = frequency[x]
      BY DEF Add, Put, At, BasicInv
    <3>3. IsFiniteSet(D \cup {l.name})
      BY FS_AddElement DEF BasicInv
    <3>4. At(frequency, l.name, 0) \in 0..Len(seen)
      BY <1>1 DEF At, BasicInv
    <3>5. \A n \in D : frequency[n] \in 1..Len(seen)
      BY DEF BasicInv
    <3> HIDE DEF f, D
    <3>6. \A n \in D \cup {l.name} : f[n] \in 1..Len(seen')
      BY <3>2, <3>4, <3>5, <1>1
    <3> QED
      BY <3>1, <3>2, <3>3, <3>6
  <2> QED
    BY <2>1, <2>2
<1>4. /\ counters' \in [DOMAIN counters' -> Int]
      /\ DOMAIN counters' \subseteq Name \cup {BadLinesSeen}
  <2>1. /\ counters \in [DOMAIN counters -> Int]
        /\ DOMAIN counters \subseteq Name \cup {BadLinesSeen}
    BY DEF BasicInv
  <2>2. /\ Add(counters, BadLinesSeen, 1) \in [DOMAIN counters \cup {BadLinesSeen} -> Int]
        /\ Add(counters, l.name, l.value * InverseRate(l)) \in [DOMAIN counters \cup {l.name} -> Int]
    BY <2>1, <1>2 DEF Add, Put, At
  <2>3. \/ counters' = counters \/ counters' = Add(counters, BadLinesSeen, 1)
        \/ counters' = Add(counters, l.name, l.value * InverseRate(l))
    BY BufferIs DEF BasicInv
  <2> QED
    BY <2>1, <2>2, <2>3, <1>2
<1>5. gauges' \in [DOMAIN gauges' -> Int]
  <2>1. gauges \in [DOMAIN gauges -> Int]
    BY DEF BasicInv
  <2>2. /\ Add(gauges, l.name, l.value) \in [DOMAIN gauges \cup {l.name} -> Int]
        /\ Put(gauges, l.name, l.value) \in [DOMAIN gauges \cup {l.name} -> Int]
    BY <2>1, <1>2 DEF Add, Put, At
  <2>3. \/ gauges' = gauges \/ gauges' = Add(gauges, l.name, l.value)
        \/ gauges' = Put(gauges, l.name, l.value)
    BY BufferOthers
  <2> QED
    BY <2>1, <2>2, <2>3
<1>6. \A n \in DOMAIN sets' : n \in Name /\ sets'[n] # {}
  <2>1. \A n \in DOMAIN sets : n \in Name /\ sets[n] # {}
    BY DEF BasicInv
  <2>2. \/ sets' = sets
        \/ sets' = Put(sets, l.name, At(sets, l.name, {}) \cup {l.value})
    BY BufferOthers
  <2> QED
    BY <2>1, <2>2, <1>2 DEF Put
<1> QED
  BY <1>1, <1>3, <1>4, <1>5, <1>6, BufferIs DEF BasicInv

-----------------------------------------------------------------------------
(* What a counter is the sum of: a rate counts if sscanf finds it. *)
SumsInv ==
  /\ \A n \in Name :
       LET own == Of(n, {"c", "other"}) IN
       /\ n \in DOMAIN counters <=> own # {}
       /\ At(counters, n, 0) =
            SumFunction([i \in own |-> seen[i].value *
                           (IF seen[i].rateAfterBar THEN seen[i].inverse ELSE 1)])
  /\ metrics_processed = SumFunction(frequency) + At(counters, BadLinesSeen, 0)

LEMMA CountersBuffer ==
  ASSUME BasicInv, SumsInv, NEW l \in Line, buffer(l)
  PROVE  SumsInv'
<1> DEFINE new == Len(seen) + 1
<1>1. /\ Len(seen) \in Nat /\ seen'[new] = l
      /\ \A i \in 1..Len(seen) : seen'[i] = seen[i]
      /\ seen' = Append(seen, l) /\ SeenOK
  BY BufferIs, OneMoreSeen DEF BasicInv, SeenOK
<1>2. /\ l.name \in Name /\ l.name # BadLinesSeen
      /\ l.value * InverseRate(l) \in Int
  BY LineIs
<1>3. ASSUME NEW n \in Name
      PROVE  /\ (n \in DOMAIN counters <=> Of(n, {"c", "other"}) # {})'
             /\ At(counters, n, 0)' =
                  SumFunction([i \in Of(n, {"c", "other"}) |-> seen[i].value *
                           (IF seen[i].rateAfterBar THEN seen[i].inverse ELSE 1)])'
  <2> DEFINE own == Of(n, {"c", "other"})
             own2 == Of(n, {"c", "other"})'
             f == [i \in own |-> seen[i].value * InverseRate(seen[i])]
             g == [i \in own2 |-> seen'[i].value * InverseRate(seen'[i])]
  <2>1. (n \in DOMAIN counters <=> own # {}) /\ At(counters, n, 0) = SumFunction(f)
    BY DEF SumsInv, InverseRate
  <2>2. SumFunction([i \in Of(n, {"c", "other"}) |-> seen[i].value *
                  (IF seen[i].rateAfterBar THEN seen[i].inverse ELSE 1)])' = SumFunction(g)
    BY DEF InverseRate
  <2>3. own \subseteq 1..Len(seen) /\ IsFiniteSet(own) /\ \A i \in own : f[i] \in Int
    <3>1. \A i \in own : seen[i] \in Line
      BY <1>1, OfIs
    <3>2. \A i \in own : seen[i].value * InverseRate(seen[i]) \in Int
      BY <3>1, LineIs
    <3> QED
      BY <3>2, <1>1, OfIs
  <2>4. CASE IsOf(l, n, {"c", "other"})
    <3>1. own2 = own \cup {new}
      BY <2>4, <1>1, OneMoreOf
    <3>2. counters' = Add(counters, n, l.value * InverseRate(l))
      BY <2>4, BufferIs DEF BasicInv, IsOf
    <3>3. At(counters', n, 0) = At(counters, n, 0) + l.value * InverseRate(l)
      BY <3>2, <1>2 DEF Add, Put, At
    <3>4. n \in DOMAIN counters'
      BY <3>2 DEF Add, Put
    <3>5. new \notin own /\ g[new] = l.value * InverseRate(l)
      BY <3>1, <1>1, <2>3
    <3>6. \A i \in own : g[i] = f[i]
      BY <3>1, <1>1, <2>3
    <3>7. DOMAIN f = own /\ DOMAIN g = own \cup {new}
      BY <3>1
    <3> HIDE DEF f, g, own, own2, new
    <3>8. SumFunction(g) = SumFunction(f) + g[new]
      <4>1. /\ IsFiniteSet(DOMAIN f) /\ new \notin DOMAIN f
            /\ DOMAIN g = DOMAIN f \cup {new} /\ g[new] \in Int
            /\ \A i \in DOMAIN f : f[i] \in Int /\ g[i] = f[i]
        BY <3>5, <3>6, <3>7, <2>3, <1>2
      <4> QED
        BY <4>1, SumOneMore, Zenon
    <3>9. At(counters', n, 0) = SumFunction(g)
      BY <3>3, <3>5, <3>8, <2>1
    <3>10. own2 # {}
      BY <3>1
    <3> QED
      BY <3>4, <3>9, <3>10, <2>2 DEF own2, At
  <2>5. CASE ~IsOf(l, n, {"c", "other"})
    <3>1. own2 = own
      BY <2>5, <1>1, OneMoreOf
    <3>2. g = f
      BY <3>1, <1>1, <2>3
    <3>3. /\ n \in DOMAIN counters' <=> n \in DOMAIN counters
          /\ At(counters', n, 0) = At(counters, n, 0)
      <4>1. n # BadLinesSeen
        BY LedgerAssumption
      <4>2. CASE BadLine(l)
        <5>1. counters' = Add(counters, BadLinesSeen, 1)
          BY <4>2, BufferIs DEF BasicInv
        <5> QED
          BY <4>1, <5>1 DEF Add, Put, At
      <4>3. CASE ~BadLine(l) /\ l.type \in {"c", "other"}
        <5>1. counters' = Add(counters, l.name, l.value * InverseRate(l))
          BY <4>3, BufferIs DEF BasicInv
        <5>2. n # l.name
          BY <2>5, <4>3 DEF IsOf
        <5> QED
          BY <5>1, <5>2 DEF Add, Put, At
      <4>4. CASE ~BadLine(l) /\ l.type \notin {"c", "other"}
        BY <4>4, BufferIs DEF BasicInv
      <4> QED
        BY <4>2, <4>3, <4>4
    <3> HIDE DEF f, g, own, own2
    <3> QED
      BY <3>1, <3>2, <3>3, <2>1, <2>2 DEF own, own2, At
  <2> QED
    BY <2>4, <2>5
<1>4. (metrics_processed = SumFunction(frequency) + At(counters, BadLinesSeen, 0))'
  <2> DEFINE a == At(counters, BadLinesSeen, 0)
             a2 == At(counters', BadLinesSeen, 0)
             s == SumFunction(frequency)
  <2>1. metrics_processed = s + a
    BY DEF SumsInv
  <2>2. s \in Int
    BY SumType DEF SumFunction, BasicInv
  <2>3. a \in Int
    BY AtType DEF BasicInv
  <2>4. CASE BadLine(l)
    <3>1. a2 = a + 1
      <4>1. counters' = Add(counters, BadLinesSeen, 1)
        BY <2>4, BufferIs DEF BasicInv
      <4> QED
        BY <4>1 DEF Add, Put, At
    <3>2. frequency' = frequency /\ metrics_processed' = metrics_processed + 1
      BY <2>4, BufferIs DEF BasicInv
    <3> HIDE DEF a, a2, s
    <3>3. metrics_processed' = s + a2
      BY <3>1, <3>2, <2>1, <2>2, <2>3
    <3> QED
      BY <3>2, <3>3 DEF a2, s, At
  <2>5. CASE ~BadLine(l)
    <3>1. a2 = a
      <4>1. CASE l.type \in {"c", "other"}
        <5>1. counters' = Add(counters, l.name, l.value * InverseRate(l))
          BY <2>5, <4>1, BufferIs DEF BasicInv
        <5> QED
          BY <5>1, <1>2 DEF Add, Put, At
      <4>2. CASE l.type \notin {"c", "other"}
        BY <2>5, <4>2, BufferIs DEF BasicInv
      <4> QED
        BY <4>1, <4>2
    <3>2. frequency' = Add(frequency, l.name, 1) /\ metrics_processed' = metrics_processed + 1
      BY <2>5, BufferIs DEF BasicInv
    <3>3. SumFunction(frequency') = s + 1
      BY <3>2, SumOfAdd DEF BasicInv
    <3> HIDE DEF a, a2, s
    <3>4. metrics_processed' = SumFunction(frequency') + a2
      BY <3>1, <3>2, <3>3, <2>1, <2>2, <2>3
    <3> QED
      BY <3>4 DEF a2, At
  <2> QED
    BY <2>4, <2>5
<1> QED
  BY <1>3, <1>4 DEF SumsInv

-----------------------------------------------------------------------------
(* The last line of a gauge that sets it. *)
LEMMA MaxIs ==
  ASSUME NEW n \in Nat, NEW S \in SUBSET (1..n), S # {}
  PROVE  Max(S) \in S /\ \A y \in S : y <= Max(S)
<1> DEFINE back == {n - i : i \in S}
<1>1. back \in SUBSET Nat /\ back # {}
  <2>1. \A i \in S : n - i \in Nat
    OBVIOUS
  <2> QED
    BY <2>1
<1>2. PICK x \in back : \A y \in back : x <= y
  BY <1>1, LeastNumber
<1>3. PICK m \in S : x = n - m
  OBVIOUS
<1>4. \A i \in S : n - m <= n - i
  BY <1>2, <1>3
<1>5. \A i \in S : m >= i
  BY <1>4
<1> QED
  BY <1>5 DEF Max

GaugeOwn(n)     == Of(n, {"g"})
GaugeSettled(n) == {i \in GaugeOwn(n) : ~seen[i].signed}
GaugeBase(n)    == IF GaugeSettled(n) = {} THEN 0 ELSE Max(GaugeSettled(n))
GaugeSince(n)   == {j \in GaugeOwn(n) : j > GaugeBase(n)}
GaugeSet(n)     == IF GaugeBase(n) = 0 THEN 0 ELSE seen[GaugeBase(n)].value
GaugeSum(n)     == SumFunction([i \in GaugeSince(n) |-> seen[i].value])

GaugeOK(n) ==
  /\ n \in DOMAIN gauges <=> GaugeOwn(n) # {}
  /\ At(gauges, n, 0) = GaugeSet(n) + GaugeSum(n)

GaugesInv == \A n \in Name : GaugeOK(n)

LEMMA GaugeShape == GaugesInv => GaugeFollowsInterval
  BY DEF GaugesInv, GaugeFollowsInterval, GaugeOK, GaugeSum, GaugeSet, GaugeSince, GaugeBase,
         GaugeSettled, GaugeOwn

LEMMA GaugeIs ==
  ASSUME SeenOK, NEW n \in Name
  PROVE  /\ GaugeOwn(n) \subseteq 1..Len(seen) /\ IsFiniteSet(GaugeOwn(n))
         /\ GaugeSettled(n) \subseteq 1..Len(seen)
         /\ GaugeBase(n) \in 0..Len(seen)
         /\ GaugeBase(n) # 0 => GaugeBase(n) \in GaugeSettled(n)
         /\ IsFiniteSet(GaugeSince(n))
         /\ \A i \in GaugeSince(n) : seen[i].value \in Int
         /\ GaugeSet(n) \in Int /\ GaugeSum(n) \in Int
<1>1. GaugeOwn(n) \subseteq 1..Len(seen) /\ IsFiniteSet(GaugeOwn(n)) /\ Len(seen) \in Nat
  BY OfIs DEF GaugeOwn, SeenOK
<1>2. GaugeSettled(n) \subseteq 1..Len(seen)
  BY <1>1 DEF GaugeSettled
<1>3. /\ GaugeBase(n) \in 0..Len(seen)
      /\ GaugeBase(n) # 0 => GaugeBase(n) \in GaugeSettled(n)
  <2>1. CASE GaugeSettled(n) = {}
    BY <2>1, <1>1 DEF GaugeBase
  <2>2. CASE GaugeSettled(n) # {}
    <3>1. Max(GaugeSettled(n)) \in GaugeSettled(n)
      BY <2>2, <1>1, <1>2, MaxIs
    <3> QED
      BY <2>2, <3>1, <1>1, <1>2 DEF GaugeBase
  <2> QED
    BY <2>1, <2>2
<1>4. IsFiniteSet(GaugeSince(n))
  <2>1. GaugeSince(n) \subseteq GaugeOwn(n)
    BY DEF GaugeSince
  <2> QED
    BY <2>1, <1>1, FS_Subset
<1>5. \A i \in 1..Len(seen) : seen[i].value \in Int
  <2>1. \A i \in 1..Len(seen) : seen[i] \in Line
    BY DEF SeenOK
  <2> QED
    BY <2>1, LineIs
<1>6. \A i \in GaugeSince(n) : seen[i].value \in Int
  BY <1>1, <1>5 DEF GaugeSince
<1>7. GaugeSet(n) \in Int
  BY <1>2, <1>3, <1>5 DEF GaugeSet
<1>8. GaugeSum(n) \in Int
  <2> DEFINE f == [i \in GaugeSince(n) |-> seen[i].value]
  <2>1. DOMAIN f = GaugeSince(n) /\ \A i \in GaugeSince(n) : f[i] \in Int
    BY <1>6
  <2> HIDE DEF f
  <2>2. SumFunctionOnSet(f, GaugeSince(n)) \in Int
    BY <2>1, <1>4, SumType
  <2> QED
    BY <2>1, <2>2 DEF GaugeSum, SumFunction, f
<1> QED
  BY <1>1, <1>2, <1>3, <1>4, <1>6, <1>7, <1>8

LEMMA GaugeBuffer ==
  ASSUME BasicInv, NEW n \in Name, GaugeOK(n), NEW l \in Line, buffer(l)
  PROVE  GaugeOK(n)'
<1> DEFINE new == Len(seen) + 1
<1>1. /\ Len(seen) \in Nat /\ seen'[new] = l
      /\ \A i \in 1..Len(seen) : seen'[i] = seen[i]
      /\ seen' = Append(seen, l) /\ SeenOK /\ new \notin 1..Len(seen)
  BY BufferIs, OneMoreSeen DEF BasicInv, SeenOK
<1>2. l.value \in Int /\ l.signed \in BOOLEAN
  BY LineIs
<1>3. /\ GaugeOwn(n) \subseteq 1..Len(seen) /\ IsFiniteSet(GaugeOwn(n))
      /\ GaugeSettled(n) \subseteq 1..Len(seen)
      /\ GaugeBase(n) \in 0..Len(seen)
      /\ GaugeBase(n) # 0 => GaugeBase(n) \in GaugeSettled(n)
      /\ IsFiniteSet(GaugeSince(n))
      /\ \A i \in GaugeSince(n) : seen[i].value \in Int
      /\ GaugeSet(n) \in Int /\ GaugeSum(n) \in Int
  BY <1>1, GaugeIs
<1>4. GaugeSince(n) \subseteq 1..Len(seen) /\ new \notin GaugeSince(n)
  BY <1>1, <1>3 DEF GaugeSince
<1>5. CASE ~IsOf(l, n, {"g"})
  <2>1. GaugeOwn(n)' = GaugeOwn(n)
    BY <1>5, <1>1, OneMoreOf DEF GaugeOwn
  <2>2. GaugeSettled(n)' = GaugeSettled(n)
    BY <2>1, <1>1, <1>3 DEF GaugeSettled
  <2>3. GaugeBase(n)' = GaugeBase(n)
    BY <2>2 DEF GaugeBase
  <2>4. GaugeSince(n)' = GaugeSince(n)
    BY <2>1, <2>3 DEF GaugeSince
  <2>5. GaugeSet(n)' = GaugeSet(n)
    BY <2>3, <1>1, <1>3 DEF GaugeSet
  <2>6. GaugeSum(n)' = GaugeSum(n)
    <3>1. [i \in GaugeSince(n) |-> seen'[i].value] = [i \in GaugeSince(n) |-> seen[i].value]
      BY <1>1, <1>4
    <3> QED
      BY <2>4, <3>1 DEF GaugeSum
  <2>7. /\ n \in DOMAIN gauges' <=> n \in DOMAIN gauges
        /\ At(gauges', n, 0) = At(gauges, n, 0)
    <3>1. CASE ~BadLine(l) /\ l.type = "g"
      <4>1. n # l.name
        BY <1>5, <3>1 DEF IsOf
      <4>2. \/ gauges' = Add(gauges, l.name, l.value)
            \/ gauges' = Put(gauges, l.name, l.value)
        BY <3>1, BufferOthers
      <4> QED
        BY <4>1, <4>2 DEF Add, Put, At
    <3>2. CASE BadLine(l) \/ l.type # "g"
      BY <3>2, BufferOthers DEF At
    <3> QED
      BY <3>1, <3>2
  <2>8. At(gauges, n, 0)' = At(gauges', n, 0)
    BY DEF At
  <2> QED
    BY <2>1, <2>5, <2>6, <2>7, <2>8 DEF GaugeOK
<1>6. CASE IsOf(l, n, {"g"}) /\ l.signed
  <2>1. GaugeOwn(n)' = GaugeOwn(n) \cup {new}
    BY <1>6, <1>1, OneMoreOf DEF GaugeOwn
  <2>2. GaugeSettled(n)' = GaugeSettled(n)
    BY <2>1, <1>1, <1>3, <1>6 DEF GaugeSettled
  <2>3. GaugeBase(n)' = GaugeBase(n)
    BY <2>2 DEF GaugeBase
  <2>4. GaugeSince(n)' = GaugeSince(n) \cup {new}
    BY <2>1, <2>3, <1>1, <1>3 DEF GaugeSince
  <2>5. GaugeSet(n)' = GaugeSet(n)
    BY <2>3, <1>1, <1>3 DEF GaugeSet
  <2>6. GaugeSum(n)' = GaugeSum(n) + l.value
    <3> DEFINE f == [i \in GaugeSince(n) |-> seen[i].value]
               g == [i \in GaugeSince(n)' |-> seen'[i].value]
    <3>1. /\ IsFiniteSet(DOMAIN f) /\ new \notin DOMAIN f
          /\ DOMAIN g = DOMAIN f \cup {new} /\ g[new] = l.value /\ g[new] \in Int
          /\ \A i \in DOMAIN f : f[i] \in Int /\ g[i] = f[i]
      BY <1>1, <1>2, <1>3, <1>4, <2>4
    <3> HIDE DEF f, g, new
    <3>2. SumFunction(g) = SumFunction(f) + g[new]
      BY <3>1, SumOneMore, Zenon
    <3> QED
      BY <3>1, <3>2 DEF GaugeSum, f, g
  <2>7. gauges' = Add(gauges, n, l.value)
    BY <1>6, BufferOthers DEF IsOf
  <2>8. n \in DOMAIN gauges' /\ At(gauges', n, 0) = At(gauges, n, 0) + l.value
    BY <2>7, <1>2 DEF Add, Put, At
  <2>9. At(gauges, n, 0)' = At(gauges', n, 0)
    BY DEF At
  <2>10. At(gauges, n, 0) = GaugeSet(n) + GaugeSum(n)
    BY DEF GaugeOK
  <2>11. At(gauges, n, 0)' = GaugeSet(n)' + GaugeSum(n)'
    BY <2>5, <2>6, <2>8, <2>9, <2>10, <1>2, <1>3
  <2>12. GaugeOwn(n)' # {}
    BY <2>1
  <2> QED
    BY <2>8, <2>11, <2>12 DEF GaugeOK
<1>7. CASE IsOf(l, n, {"g"}) /\ ~l.signed
  <2>1. GaugeOwn(n)' = GaugeOwn(n) \cup {new}
    BY <1>7, <1>1, OneMoreOf DEF GaugeOwn
  <2>2. GaugeSettled(n)' = GaugeSettled(n) \cup {new}
    BY <2>1, <1>1, <1>3, <1>7 DEF GaugeSettled
  <2>3. GaugeBase(n)' = new
    <3>1. GaugeSettled(n)' \in SUBSET (1..new) /\ GaugeSettled(n)' # {} /\ new \in Nat
      BY <2>2, <1>1, <1>3
    <3>2. /\ Max(GaugeSettled(n)') \in 1..new
          /\ new <= Max(GaugeSettled(n)')
      BY <3>1, <2>2, MaxIs
    <3>3. Max(GaugeSettled(n)') = new
      BY <3>1, <3>2
    <3> QED
      BY <3>1, <3>3 DEF GaugeBase
  <2>4. GaugeSince(n)' = {}
    BY <2>1, <2>3, <1>1, <1>3 DEF GaugeSince
  <2>5. GaugeSet(n)' = l.value
    BY <2>3, <1>1 DEF GaugeSet
  <2>6. GaugeSum(n)' = 0
    <3>1. DOMAIN [i \in GaugeSince(n)' |-> seen'[i].value] = {}
      BY <2>4
    <3> QED
      BY <3>1, SumEmpty DEF GaugeSum, SumFunction
  <2>7. gauges' = Put(gauges, n, l.value)
    BY <1>7, BufferOthers DEF IsOf
  <2>8. n \in DOMAIN gauges' /\ At(gauges', n, 0) = l.value
    BY <2>7, <1>2 DEF Put, At
  <2>9. At(gauges, n, 0)' = At(gauges', n, 0)
    BY DEF At
  <2>10. At(gauges, n, 0)' = GaugeSet(n)' + GaugeSum(n)'
    BY <2>5, <2>6, <2>8, <2>9, <1>2
  <2>11. GaugeOwn(n)' # {}
    BY <2>1
  <2> QED
    BY <2>8, <2>10, <2>11 DEF GaugeOK
<1> QED
  BY <1>5, <1>6, <1>7, <1>2

-----------------------------------------------------------------------------
(* Sorting.  A sequence of integers has a sorted permutation: the last      *)
(* element is put behind those of the sorted others that are not above it.  *)
Sorts(s, m, p) ==
  /\ \A i \in 1..m : p[i] \in 1..m
  /\ \A i, j \in 1..m : p[i] = p[j] => i = j
  /\ \A t \in 1..m : \E i \in 1..m : p[i] = t
  /\ \A i, j \in 1..m : i <= j => s[p[i]] <= s[p[j]]

LEMMA SortInsert ==
  ASSUME NEW m \in Nat, m # 0, NEW s, \A i \in 1..m : s[i] \in Int,
         NEW p, Sorts(s, m - 1, p)
  PROVE  \E q : Sorts(s, m, q)
<1> DEFINE v == s[m]
           above == {i \in 1..m - 1 : v < s[p[i]]}
<1>5. /\ \A i \in 1..m - 1 : p[i] \in 1..m - 1
      /\ \A i, j \in 1..m - 1 : p[i] = p[j] => i = j
      /\ \A t \in 1..m - 1 : \E i \in 1..m - 1 : p[i] = t
      /\ \A i, j \in 1..m - 1 : i <= j => s[p[i]] <= s[p[j]]
  BY DEF Sorts
<1>6. /\ m - 1 \in Nat /\ m >= 1 /\ v \in Int
      /\ \A i \in 1..m - 1 : p[i] \in 1..m - 1 /\ s[p[i]] \in Int
  BY <1>5
<1>7. \E k \in 0..m - 1 : /\ \A i \in 1..k : s[p[i]] <= v
                          /\ \A i \in k + 1..m - 1 : v <= s[p[i]]
  <2>1. CASE above = {}
    <3>1. \A i \in 1..m - 1 : s[p[i]] <= v
      BY <2>1, <1>6
    <3> QED
      BY <3>1, <1>6
  <2>2. CASE above # {}
    <3>1. PICK a \in above : \A y \in above : a <= y
      <4>1. above \in SUBSET Nat
        BY <1>6
      <4> HIDE DEF above
      <4> QED
        BY <2>2, <4>1, LeastNumber
    <3>2. a \in 1..m - 1 /\ v < s[p[a]]
      OBVIOUS
    <3>3. \A i \in 1..a - 1 : s[p[i]] <= v
      BY <3>1, <3>2, <1>6
    <3>4. \A i \in a..m - 1 : v <= s[p[i]]
      BY <3>2, <1>5, <1>6
    <3>5. a - 1 \in 0..m - 1 /\ (a - 1) + 1 = a
      BY <3>2, <1>6
    <3> QED
      BY <3>3, <3>4, <3>5
  <2> QED
    BY <2>1, <2>2
<1>8. PICK k \in 0..m - 1 : /\ \A i \in 1..k : s[p[i]] <= v
                            /\ \A i \in k + 1..m - 1 : v <= s[p[i]]
  BY <1>7
<1> DEFINE q == [i \in 1..m |-> IF i <= k THEN p[i] ELSE IF i = k + 1 THEN m ELSE p[i - 1]]
<1>9. /\ \A i \in 1..m : i <= k => i \in 1..m - 1 /\ q[i] = p[i]
      /\ k + 1 \in 1..m /\ q[k + 1] = m
      /\ \A i \in 1..m : i > k + 1 => i - 1 \in k + 1..m - 1 /\ i - 1 \in 1..m - 1 /\ q[i] = p[i - 1]
  BY <1>6
<1> HIDE DEF q, above, v
<1>10. \A i \in 1..m : q[i] \in 1..m
  <2> SUFFICES ASSUME NEW i \in 1..m PROVE q[i] \in 1..m
    OBVIOUS
  <2>1. CASE i <= k
    BY <2>1, <1>6, <1>9
  <2>2. CASE i = k + 1
    BY <2>2, <1>6, <1>9
  <2>3. CASE i > k + 1
    <3>1. i - 1 \in 1..m - 1 /\ q[i] = p[i - 1]
      BY <2>3, <1>9
    <3>2. p[i - 1] \in 1..m - 1
      BY <3>1, <1>6
    <3> QED
      BY <3>1, <3>2, <1>6
  <2> QED
    BY <2>1, <2>2, <2>3, <1>6
<1>11. \A i, j \in 1..m : q[i] = q[j] => i = j
  <2> SUFFICES ASSUME NEW i \in 1..m, NEW j \in 1..m, q[i] = q[j] PROVE i = j
    OBVIOUS
  <2>1. \A h \in 1..m - 1 : p[h] # m
    BY <1>5, <1>6
  <2>2. CASE i = k + 1 \/ j = k + 1
    BY <2>1, <2>2, <1>9, <1>6
  <2>3. CASE i # k + 1 /\ j # k + 1
    BY <2>3, <1>5, <1>9, <1>6
  <2> QED
    BY <2>2, <2>3
<1>12. \A t \in 1..m : \E i \in 1..m : q[i] = t
  <2> SUFFICES ASSUME NEW t \in 1..m PROVE \E i \in 1..m : q[i] = t
    OBVIOUS
  <2>1. CASE t = m
    BY <2>1, <1>9
  <2>2. CASE t # m
    <3>1. PICK i \in 1..m - 1 : p[i] = t
      BY <2>2, <1>5, <1>6
    <3>2. CASE i <= k
      BY <3>1, <3>2, <1>6, <1>9
    <3>3. CASE i > k
      <4>1. i + 1 \in 1..m /\ i + 1 > k + 1 /\ (i + 1) - 1 = i
        BY <3>3, <1>6
      <4> QED
        BY <3>1, <4>1, <1>9
    <3> QED
      BY <3>2, <3>3
  <2> QED
    BY <2>1, <2>2
<1>13. \A i, j \in 1..m : i <= j => s[q[i]] <= s[q[j]]
  <2> SUFFICES ASSUME NEW i \in 1..m, NEW j \in 1..m, i <= j PROVE s[q[i]] <= s[q[j]]
    OBVIOUS
  <2>1. s[m] = v
    BY DEF v
  <2>2. CASE i = k + 1 /\ j = k + 1
    BY <2>1, <2>2, <1>6, <1>9
  <2>3. CASE i = k + 1 /\ j > k + 1
    BY <2>1, <2>3, <1>8, <1>9
  <2>4. CASE i <= k /\ j = k + 1
    BY <2>1, <2>4, <1>8, <1>9
  <2>5. CASE i <= k /\ j <= k
    BY <2>5, <1>5, <1>9
  <2>6. CASE i <= k /\ j > k + 1
    <3>1. i <= j - 1 /\ j - 1 \in 1..m - 1 /\ i \in 1..m - 1
      BY <2>6, <1>6, <1>9
    <3>2. q[i] = p[i] /\ q[j] = p[j - 1]
      BY <2>6, <1>9
    <3>3. s[p[i]] <= s[p[j - 1]]
      BY <3>1, <1>5
    <3> QED
      BY <3>2, <3>3
  <2>7. CASE i > k + 1
    <3>1. i - 1 <= j - 1 /\ j - 1 \in 1..m - 1 /\ i - 1 \in 1..m - 1 /\ j > k + 1
      BY <2>7, <1>6, <1>9
    <3> QED
      BY <2>7, <3>1, <1>5, <1>9
  <2> QED
    BY <2>2, <2>3, <2>4, <2>5, <2>6, <2>7, <1>6
<1> QED
  BY <1>10, <1>11, <1>12, <1>13 DEF Sorts

LEMMA SortExists ==
  ASSUME NEW n \in Nat, NEW s \in [1..n -> Int]
  PROVE  \E p \in Bijection(1..n, 1..n) : \A i, j \in 1..n : i <= j => s[p[i]] <= s[p[j]]
<1> DEFINE Bad == {m \in 0..n : ~ \E p : Sorts(s, m, p)}
<1>1. Bad = {}
  <2> SUFFICES ASSUME Bad # {} PROVE FALSE
    OBVIOUS
  <2>1. PICK m \in Bad : \A y \in Bad : m <= y
    <3>1. Bad \in SUBSET Nat
      OBVIOUS
    <3> HIDE DEF Bad
    <3> QED
      BY <3>1, LeastNumber
  <2>2. m \in 0..n /\ ~ \E p : Sorts(s, m, p)
    OBVIOUS
  <2>3. m # 0
    <3>1. \A p : Sorts(s, 0, p)
      BY DEF Sorts
    <3> QED
      BY <3>1, <2>2
  <2>4. m - 1 \in 0..n
    BY <2>2, <2>3
  <2>5. ~(m <= m - 1)
    BY <2>2
  <2>6. m - 1 \notin Bad
    BY <2>1, <2>5
  <2>7. PICK p : Sorts(s, m - 1, p)
    BY <2>4, <2>6
  <2>8. m \in Nat /\ \A i \in 1..m : s[i] \in Int
    BY <2>2
  <2> QED
    BY <2>2, <2>3, <2>7, <2>8, SortInsert
<1>2. PICK p : Sorts(s, n, p)
  <2>1. n \in 0..n
    OBVIOUS
  <2> QED
    BY <1>1, <2>1, Zenon
<1> DEFINE q == [i \in 1..n |-> p[i]]
<1>3. q \in Bijection(1..n, 1..n)
  BY <1>2 DEF Bijection, Injection, Surjection, IsInjective, Sorts
<1>4. \A i, j \in 1..n : i <= j => s[q[i]] <= s[q[j]]
  BY <1>2 DEF Sorts
<1> HIDE DEF q
<1> QED
  BY <1>3, <1>4

(* A set and its image along a bijection have the same size. *)
Follows(p, S, T, A, B) ==
  /\ IsFiniteSet(S) /\ p \in Bijection(S, T)
  /\ A \subseteq S /\ B \subseteq T
  /\ \A i \in S : i \in A <=> p[i] \in B

LEMMA CountMoved ==
  ASSUME NEW S, NEW T, NEW p, NEW A, NEW B, Follows(p, S, T, A, B)
  PROVE  /\ \E q \in Bijection(A, B) : \A i \in A : q[i] = p[i]
         /\ IsFiniteSet(A) /\ IsFiniteSet(B)
         /\ Cardinality(A) = Cardinality(B)
<1> DEFINE q == [i \in A |-> p[i]]
<1>1. /\ \A i \in S : p[i] \in T
      /\ \A i, j \in S : p[i] = p[j] => i = j
      /\ \A t \in T : \E i \in S : p[i] = t
  BY DEF Follows, Bijection, Injection, Surjection, IsInjective
<1>2. q \in [A -> B] /\ \A i, j \in A : q[i] = q[j] => i = j
  BY <1>1 DEF Follows
<1>3. (\A t \in B : \E i \in A : q[i] = t) /\ \A i \in A : q[i] = p[i]
  BY <1>1 DEF Follows
<1> HIDE DEF q
<1>4. q \in Bijection(A, B)
  BY <1>2, <1>3 DEF Bijection, Injection, Surjection, IsInjective
<1>5. IsFiniteSet(A)
  BY FS_Subset DEF Follows
<1>6. ExistsBijection(A, B)
  BY <1>4 DEF ExistsBijection
<1> QED
  BY <1>3, <1>4, <1>5, <1>6, FS_Bijection

(* std::sort leaves the samples in order, each as often as before. *)
LEMMA SortedCopyIs ==
  ASSUME NEW n \in Nat, NEW s \in [1..n -> Int]
  PROVE  /\ SortedCopy(s) \in [1..n -> Int]
         /\ \A i, j \in 1..n : i <= j => SortedCopy(s)[i] <= SortedCopy(s)[j]
         /\ \E q \in Bijection(1..n, 1..n) : \A i \in 1..n : s[q[i]] = SortedCopy(s)[i]
<1> DEFINE R == {s[i] : i \in 1..n}
           As(v) == {i \in 1..n : s[i] = v}
           At2(t, v) == {i \in 1..n : t[i] = v}
           Fits(t) == /\ \A i, j \in DOMAIN t : i <= j => t[i] <= t[j]
                      /\ \A v \in {s[i] : i \in DOMAIN s} :
                           Cardinality({i \in DOMAIN s : s[i] = v})
                             = Cardinality({i \in DOMAIN t : t[i] = v})
<1>1. SortedCopy(s) = CHOOSE t \in [DOMAIN s -> {s[i] : i \in DOMAIN s}] : Fits(t)
  BY DEF SortedCopy
<1>2. DOMAIN s = 1..n /\ IsFiniteSet(1..n)
  BY FS_Interval
<1>3. \E t \in [DOMAIN s -> {s[i] : i \in DOMAIN s}] : Fits(t)
  <2>1. PICK p \in Bijection(1..n, 1..n) : \A i, j \in 1..n : i <= j => s[p[i]] <= s[p[j]]
    BY SortExists
  <2> DEFINE t == [i \in 1..n |-> s[p[i]]]
  <2>2. \A i \in 1..n : p[i] \in 1..n
    BY DEF Bijection, Injection
  <2>3. t \in [1..n -> R]
    BY <2>2
  <2>4. \A v \in R : Cardinality(As(v)) = Cardinality(At2(t, v))
    <3> SUFFICES ASSUME NEW v \in R PROVE Cardinality(As(v)) = Cardinality(At2(t, v))
      OBVIOUS
    <3> DEFINE A == At2(t, v)
               C == As(v)
               D == 1..n
    <3>1. A \subseteq D /\ C \subseteq D /\ \A i \in D : i \in A <=> p[i] \in C
      BY <2>2
    <3>2. IsFiniteSet(D) /\ p \in Bijection(D, D)
      BY <1>2
    <3> HIDE DEF A, C, D, t
    <3>3. Follows(p, D, D, A, C)
      BY <3>1, <3>2 DEF Follows
    <3>4. Cardinality(A) = Cardinality(C)
      BY <3>3, CountMoved
    <3> QED
      BY <3>4 DEF A, C
  <2>5. Fits(t)
    BY <1>2, <2>1, <2>4
  <2> HIDE DEF t
  <2> QED
    BY <1>2, <2>3, <2>5
<1> DEFINE t == SortedCopy(s)
<1>4. t \in [DOMAIN s -> {s[i] : i \in DOMAIN s}] /\ Fits(t)
  BY <1>1, <1>3
<1> HIDE DEF t
<1>5. t \in [1..n -> R] /\ \A i, j \in 1..n : i <= j => t[i] <= t[j]
  BY <1>2, <1>4
<1>6. \A v \in R : Cardinality(As(v)) = Cardinality(At2(t, v))
  BY <1>2, <1>4, <1>5
<1>7. \A v \in R : IsFiniteSet(As(v)) /\ IsFiniteSet(At2(t, v))
  BY <1>2, FS_Subset
<1> DEFINE B == [v \in R |-> CHOOSE b : b \in Bijection(At2(t, v), As(v))]
           q == [i \in 1..n |-> B[t[i]][i]]
<1>8. \A v \in R : B[v] \in Bijection(At2(t, v), As(v))
  <2> SUFFICES ASSUME NEW v \in R PROVE B[v] \in Bijection(At2(t, v), As(v))
    OBVIOUS
  <2> HIDE DEF At2, As, R
  <2>1. ExistsBijection(At2(t, v), As(v))
    BY <1>6, <1>7, FS_SameCardinalityBij
  <2> QED
    BY <2>1 DEF ExistsBijection
<1> HIDE DEF B
<1>9. \A v \in R : /\ \A i \in At2(t, v) : B[v][i] \in As(v)
                   /\ \A i, j \in At2(t, v) : B[v][i] = B[v][j] => i = j
                   /\ \A k \in As(v) : \E i \in At2(t, v) : B[v][i] = k
  <2> HIDE DEF At2, As, R
  <2> QED
    BY <1>8 DEF Bijection, Injection, Surjection, IsInjective
<1>10. \A i \in 1..n : q[i] \in 1..n /\ s[q[i]] = t[i]
  BY <1>5, <1>9
<1>11. \A i, j \in 1..n : q[i] = q[j] => i = j
  <2> SUFFICES ASSUME NEW i \in 1..n, NEW j \in 1..n, q[i] = q[j] PROVE i = j
    OBVIOUS
  <2>1. t[i] = t[j]
    BY <1>10
  <2>2. i \in At2(t, t[i]) /\ j \in At2(t, t[i]) /\ t[i] \in R
    BY <1>5, <2>1
  <2>3. B[t[i]][i] = B[t[i]][j]
    BY <2>1
  <2> QED
    BY <2>2, <2>3, <1>9
<1>12. \A k \in 1..n : \E i \in 1..n : q[i] = k
  <2> SUFFICES ASSUME NEW k \in 1..n PROVE \E i \in 1..n : q[i] = k
    OBVIOUS
  <2>1. s[k] \in R /\ k \in As(s[k])
    OBVIOUS
  <2>2. PICK i \in At2(t, s[k]) : B[s[k]][i] = k
    BY <2>1, <1>9
  <2> QED
    BY <2>2
<1>13. q \in Bijection(1..n, 1..n)
  <2>1. q = [i \in 1..n |-> q[i]]
    OBVIOUS
  <2> HIDE DEF q
  <2> QED
    BY <2>1, <1>10, <1>11, <1>12 DEF Bijection, Injection, Surjection, IsInjective
<1> HIDE DEF q
<1>14. R \subseteq Int
  OBVIOUS
<1> QED
  BY <1>5, <1>10, <1>13, <1>14 DEF t

-----------------------------------------------------------------------------
(* Percentiles. *)
LEMMA RoundedShareIs ==
  ASSUME NEW pct \in 0..100, NEW count \in Nat
  PROVE  RoundedShare(pct, count) \in 0..count
<1> DEFINE x == pct * count
<1>1. x \in Nat /\ x <= 100 * count
  <2>1. (100 - pct) * count >= 0 /\ pct * count >= 0
    OBVIOUS
  <2>2. (100 - pct) * count = 100 * count - pct * count
    OBVIOUS
  <2> QED
    BY <2>1, <2>2
<1>2. RoundedShare(pct, count) = (2 * x + 100) \div 200
  <2>1. 2 * pct * count = 2 * x
    OBVIOUS
  <2> QED
    BY <2>1 DEF RoundedShare
<1> HIDE DEF x
<1> QED
  BY <1>1, <1>2

LEMMA MinIs ==
  ASSUME NEW S, S \subseteq Int, NEW x \in S, \A y \in S : x <= y
  PROVE  Min(S) = x
<1>1. \A z \in S : (\A y \in S : z <= y) => z = x
  OBVIOUS
<1> QED
  BY <1>1 DEF Min

(* No k samples add up to less than the k smallest. *)
LEMMA SmallestSum ==
  ASSUME NEW n \in Nat, NEW t \in [1..n -> Int],
         \A i, j \in 1..n : i <= j => t[i] <= t[j], NEW d \in SUBSET (1..n)
  PROVE  SumFunctionOnSet(t, 1..Cardinality(d)) <= SumFunctionOnSet(t, d)
<1> DEFINE S == 1..n
           Fine(e) == SumFunctionOnSet(t, 1..Cardinality(e)) <= SumFunctionOnSet(t, e)
           Bad == {e \in SUBSET S : ~ Fine(e)}
<1> SUFFICES ASSUME Bad # {} PROVE FALSE
  OBVIOUS
<1>1. IsFiniteSet(S) /\ Bad \in SUBSET SUBSET S
  BY FS_Interval
<1>2. PICK b \in Bad : \A c \in Bad : c \subseteq b => c = b
  <2> HIDE DEF Bad, S
  <2> QED
    BY <1>1, LeastSubset
<1>3. b \in SUBSET S /\ ~ Fine(b)
  OBVIOUS
<1>4. IsFiniteSet(b) /\ Cardinality(b) \in Nat
  BY <1>1, <1>3, FS_Subset, FS_CardinalityType
<1>5. b # {}
  <2> SUFFICES ASSUME b = {} PROVE FALSE
    OBVIOUS
  <2>1. Cardinality(b) = 0 /\ 1..0 = {}
    BY FS_EmptySet
  <2>2. SumFunctionOnSet(t, 1..Cardinality(b)) = 0 /\ SumFunctionOnSet(t, b) = 0
    BY <2>1, SumEmpty
  <2> QED
    BY <2>2, <1>3
<1> DEFINE m == Max(b)
           k == Cardinality(b)
           r == b \ {m}
<1>6. m \in b /\ m \in 1..n /\ \A y \in b : y <= m
  BY <1>3, <1>5, MaxIs
<1>7. k \in 1..m
  <2>1. k # 0
    BY <1>4, <1>5, FS_EmptySet
  <2>2. b \subseteq 1..m
    BY <1>3, <1>6
  <2>3. IsFiniteSet(1..m) /\ Cardinality(1..m) = m
    BY <1>6, FS_Interval
  <2> DEFINE I == 1..m
  <2> HIDE DEF I, m, Bad
  <2>4. Cardinality(b) <= Cardinality(I)
    BY <2>2, <2>3, FS_Subset DEF I
  <2>5. k <= m
    BY <2>3, <2>4 DEF I
  <2> QED
    BY <1>4, <1>6, <2>1, <2>5
<1>8. r \in SUBSET S /\ r # b /\ r \subseteq b /\ IsFiniteSet(r) /\ Cardinality(r) = k - 1
  BY <1>3, <1>4, <1>6, FS_RemoveElement
<1>9. Fine(r)
  BY <1>2, <1>8
<1>10. \A i \in b : t[i] \in Int
  BY <1>3
<1>11. SumFunctionOnSet(t, b) = t[m] + SumFunctionOnSet(t, r)
  BY <1>4, <1>6, <1>10, SumRemove
<1>12. /\ IsFiniteSet(1..k) /\ k \in 1..k /\ (1..k) \ {k} = 1..(k - 1)
       /\ \A i \in 1..k : i \in 1..n /\ t[i] \in Int
  <2> HIDE DEF Bad, k, m
  <2>1. k \in Int /\ 1 \in Int /\ k \in 1..k /\ 1..k \subseteq 1..n
    BY <1>6, <1>7
  <2>2. IsFiniteSet(1..k)
    BY <2>1, FS_Interval
  <2>3. (1..k) \ {k} = 1..(k - 1)
    BY <2>1
  <2> QED
    BY <2>1, <2>2, <2>3
<1>13. SumFunctionOnSet(t, 1..k) = t[k] + SumFunctionOnSet(t, (1..k) \ {k})
  BY <1>12, SumRemove
<1>14. SumFunctionOnSet(t, r) \in Int
  BY <1>8, <1>10, SumType
<1>15. SumFunctionOnSet(t, 1..(k - 1)) \in Int
  <2>1. IsFiniteSet(1..(k - 1)) /\ \A i \in 1..(k - 1) : t[i] \in Int
    BY <1>7, <1>12, FS_Interval
  <2> QED
    BY <2>1, SumType
<1>16. t[k] <= t[m] /\ t[k] \in Int /\ t[m] \in Int
  BY <1>6, <1>7
<1>17. SumFunctionOnSet(t, 1..(k - 1)) <= SumFunctionOnSet(t, r)
  BY <1>8, <1>9
<1>18. SumFunctionOnSet(t, 1..k) = t[k] + SumFunctionOnSet(t, 1..(k - 1))
  BY <1>12, <1>13
<1> HIDE DEF Bad, m, r
<1>19. SumFunctionOnSet(t, 1..k) <= SumFunctionOnSet(t, b)
  BY <1>11, <1>14, <1>15, <1>16, <1>17, <1>18
<1> QED
  BY <1>3, <1>19

(* The k-th of the sorted samples, and the sum of the first k.  The samples  *)
(* are the values v[i], i in own, in any order.                              *)
Ordered(n, s, own, v) ==
  /\ n \in Nat /\ s \in [1..n -> Int]
  /\ \A i \in own : v[i] \in Int
  /\ \E b \in Bijection(1..n, own) : \A i \in 1..n : s[i] = v[b[i]]

LEMMA OrderedSorted ==
  ASSUME NEW n, NEW s, NEW own, NEW v, Ordered(n, s, own, v)
  PROVE  \E r \in Bijection(1..n, own) : \A i \in 1..n : SortedCopy(s)[i] = v[r[i]]
<1>1. n \in Nat /\ s \in [1..n -> Int]
  BY DEF Ordered
<1>2. PICK b \in Bijection(1..n, own) : \A i \in 1..n : s[i] = v[b[i]]
  BY DEF Ordered
<1>3. PICK q \in Bijection(1..n, 1..n) : \A i \in 1..n : s[q[i]] = SortedCopy(s)[i]
  BY <1>1, SortedCopyIs
<1> DEFINE D == 1..n
           r == [i \in D |-> b[q[i]]]
<1>4. /\ \A i \in D : b[i] \in own
      /\ \A i, j \in D : b[i] = b[j] => i = j
      /\ \A o \in own : \E i \in D : b[i] = o
  BY DEF Bijection, Injection, Surjection, IsInjective
<1>5. /\ \A i \in D : q[i] \in D
      /\ \A i, j \in D : q[i] = q[j] => i = j
      /\ \A o \in D : \E i \in D : q[i] = o
  BY DEF Bijection, Injection, Surjection, IsInjective
<1>6. \A i \in D : s[q[i]] = v[b[q[i]]]
  BY <1>2, <1>5
<1>7. \A i \in D : SortedCopy(s)[i] = v[r[i]]
  BY <1>3, <1>6
<1> HIDE DEF D
<1>8. r \in [D -> own] /\ (\A i, j \in D : r[i] = r[j] => i = j) /\ \A o \in own : \E i \in D : r[i] = o
  <2>1. \A o \in own : \E i \in D : b[q[i]] = o
    BY <1>4, <1>5
  <2> QED
    BY <1>4, <1>5, <2>1
<1> HIDE DEF r
<1>9. r \in Bijection(D, own)
  BY <1>8 DEF Bijection, Injection, Surjection, IsInjective
<1> QED
  BY <1>7, <1>9 DEF D

LEMMA RanksAre ==
  ASSUME NEW n, NEW s, NEW own, NEW v, Ordered(n, s, own, v), NEW k \in 1..n
  PROVE  /\ Cardinality(own) = n
         /\ \E i \in own : v[i] = SortedCopy(s)[k]
         /\ Cardinality({i \in own : v[i] <= SortedCopy(s)[k]}) >= k
         /\ Cardinality({i \in own : v[i] < SortedCopy(s)[k]}) < k
         /\ SumTo(SortedCopy(s), k) \in Int
         /\ \E c \in kSubset(k, own) : SumFunctionOnSet(v, c) = SumTo(SortedCopy(s), k)
         /\ \A c \in kSubset(k, own) : SumTo(SortedCopy(s), k) <= SumFunctionOnSet(v, c)
<1> DEFINE t == SortedCopy(s)
           D == 1..n
<1>1. n \in Nat /\ s \in [D -> Int] /\ \A i \in own : v[i] \in Int
  BY DEF Ordered
<1>2. t \in [D -> Int] /\ \A i, j \in D : i <= j => t[i] <= t[j]
  BY <1>1, SortedCopyIs
<1>3. PICK r \in Bijection(D, own) : \A i \in D : t[i] = v[r[i]]
  BY OrderedSorted
<1> HIDE DEF t
<1>4. IsFiniteSet(D) /\ Cardinality(D) = n
  BY <1>1, FS_Interval
<1>5. /\ \A i \in D : r[i] \in own
      /\ \A i, j \in D : r[i] = r[j] => i = j
      /\ \A o \in own : \E i \in D : r[i] = o
  BY DEF Bijection, Injection, Surjection, IsInjective
<1>6. Cardinality(own) = n /\ IsFiniteSet(own)
  BY <1>4, FS_Bijection DEF ExistsBijection
<1>7. k \in D /\ 1..k \subseteq D /\ IsFiniteSet(1..k) /\ Cardinality(1..k) = k
  BY <1>1, FS_Interval
<1>8. \E i \in own : v[i] = t[k]
  BY <1>3, <1>5, <1>7
<1>9. Cardinality({i \in own : v[i] <= t[k]}) >= k
  <2> DEFINE A == {i \in D : t[i] <= t[k]}
             B == {i \in own : v[i] <= t[k]}
  <2>1. \A i \in D : i \in A <=> r[i] \in B
    BY <1>3, <1>5
  <2>2. A \subseteq D /\ B \subseteq own /\ 1..k \subseteq A
    BY <1>2, <1>7
  <2> HIDE DEF A, B, D
  <2>3. Cardinality(A) = Cardinality(B) /\ IsFiniteSet(A)
    <3>1. Follows(r, D, own, A, B)
      BY <2>1, <2>2, <1>4 DEF Follows
    <3> QED
      BY <3>1, CountMoved
  <2>4. k <= Cardinality(A) /\ Cardinality(A) \in Nat
    BY <2>2, <2>3, <1>7, FS_Subset, FS_CardinalityType
  <2> QED
    BY <2>3, <2>4 DEF B
<1>10. Cardinality({i \in own : v[i] < t[k]}) < k
  <2> DEFINE A == {i \in D : t[i] < t[k]}
             B == {i \in own : v[i] < t[k]}
  <2>1. \A i \in D : i \in A <=> r[i] \in B
    BY <1>3, <1>5
  <2>2. A \subseteq D /\ B \subseteq own /\ A \subseteq 1..(k - 1)
    <3>1. ASSUME NEW i \in A PROVE i \in 1..(k - 1)
      <4>1. i \in D /\ k \in D /\ ~(t[k] <= t[i])
        BY <1>2, <1>7
      <4>2. ~(k <= i)
        BY <4>1, <1>2
      <4> QED
        BY <4>1, <4>2
    <3> QED
      BY <3>1
  <2>3. IsFiniteSet(1..(k - 1)) /\ Cardinality(1..(k - 1)) = k - 1
    BY FS_Interval
  <2> HIDE DEF A, B, D
  <2>4. Cardinality(A) = Cardinality(B) /\ IsFiniteSet(A)
    <3>1. Follows(r, D, own, A, B)
      BY <2>1, <2>2, <1>4 DEF Follows
    <3> QED
      BY <3>1, CountMoved
  <2>5. Cardinality(A) <= k - 1 /\ Cardinality(A) \in Nat
    BY <2>2, <2>3, <2>4, FS_Subset, FS_CardinalityType
  <2> QED
    BY <2>4, <2>5 DEF B
<1>11. SumTo(t, k) = SumFunctionOnSet(t, 1..k) /\ SumTo(t, k) \in Int
  <2>1. \A i \in 1..k : t[i] \in Int
    BY <1>2, <1>7
  <2> QED
    BY <2>1, <1>7, SumType DEF SumTo
<1>12. ASSUME NEW d, d \subseteq D, NEW c, c \subseteq own, \A i \in D : i \in d <=> r[i] \in c
       PROVE  /\ Cardinality(d) = Cardinality(c)
              /\ SumFunctionOnSet(t, d) = SumFunctionOnSet(v, c)
  <2>1. Follows(r, D, own, d, c)
    BY <1>4, <1>12 DEF Follows
  <2>2. PICK q \in Bijection(d, c) : \A i \in d : q[i] = r[i]
    BY <2>1, CountMoved
  <2>3. IsFiniteSet(d) /\ Cardinality(d) = Cardinality(c)
    BY <2>1, CountMoved
  <2>4. \A i \in d : t[i] \in Int /\ v[q[i]] = t[i]
    BY <1>2, <1>3, <1>12, <2>2
  <2> QED
    BY <2>2, <2>3, <2>4, SumMoved
<1>13. \E c \in kSubset(k, own) : SumFunctionOnSet(v, c) = SumTo(t, k)
  <2> DEFINE c == {r[i] : i \in 1..k}
  <2>1. c \subseteq own /\ \A i \in D : i \in 1..k <=> r[i] \in c
    BY <1>5, <1>7
  <2> HIDE DEF c
  <2>2. Cardinality(c) = k /\ SumFunctionOnSet(v, c) = SumTo(t, k)
    BY <2>1, <1>7, <1>11, <1>12
  <2> QED
    BY <2>1, <2>2 DEF kSubset
<1>14. \A c \in kSubset(k, own) : SumTo(t, k) <= SumFunctionOnSet(v, c)
  <2> SUFFICES ASSUME NEW c \in kSubset(k, own) PROVE SumTo(t, k) <= SumFunctionOnSet(v, c)
    OBVIOUS
  <2>1. c \subseteq own /\ Cardinality(c) = k
    BY DEF kSubset
  <2> DEFINE d == {i \in D : r[i] \in c}
  <2>2. d \subseteq D /\ \A i \in D : i \in d <=> r[i] \in c
    OBVIOUS
  <2> HIDE DEF d
  <2>3. Cardinality(d) = k /\ SumFunctionOnSet(t, d) = SumFunctionOnSet(v, c)
    BY <2>1, <2>2, <1>12
  <2>4. SumFunctionOnSet(t, 1..Cardinality(d)) <= SumFunctionOnSet(t, d)
    BY <2>2, <1>1, <1>2, SmallestSum
  <2> QED
    BY <2>3, <2>4, <1>11
<1> QED
  BY <1>6, <1>8, <1>9, <1>10, <1>11, <1>13, <1>14 DEF t

-----------------------------------------------------------------------------
(* The samples of a timer are the values of its lines.  b says at which     *)
(* line of the interval each of them came.                                  *)
Recorded(lines, own, s, b) ==
  /\ b \in Bijection(1..Len(s), own)
  /\ \A k \in 1..Len(s) : s[k] = lines[b[k]].value

TimerOK(n) ==
  LET s == At(timers, n, <<>>)
  IN  /\ s \in Seq(Int) /\ Len(s) <= Len(seen)
      /\ n \in DOMAIN timers <=> s # <<>>
      /\ \E b : Recorded(seen, Samples(n), s, b)

TimersInv ==
  /\ DOMAIN timers \subseteq Name
  /\ DOMAIN timer_counters = DOMAIN timers
  /\ \A n \in Name : TimerOK(n)

(* What process() has left. *)
DataInv ==
  /\ processed => timer_data = [name \in DOMAIN timers |-> TimerData(name)]
  /\ ~processed => timer_data = <<>>

LEMMA RecordedMore ==
  ASSUME SeenOK, NEW l \in Line, seen' = Append(seen, l), NEW n, IsOf(l, n, {"ms"}),
         NEW s \in Seq(Int), NEW b, Recorded(seen, Samples(n), s, b)
  PROVE  \E c : Recorded(seen', Samples(n)', Append(s, l.value), c)
<1> DEFINE new == Len(seen) + 1
           N == Len(s)
           w == Append(s, l.value)
           c == [k \in 1..N + 1 |-> IF k = N + 1 THEN new ELSE b[k]]
<1>1. /\ Len(seen) \in Nat /\ seen'[new] = l
      /\ \A i \in 1..Len(seen) : seen'[i] = seen[i]
  BY OneMoreSeen DEF SeenOK
<1>2. Samples(n)' = Samples(n) \cup {new} /\ Samples(n) \subseteq 1..Len(seen)
  BY OneMoreOf, OfIs DEF Samples
<1>3. l.value \in Int
  BY LineIs
<1>4. /\ N \in Nat /\ Len(w) = N + 1 /\ w[N + 1] = l.value
      /\ \A k \in 1..N : w[k] = s[k]
  BY <1>3
<1>5. /\ \A k \in 1..N : b[k] \in Samples(n) /\ s[k] = seen[b[k]].value
      /\ \A i, j \in 1..N : b[i] = b[j] => i = j
      /\ \A t \in Samples(n) : \E k \in 1..N : b[k] = t
  BY DEF Recorded, Bijection, Injection, Surjection, IsInjective
<1>6. new \notin Samples(n)
  BY <1>1, <1>2
<1>7. /\ \A k \in 1..N : k \in 1..N + 1 /\ c[k] = b[k]
      /\ N + 1 \in 1..N + 1 /\ c[N + 1] = new
      /\ \A k \in 1..N + 1 : k = N + 1 \/ k \in 1..N
      /\ c = [k \in 1..N + 1 |-> c[k]]
  BY <1>4
<1> HIDE DEF c, w, new, N
<1>8. \A k \in 1..N + 1 : c[k] \in Samples(n)'
  BY <1>2, <1>5, <1>7
<1>9. \A i, j \in 1..N + 1 : c[i] = c[j] => i = j
  BY <1>5, <1>6, <1>7
<1>10. \A t \in Samples(n)' : \E k \in 1..N + 1 : c[k] = t
  BY <1>2, <1>5, <1>7
<1>11. c \in Bijection(1..N + 1, Samples(n)')
  BY <1>7, <1>8, <1>9, <1>10 DEF Bijection, Injection, Surjection, IsInjective
<1>12. \A k \in 1..N + 1 : w[k] = seen'[c[k]].value
  <2> SUFFICES ASSUME NEW k \in 1..N + 1 PROVE w[k] = seen'[c[k]].value
    OBVIOUS
  <2>1. CASE k = N + 1
    BY <2>1, <1>1, <1>4, <1>7
  <2>2. CASE k \in 1..N
    <3>1. c[k] = b[k] /\ b[k] \in 1..Len(seen) /\ w[k] = seen[b[k]].value
      BY <2>2, <1>2, <1>4, <1>5, <1>7
    <3> QED
      BY <3>1, <1>1
  <2> QED
    BY <2>1, <2>2, <1>7
<1>13. Recorded(seen', Samples(n)', w, c)
  BY <1>4, <1>11, <1>12 DEF Recorded
<1> QED
  BY <1>13 DEF w

LEMMA RecordedSame ==
  ASSUME SeenOK, NEW l \in Line, seen' = Append(seen, l), NEW n, ~IsOf(l, n, {"ms"}),
         NEW s, NEW b, Recorded(seen, Samples(n), s, b)
  PROVE  Recorded(seen', Samples(n)', s, b)
<1>1. \A i \in 1..Len(seen) : seen'[i] = seen[i]
  BY OneMoreSeen
<1>2. Samples(n)' = Samples(n) /\ Samples(n) \subseteq 1..Len(seen)
  BY OneMoreOf, OfIs DEF Samples
<1>3. \A k \in 1..Len(s) : b[k] \in Samples(n)
  BY DEF Recorded, Bijection, Injection
<1> QED
  BY <1>1, <1>2, <1>3 DEF Recorded

LEMMA TimerBuffer ==
  ASSUME SeenOK, NEW n \in Name, TimerOK(n), NEW l \in Line, buffer(l)
  PROVE  TimerOK(n)'
<1> DEFINE s == At(timers, n, <<>>)
           w == At(timers', n, <<>>)
<1>1. s \in Seq(Int) /\ Len(s) \in Nat /\ Len(s) <= Len(seen) /\ (n \in DOMAIN timers <=> s # <<>>)
  BY DEF TimerOK
<1>2. PICK b : Recorded(seen, Samples(n), s, b)
  BY DEF TimerOK
<1>3. seen' = Append(seen, l) /\ Len(seen') = Len(seen) + 1 /\ Len(seen) \in Nat
  BY BufferIs, OneMoreSeen DEF SeenOK
<1>4. CASE IsOf(l, n, {"ms"})
  <2>1. timers' = Put(timers, n, Append(s, l.value))
    BY <1>4, BufferOthers DEF IsOf
  <2>2. w = Append(s, l.value) /\ n \in DOMAIN timers'
    BY <2>1 DEF Put, At
  <2> HIDE DEF s, w
  <2>3. \E c : Recorded(seen', Samples(n)', Append(s, l.value), c)
    BY <1>1, <1>2, <1>3, <1>4, RecordedMore
  <2>4. w \in Seq(Int) /\ Len(w) = Len(s) + 1 /\ w # <<>>
    <3>1. l.value \in Int
      BY LineIs
    <3>2. w \in Seq(Int) /\ Len(w) = Len(s) + 1
      BY <3>1, <2>2, <1>1
    <3>3. Len(w) # 0
      BY <3>2, <1>1
    <3> QED
      BY <3>2, <3>3
  <2>5. \E c : Recorded(seen', Samples(n)', w, c)
    BY <2>2, <2>3
  <2>6. At(timers, n, <<>>)' = w
    BY DEF w, At
  <2> QED
    <3>1. Len(w) <= Len(seen')
      BY <2>4, <1>1, <1>3
    <3> QED
      BY <2>2, <2>4, <2>5, <2>6, <3>1, Zenon DEF TimerOK
<1>5. CASE ~IsOf(l, n, {"ms"})
  <2>1. w = s /\ (n \in DOMAIN timers' <=> n \in DOMAIN timers)
    <3>1. CASE ~BadLine(l) /\ l.type = "ms"
      <4>1. n # l.name
        BY <1>5, <3>1 DEF IsOf
      <4>2. timers' = Put(timers, l.name, Append(At(timers, l.name, <<>>), l.value))
        BY <3>1, BufferOthers
      <4> QED
        BY <4>1, <4>2 DEF Put, At
    <3>2. CASE BadLine(l) \/ l.type # "ms"
      BY <3>2, BufferOthers DEF At
    <3> QED
      BY <3>1, <3>2
  <2>2. At(timers, n, <<>>)' = w
    BY DEF At
  <2> HIDE DEF s, w
  <2>3. Recorded(seen', Samples(n)', s, b)
    BY <1>2, <1>3, <1>5, RecordedSame
  <2>4. \E c : Recorded(seen', Samples(n)', w, c)
    BY <2>1, <2>3
  <2> QED
    BY <2>1, <2>2, <2>4, <1>1, <1>3 DEF TimerOK
<1> QED
  BY <1>4, <1>5

LEMMA TimersBuffer ==
  ASSUME SeenOK, TimersInv, NEW l \in Line, buffer(l)
  PROVE  TimersInv'
<1>1. \A n \in Name : TimerOK(n)'
  BY TimerBuffer DEF TimersInv
<1>2. l.name \in Name
  BY LineIs
<1>3. DOMAIN timers' \subseteq Name /\ DOMAIN timer_counters' = DOMAIN timers'
  <2>1. CASE ~BadLine(l) /\ l.type = "ms"
    <3> DEFINE w == Append(At(timers, l.name, <<>>), l.value)
               d == InverseRate(l)
    <3>1. timers' = Put(timers, l.name, w) /\ timer_counters' = Add(timer_counters, l.name, d)
      BY <2>1, BufferOthers
    <3> HIDE DEF w, d
    <3>2. /\ DOMAIN timers' = DOMAIN timers \cup {l.name}
          /\ DOMAIN timer_counters' = DOMAIN timer_counters \cup {l.name}
      BY <3>1 DEF Put, Add
    <3> QED
      BY <3>2, <1>2 DEF TimersInv
  <2>2. CASE BadLine(l) \/ l.type # "ms"
    BY <2>2, BufferOthers DEF TimersInv
  <2> QED
    BY <2>1, <2>2
<1> QED
  BY <1>1, <1>3 DEF TimersInv

(* An empty ledger has no samples. *)
LEMMA NothingRecorded ==
  ASSUME NEW n PROVE \E b : Recorded(<<>>, {}, <<>>, b)
<1> DEFINE b == [k \in {} |-> 0]
<1>1. 1..Len(<<>>) = {}
  OBVIOUS
<1>2. b \in Bijection({}, {})
  BY DEF Bijection, Injection, Surjection, IsInjective
<1> HIDE DEF b
<1> QED
  BY <1>1, <1>2 DEF Recorded

LEMMA TimersEmpty ==
  ASSUME timers = <<>>, timer_counters = <<>>, seen = <<>>
  PROVE  TimersInv
<1> SUFFICES ASSUME NEW n \in Name PROVE TimerOK(n)
  BY EmptyMap DEF TimersInv
<1>1. At(timers, n, <<>>) = <<>> /\ n \notin DOMAIN timers
  BY EmptyMap DEF At
<1>2. Samples(n) = {}
  BY EmptyMap DEF Samples, Of
<1>3. \E b : Recorded(seen, Samples(n), <<>>, b)
  BY <1>2, NothingRecorded
<1>4. <<>> \in Seq(Int) /\ Len(<<>>) <= Len(seen)
  OBVIOUS
<1> QED
  BY <1>1, <1>3, <1>4 DEF TimerOK

LEMMA TimersKept ==
  ASSUME TimersInv, UNCHANGED <<timers, timer_counters, seen>>
  PROVE  TimersInv'
<1>1. \A n \in Name : TimerOK(n)' <=> TimerOK(n)
  <2> SUFFICES ASSUME NEW n \in Name PROVE TimerOK(n)' <=> TimerOK(n)
    OBVIOUS
  <2>1. Samples(n)' = Samples(n) /\ At(timers, n, <<>>)' = At(timers, n, <<>>)
    BY UnseenOf DEF Samples, At
  <2> QED
    BY <2>1 DEF TimerOK
<1> QED
  BY <1>1 DEF TimersInv

-----------------------------------------------------------------------------
Inv == BasicInv /\ SumsInv /\ GaugesInv /\ TimersInv /\ DataInv

(* The properties of an empty ledger. *)
LEMMA InvEmpty == Init => Inv
<1> SUFFICES ASSUME Init PROVE Inv
  OBVIOUS
<1>1. BasicInv /\ SeenOK
  BY BasicEmpty DEF Init, BasicInv
<1>2. TimersInv /\ DataInv
  BY TimersEmpty DEF Init, DataInv
<1>3. \A n, tys : Of(n, tys) = {}
  BY EmptyMap DEF Init, Of
<1>4. SumsInv
  <2>1. \A n : n \notin DOMAIN counters /\ At(counters, n, 0) = 0
    BY EmptyMap DEF Init, At
  <2>2. SumFunction(frequency) = 0
    BY EmptyMap, SumEmpty DEF Init, SumFunction
  <2>3. \A n : SumFunction([i \in Of(n, {"c", "other"}) |-> seen[i].value *
                   (IF seen[i].rateAfterBar THEN seen[i].inverse ELSE 1)]) = 0
    BY <1>3, SumEmpty DEF SumFunction
  <2> QED
    BY <1>3, <2>1, <2>2, <2>3 DEF SumsInv, Init
<1>5. GaugesInv
  <2> SUFFICES ASSUME NEW n \in Name PROVE GaugeOK(n)
    BY DEF GaugesInv
  <2>1. n \notin DOMAIN gauges /\ At(gauges, n, 0) = 0
    BY EmptyMap DEF Init, At
  <2>2. GaugeOwn(n) = {}
    BY <1>3 DEF GaugeOwn
  <2>3. GaugeSet(n) = 0
    BY <2>2 DEF GaugeSet, GaugeBase, GaugeSettled
  <2>4. GaugeSum(n) = 0
    <3>1. DOMAIN [i \in GaugeSince(n) |-> seen[i].value] = {}
      BY <2>2 DEF GaugeSince
    <3> QED
      BY <3>1, SumEmpty DEF GaugeSum, SumFunction
  <2> QED
    BY <2>1, <2>2, <2>3, <2>4 DEF GaugeOK
<1> QED
  BY <1>1, <1>2, <1>4, <1>5 DEF Inv

(* A new ledger is an empty one. *)
LEMMA RenewIsInit == Renew => Init'
  BY DEF Renew, Init

LEMMA InvQuiet ==
  ASSUME Inv, UNCHANGED <<metrics_processed, frequency, counters, timers,
                          timer_counters, gauges, sets, seen>>
  PROVE  SumsInv' /\ GaugesInv' /\ TimersInv'
<1>1. \A n, tys : Of(n, tys)' = Of(n, tys)
  BY UnseenOf
<1>2. SumsInv'
  BY <1>1 DEF Inv, SumsInv, At
<1>3. GaugesInv'
  <2> SUFFICES ASSUME NEW n \in Name PROVE GaugeOK(n)'
    BY DEF GaugesInv
  <2>1. GaugeOK(n)
    BY DEF Inv, GaugesInv
  <2> QED
    BY <2>1, <1>1 DEF GaugeOK, GaugeSum, GaugeSet, GaugeSince, GaugeBase, GaugeSettled,
                      GaugeOwn, At
<1> QED
  BY <1>2, <1>3, TimersKept DEF Inv

LEMMA InvStep == Inv /\ [Next]_vars => Inv'
<1> SUFFICES ASSUME Inv, [Next]_vars PROVE Inv'
  OBVIOUS
<1>1. BasicInv /\ SeenOK
  BY DEF Inv, BasicInv
<1>2. ASSUME NEW l \in Line, buffer(l) PROVE Inv'
  <2>1. BasicInv' /\ SumsInv' /\ TimersInv'
    BY <1>1, <1>2, BasicBuffer, CountersBuffer, TimersBuffer DEF Inv
  <2>2. GaugesInv'
    <3> SUFFICES ASSUME NEW n \in Name PROVE GaugeOK(n)'
      BY DEF GaugesInv
    <3>1. GaugeOK(n)
      BY DEF Inv, GaugesInv
    <3> QED
      BY <3>1, <1>1, <1>2, GaugeBuffer
  <2>3. DataInv'
    BY <1>1, <1>2, BufferIs DEF Inv, DataInv
  <2> QED
    BY <2>1, <2>2, <2>3 DEF Inv
<1>3. CASE process
  <2>1. UNCHANGED <<metrics_processed, frequency, counters, timers,
                    timer_counters, gauges, sets, seen>>
    BY <1>3 DEF process
  <2>2. SumsInv' /\ GaugesInv' /\ TimersInv'
    BY <2>1, InvQuiet
  <2>3. BasicInv'
    BY <1>1, <1>3 DEF process, BasicInv, SeenOK, Rates
  <2>4. DataInv'
    BY <1>3 DEF process, DataInv, TimerData
  <2> QED
    BY <2>2, <2>3, <2>4 DEF Inv
<1>4. CASE Renew
  <2>1. Init'
    BY <1>4, RenewIsInit
  <2> QED
    BY <2>1, InvEmpty, PTL
<1>5. CASE UNCHANGED vars
  <2>1. SumsInv' /\ GaugesInv' /\ TimersInv'
    BY <1>5, InvQuiet DEF vars
  <2>2. BasicInv'
    BY <1>1, <1>5 DEF vars, BasicInv, SeenOK, Rates
  <2>3. DataInv'
    BY <1>5 DEF Inv, vars, DataInv, TimerData
  <2> QED
    BY <2>1, <2>2, <2>3 DEF Inv
<1> QED
  BY <1>2, <1>3, <1>4, <1>5 DEF Next

LEMMA InvAlways == Spec => []Inv
  BY InvEmpty, InvStep, PTL DEF Spec

(* The nine maps keep their types, for any lines and bounds: no entry is    *)
(* made for a name without a line, and every rate has its counter.          *)
THEOREM TypeCorrect == Spec => []TypeOK
<1>1. Inv => TypeOK
  <2> SUFFICES ASSUME Inv PROVE TypeOK
    OBVIOUS
  <2>1. Len(seen) \in Nat /\ MaxTimers \in Nat /\ Len(seen) <= MaxTimers
    BY LedgerAssumption DEF Inv, BasicInv, SeenOK
  <2>2. \A n \in DOMAIN timers : n \in Name /\ Len(timers[n]) \in 1..MaxTimers
    <3> SUFFICES ASSUME NEW n \in DOMAIN timers
                 PROVE  n \in Name /\ Len(timers[n]) \in 1..MaxTimers
      OBVIOUS
    <3>1. n \in Name /\ TimerOK(n)
      BY DEF Inv, TimersInv
    <3>2. timers[n] \in Seq(Int) /\ Len(timers[n]) <= Len(seen) /\ timers[n] # <<>>
      BY <3>1 DEF TimerOK, At
    <3>3. Len(timers[n]) \in Nat /\ Len(timers[n]) # 0
      BY <3>2
    <3> QED
      BY <3>1, <3>2, <3>3, <2>1
  <2>3. metrics_processed \in 0..MaxTimers
    BY <2>1 DEF Inv, BasicInv
  <2>4. frequency \in [DOMAIN frequency -> 1..MaxTimers]
    <3>1. \A n \in DOMAIN frequency : frequency[n] \in 1..MaxTimers
      BY <2>1 DEF Inv, BasicInv
    <3> QED
      BY <3>1 DEF Inv, BasicInv
  <2>5. DOMAIN timer_counters = DOMAIN timers
    BY DEF Inv, TimersInv
  <2>6. processed => DOMAIN counter_rates = DOMAIN counters
    BY DEF Inv, BasicInv, Rates
  <2> QED
    BY <2>2, <2>3, <2>4, <2>5, <2>6 DEF TypeOK, Inv, BasicInv, SeenOK
<1> QED
  BY <1>1, InvAlways, PTL

(* For any lines, in any order, a counter whose rates have a field of their *)
(* own is the sum of its lines, each scaled by its rate, and every line is  *)
(* counted under its name or as a bad line (ledger.cc:89-95, 118-121).      *)
THEOREM CountersSumUp == Spec => []CountersAreSums
<1>1. Inv => CountersAreSums
  <2> SUFFICES ASSUME Inv PROVE CountersAreSums
    OBVIOUS
  <2>1. /\ \A n \in Name : n \in DOMAIN counters <=> CounterLines(n) # {}
        /\ metrics_processed = SumFunction(frequency) + At(counters, BadLinesSeen, 0)
    BY DEF Inv, SumsInv, CounterLines
  <2>2. ASSUME NEW n \in Name,
               \A i \in CounterLines(n) : seen[i].rateAfterBar \/ seen[i].inverse = 1
        PROVE  At(counters, n, 0) = ScaledSum(n)
    <3> DEFINE own == CounterLines(n)
               f == [i \in own |-> seen[i].value *
                           (IF seen[i].rateAfterBar THEN seen[i].inverse ELSE 1)]
               g == [i \in own |-> seen[i].value * seen[i].inverse]
    <3>1. At(counters, n, 0) = SumFunction(f)
      BY DEF Inv, SumsInv, CounterLines
    <3>2. \A i \in own : (IF seen[i].rateAfterBar THEN seen[i].inverse ELSE 1) = seen[i].inverse
      BY <2>2
    <3>3. f = g
      BY <3>2
    <3> QED
      BY <3>1, <3>3 DEF ScaledSum
  <2> QED
    BY <2>1, <2>2 DEF CountersAreSums
<1> QED
  BY <1>1, InvAlways, PTL

(* For any lines, in any order, a gauge is the last value set in the        *)
(* interval plus the changes after it (ledger.cc:103-113).                  *)
THEOREM GaugesFollow == Spec => []GaugeFollowsInterval
<1>1. Inv => GaugeFollowsInterval
  BY GaugeShape DEF Inv
<1> QED
  BY <1>1, InvAlways, PTL

(* For any samples and any percentiles from -100 to 100, what process()     *)
(* reports of a timer with several samples is the percentile of the         *)
(* reference definition (ledger.cc:147-198).                                *)
THEOREM RanksCorrect == Spec => []PercentilesAreRanks
<1>1. Inv => PercentilesAreRanks
  <2> SUFFICES ASSUME Inv, NEW n \in DOMAIN timer_data, NEW p \in DOMAIN timer_data[n].pct,
                      Cardinality(Samples(n)) > 1
               PROVE  LET own == Samples(n)
                          t   == timer_data[n].pct[p]
                      IN  /\ t.count \in 1..Cardinality(own)
                          /\ \E i \in own : seen[i].value = t.upper
                          /\ Cardinality({i \in own : seen[i].value <= t.upper}) >= t.count
                          /\ Cardinality({i \in own : seen[i].value < t.upper}) < t.count
                          /\ t.sum = Min({SumFunction([i \in c |-> seen[i].value]) :
                                            c \in kSubset(t.count, own)})
    BY DEF PercentilesAreRanks
  <2> DEFINE own == Samples(n)
             t   == timer_data[n].pct[p]
             s   == timers[n]
             N   == Len(s)
             v   == [i \in own |-> seen[i].value]
  <2>1. processed /\ n \in DOMAIN timers /\ timer_data[n] = TimerData(n)
    BY EmptyMap DEF Inv, DataInv
  <2>2. n \in Name /\ TimerOK(n) /\ SeenOK
    BY <2>1 DEF Inv, TimersInv, BasicInv
  <2>3. s \in Seq(Int) /\ N \in Nat /\ s \in [1..N -> Int]
    BY <2>1, <2>2 DEF TimerOK, At
  <2>4. PICK b : Recorded(seen, own, s, b)
    BY <2>1, <2>2 DEF TimerOK, At
  <2>5. \A i \in own : seen[i].value \in Int
    <3>1. \A i \in own : seen[i] \in Line
      BY <2>2, OfIs DEF Samples
    <3> QED
      BY <3>1, LineIs
  <2>6. Ordered(N, s, own, v)
    <3>1. \A i \in 1..N : b[i] \in own
      BY <2>4 DEF Recorded, Bijection, Injection
    <3>2. \A i \in 1..N : s[i] = v[b[i]]
      BY <2>4, <3>1 DEF Recorded
    <3>3. \A i \in own : v[i] \in Int
      BY <2>5
    <3>4. b \in Bijection(1..N, own)
      BY <2>4 DEF Recorded
    <3> HIDE DEF v, own, N, s
    <3> QED
      BY <2>3, <3>2, <3>3, <3>4 DEF Ordered
  <2> DEFINE values == SortedCopy(s)
  <2>7. values \in [1..N -> Int] /\ Len(values) = N
    <3>1. values \in [1..N -> Int]
      BY <2>3, SortedCopyIs
    <3> HIDE DEF values, N
    <3> QED
      BY <3>1, <2>3
  <2>8. t = Percentile(values, p) /\ p \in Reported(N)
    BY <2>1, <2>7 DEF TimerData
  <2>9. p \in 0..100 /\ (N > 1 => RoundedShare(p, N) # 0)
    <3>1. Percentiles \subseteq -100..100
      BY LedgerAssumption
    <3>2. PICK o \in Percentiles : p = Magnitude(o)
      BY <2>8 DEF Reported
    <3>3. o \in -100..100
      BY <3>1
    <3>4. p \in 0..100
      BY <3>2, <3>3 DEF Magnitude
    <3> QED
      BY <3>4, <2>8 DEF Reported
  <2> DEFINE k == RoundedShare(p, N)
  <2>10. N > 1 => k \in 1..N
    <3> HIDE DEF N
    <3>1. k \in 0..N
      BY <2>3, <2>9, RoundedShareIs
    <3> QED
      BY <2>9, <2>3, <3>1
  <2>11. N > 1
    <3>1. ExistsBijection(1..N, own)
      BY <2>4 DEF Recorded, ExistsBijection
    <3>2. Cardinality(own) = N
      BY <2>3, <3>1, FS_CountingElements
    <3> QED
      BY <3>2
  <2>12. t.count = k /\ t.upper = values[k] /\ t.sum = SumTo(values, k)
    BY <2>7, <2>8, <2>11 DEF Percentile
  <2> HIDE DEF t, k, v, N, s
  <2>13. /\ Cardinality(own) = N
         /\ \E i \in own : v[i] = values[k]
         /\ Cardinality({i \in own : v[i] <= values[k]}) >= k
         /\ Cardinality({i \in own : v[i] < values[k]}) < k
         /\ SumTo(values, k) \in Int
         /\ \E c \in kSubset(k, own) : SumFunctionOnSet(v, c) = SumTo(values, k)
         /\ \A c \in kSubset(k, own) : SumTo(values, k) <= SumFunctionOnSet(v, c)
    BY <2>6, <2>10, <2>11, RanksAre
  <2>14. /\ {i \in own : v[i] <= values[k]} = {i \in own : seen[i].value <= values[k]}
         /\ {i \in own : v[i] < values[k]} = {i \in own : seen[i].value < values[k]}
         /\ \A i \in own : v[i] = seen[i].value
    BY DEF v
  <2>15. \A c \in kSubset(k, own) :
           /\ SumFunction([i \in c |-> seen[i].value]) = SumFunctionOnSet(v, c)
           /\ SumFunctionOnSet(v, c) \in Int
    <3> SUFFICES ASSUME NEW c \in kSubset(k, own)
                 PROVE  /\ SumFunction([i \in c |-> seen[i].value]) = SumFunctionOnSet(v, c)
                        /\ SumFunctionOnSet(v, c) \in Int
      OBVIOUS
    <3> DEFINE f == [i \in c |-> seen[i].value]
    <3>1. c \subseteq own
      BY DEF kSubset
    <3>2. IsFiniteSet(c)
      BY <3>1, <2>2, OfIs, FS_Subset DEF Samples
    <3>3. DOMAIN f = c /\ \A i \in c : v[i] \in Int /\ f[i] = v[i]
      BY <3>1, <2>5, <2>14
    <3> HIDE DEF f
    <3>4. SumFunctionOnSet(v, c) = SumFunctionOnSet(f, c) /\ SumFunctionOnSet(v, c) \in Int
      BY <3>2, <3>3, SumSame, SumType
    <3> QED
      BY <3>3, <3>4 DEF SumFunction, f
  <2> DEFINE sums == {SumFunction([i \in c |-> seen[i].value]) : c \in kSubset(k, own)}
  <2>16. sums \subseteq Int /\ SumTo(values, k) \in sums /\ \A y \in sums : SumTo(values, k) <= y
    BY <2>13, <2>15
  <2> HIDE DEF sums
  <2>17. Min(sums) = SumTo(values, k)
    BY <2>16, MinIs
  <2> QED
    BY <2>10, <2>11, <2>12, <2>13, <2>14, <2>17 DEF t, sums
<1> QED
  BY <1>1, InvAlways, PTL
=============================================================================

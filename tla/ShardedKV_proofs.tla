-------------------------- MODULE ShardedKV_proofs --------------------------
(***************************************************************************)
(* Proofs about shards and their difficulty, for shards of any size, any   *)
(* prices and any parameters of the difficulty.                            *)
(***************************************************************************)
EXTENDS ShardedKV, DecentralizedKV_proofs

(***************************************************************************)
(* Quotients.                                                              *)
(***************************************************************************)
LEMMA QuotientRange ==
  ASSUME NEW a \in Nat, NEW d \in Nat \ {0}
  PROVE  /\ a \div d \in Nat
         /\ d * (a \div d) <= a
         /\ a < d * (a \div d) + d
         /\ d * (a \div d) \in Nat
         /\ a % d = a - d * (a \div d)
OBVIOUS

LEMMA QuotientMonotone ==
  ASSUME NEW a \in Nat, NEW b \in Nat, NEW d \in Nat \ {0}, a <= b
  PROVE  a \div d <= b \div d
<1> DEFINE q == a \div d
           r == b \div d
<1>1. q \in Nat /\ d * q <= a
  BY QuotientRange
<1>2. r \in Nat /\ b < d * r + d
  BY QuotientRange
<1> HIDE DEF q, r
<1>3. SUFFICES ASSUME r < q PROVE FALSE
  BY <1>1, <1>2 DEF q, r
<1>4. PICK e \in Nat : q = r + 1 + e
  <2>1. q - r - 1 \in Nat /\ q = r + 1 + (q - r - 1)
    BY <1>1, <1>2, <1>3
  <2> QED BY <2>1
<1>5. d * q = d * r + d + d * e
  BY <1>1, <1>2, <1>4
<1>6. d * e \in Nat /\ d * r \in Nat
  BY <1>2, <1>4
<1> QED BY <1>1, <1>2, <1>5, <1>6

(***************************************************************************)
(* The quotient of the next number is the next one or the same.            *)
(***************************************************************************)
LEMMA QuotientOfNext ==
  ASSUME NEW n \in Nat, NEW m \in Nat, m = n + 1, NEW d \in Nat \ {0}
  PROVE  /\ m % d = 0 => m \div d = n \div d + 1
         /\ m % d # 0 => m \div d = n \div d
<1> DEFINE q == n \div d
           r == m \div d
<1>1. q \in Nat /\ d * q <= n /\ n < d * q + d /\ d * q \in Nat
  BY QuotientRange
<1>2. r \in Nat /\ d * r <= m /\ m < d * r + d /\ d * r \in Nat
      /\ m % d = m - d * r
  BY QuotientRange
<1>3. q <= r
  BY QuotientMonotone
<1> HIDE DEF q, r
<1>4. r <= q + 1
  <2>1. SUFFICES ASSUME r > q + 1 PROVE FALSE
    BY <1>1, <1>2
  <2>2. PICK e \in Nat : r = q + 2 + e
    <3>1. r - q - 2 \in Nat /\ r = q + 2 + (r - q - 2)
      BY <1>1, <1>2, <2>1
    <3> QED BY <3>1
  <2>3. d * r = d * q + d + d + d * e /\ d * e \in Nat
    BY <1>1, <2>2
  <2> QED BY <2>3, <1>1, <1>2
<1>5. r = q \/ r = q + 1
  BY <1>1, <1>2, <1>3, <1>4
<1>6. CASE r = q
  <2>1. d * r = d * q
    BY <1>6
  <2>2. m % d # 0
    BY <2>1, <1>1, <1>2
  <2> QED BY <2>2, <1>6 DEF q, r
<1>7. CASE r = q + 1
  <2>1. d * r = d * q + d
    BY <1>7, <1>1
  <2>2. m % d = 0
    BY <2>1, <1>1, <1>2
  <2> QED BY <2>2, <1>7 DEF q, r
<1> QED BY <1>5, <1>6, <1>7
-----------------------------------------------------------------------------
(***************************************************************************)
(* Sums over finite sets.                                                  *)
(***************************************************************************)
pick(q) == CHOOSE x \in q : TRUE

SumsUp(f, g, S) ==
  f = [q \in SUBSET S |-> IF q = {} THEN 0 ELSE g[pick(q)] + f[q \ {pick(q)}]]

LEMMA Smaller ==
  ASSUME NEW S, IsFiniteSet(S), NEW x \in S
  PROVE  /\ IsFiniteSet(S \ {x}) /\ Cardinality(S \ {x}) \in Nat
         /\ Cardinality(S) \in Nat /\ Cardinality(S \ {x}) < Cardinality(S)
<1>1. Cardinality(S) \in Nat /\ IsFiniteSet(S \ {x}) /\ Cardinality(S \ {x}) \in Nat
  BY FS_CardinalityType, FS_Subset
<1>2. Cardinality(S \ {x}) = Cardinality(S) - 1
  BY FS_RemoveElement
<1> QED BY <1>1, <1>2

LEMMA PickIn == ASSUME NEW q, q # {} PROVE pick(q) \in q
BY DEF pick

LEMMA SumsUpAt ==
  ASSUME NEW S, NEW g, NEW f, SumsUp(f, g, S), NEW q \in SUBSET S
  PROVE  f[q] = IF q = {} THEN 0 ELSE g[pick(q)] + f[q \ {pick(q)}]
BY DEF SumsUp

LEMMA SumExists ==
  ASSUME NEW S, IsFiniteSet(S), NEW g, \A x \in S : g[x] \in Nat
  PROVE  \E f \in [SUBSET S -> Nat] : SumsUp(f, g, S)
<1> DEFINE D == SUBSET S
           m == [q \in D |-> Cardinality(q)]
           next == [q \in D |-> q \ {pick(q)}]
           out == [q \in D |-> 0]
           step == [q \in D |-> [r \in Nat |-> IF q = {} THEN 0 ELSE g[pick(q)] + r]]
<1>1. \A q \in D : IsFiniteSet(q) /\ Cardinality(q) \in Nat /\ (Cardinality(q) = 0 <=> q = {})
  BY FS_Subset, FS_CardinalityType, FS_EmptySet
<1>2. m \in [D -> Nat] /\ next \in [D -> D] /\ out \in [D -> Nat]
  BY <1>1
<1>3. step \in [D -> [Nat -> Nat]]
  BY PickIn
<1>4. Decreases(D, m, next)
  <2> SUFFICES ASSUME NEW q \in D, m[q] # 0 PROVE m[next[q]] < m[q]
    BY DEF Decreases
  <2>1. q # {} /\ pick(q) \in q
    BY <1>1, PickIn
  <2> QED BY <2>1, <1>1, Smaller
<1>5. PICK f \in [D -> Nat] : Recursive(f, D, m, next, out, step)
  <2> HIDE DEF D, m, next, out, step
  <2> QED BY <1>2, <1>3, <1>4, Recursion, Zenon
<1>6. \A q \in D : f[q] = IF q = {} THEN 0 ELSE g[pick(q)] + f[q \ {pick(q)}]
  BY <1>1, <1>5 DEF Recursive
<1> QED BY <1>6 DEF SumsUp

LEMMA SumIs ==
  ASSUME NEW S, IsFiniteSet(S), NEW g, \A x \in S : g[x] \in Nat
  PROVE  \E f \in [SUBSET S -> Nat] : SumsUp(f, g, S) /\ SumFunctionOnSet(g, S) = f[S]
<1> DEFINE f == CHOOSE f : SumsUp(f, g, S)
<1>1. SumFunctionOnSet(g, S) = f[S]
  BY Zenon DEF SumsUp, pick, SumFunctionOnSet, FoldFunctionOnSet, MapThenFoldSet
<1>2. SumsUp(f, g, S)
  BY SumExists, Zenon
<1> HIDE DEF f
<1> DEFINE T == {Cardinality(q) : q \in {q \in SUBSET S : f[q] \notin Nat}}
<1>3. f \in [SUBSET S -> Nat]
  <2>1. SUFFICES ASSUME NEW q0 \in SUBSET S, f[q0] \notin Nat PROVE FALSE
    BY <1>2 DEF SumsUp
  <2>2. \A q \in SUBSET S : IsFiniteSet(q) /\ Cardinality(q) \in Nat
    BY FS_Subset, FS_CardinalityType
  <2>3. T # {} /\ T \subseteq Nat
    BY <2>1, <2>2
  <2>4. PICK n \in T : \A k \in T : n <= k
    BY <2>3, LeastElement
  <2>5. PICK q \in SUBSET S : n = Cardinality(q) /\ f[q] \notin Nat
    BY <2>4
  <2>6. q # {} /\ f[q] = g[pick(q)] + f[q \ {pick(q)}]
    <3> HIDE DEF T
    <3>1. f[q] = IF q = {} THEN 0 ELSE g[pick(q)] + f[q \ {pick(q)}]
      BY <1>2, SumsUpAt
    <3> QED BY <2>5, <3>1
  <2>7. pick(q) \in q
    BY <2>6, PickIn
  <2>8. f[q \ {pick(q)}] \notin Nat
    BY <2>5, <2>6, <2>7
  <2>9. Cardinality(q \ {pick(q)}) \in T
    BY <2>8
  <2>10. Cardinality(q \ {pick(q)}) < Cardinality(q) /\ Cardinality(q) \in Nat
         /\ Cardinality(q \ {pick(q)}) \in Nat
    BY <2>2, <2>7, Smaller
  <2>11. n <= Cardinality(q \ {pick(q)})
    BY <2>4, <2>9, Zenon
  <2> QED BY <2>5, <2>10, <2>11
<1> QED BY <1>1, <1>2, <1>3

(***************************************************************************)
(* Two sums over two sets agree where both are sums.                       *)
(***************************************************************************)
LEMMA SumUnique ==
  ASSUME NEW S, NEW R \in SUBSET S, IsFiniteSet(S), NEW g,
         NEW e, NEW f, SumsUp(e, g, S), SumsUp(f, g, R)
  PROVE  f[R] = e[R]
<1> DEFINE T == {Cardinality(q) : q \in {q \in SUBSET R : f[q] # e[q]}}
<1>1. SUFFICES ASSUME f[R] # e[R] PROVE FALSE
  OBVIOUS
<1>2. \A q \in SUBSET R : IsFiniteSet(q) /\ Cardinality(q) \in Nat
  BY FS_Subset, FS_CardinalityType
<1>3. T # {} /\ T \subseteq Nat
  BY <1>1, <1>2
<1>4. PICK n \in T : \A k \in T : n <= k
  BY <1>3, LeastElement
<1>5. PICK q \in SUBSET R : n = Cardinality(q) /\ f[q] # e[q]
  BY <1>4
<1>6. /\ e[q] = IF q = {} THEN 0 ELSE g[pick(q)] + e[q \ {pick(q)}]
      /\ f[q] = IF q = {} THEN 0 ELSE g[pick(q)] + f[q \ {pick(q)}]
  BY DEF SumsUp
<1>7. q # {} /\ f[q \ {pick(q)}] # e[q \ {pick(q)}]
  BY <1>5, <1>6
<1>8. pick(q) \in q
  BY <1>7, PickIn
<1>9. Cardinality(q \ {pick(q)}) \in T
  BY <1>7
<1>10. Cardinality(q \ {pick(q)}) < Cardinality(q) /\ Cardinality(q) \in Nat
       /\ Cardinality(q \ {pick(q)}) \in Nat
  BY <1>2, <1>8, Smaller
<1> HIDE DEF T
<1> QED BY <1>4, <1>5, <1>9, <1>10

LEMMA SumRecursion ==
  ASSUME NEW S, IsFiniteSet(S), NEW g, \A x \in S : g[x] \in Nat
  PROVE  /\ SumFunctionOnSet(g, S) \in Nat
         /\ SumFunctionOnSet(g, S) =
              IF S = {} THEN 0 ELSE g[pick(S)] + SumFunctionOnSet(g, S \ {pick(S)})
<1>1. PICK f \in [SUBSET S -> Nat] : SumsUp(f, g, S) /\ SumFunctionOnSet(g, S) = f[S]
  BY SumIs
<1>2. f[S] = IF S = {} THEN 0 ELSE g[pick(S)] + f[S \ {pick(S)}]
  BY <1>1 DEF SumsUp
<1>3. SumFunctionOnSet(g, S \ {pick(S)}) = f[S \ {pick(S)}]
  <2> DEFINE R == S \ {pick(S)}
  <2>1. R \in SUBSET S /\ IsFiniteSet(R) /\ \A x \in R : g[x] \in Nat
    BY FS_Subset
  <2> HIDE DEF R
  <2>2. PICK e \in [SUBSET R -> Nat] : SumsUp(e, g, R) /\ SumFunctionOnSet(g, R) = e[R]
    BY <2>1, SumIs
  <2>3. e[R] = f[R]
    BY <1>1, <2>1, <2>2, SumUnique
  <2> QED BY <2>2, <2>3 DEF R
<1> QED BY <1>1, <1>2, <1>3

(***************************************************************************)
(* Any element may be the first.                                           *)
(***************************************************************************)
LEMMA SumRemove ==
  ASSUME NEW S, IsFiniteSet(S), NEW g, \A x \in S : g[x] \in Nat, NEW x \in S
  PROVE  SumFunctionOnSet(g, S) = g[x] + SumFunctionOnSet(g, S \ {x})
<1> DEFINE sum(q) == SumFunctionOnSet(g, q)
           Bad == {q \in SUBSET S : \E y \in q : sum(q) # g[y] + sum(q \ {y})}
           T == {Cardinality(q) : q \in Bad}
<1>1. SUFFICES ASSUME Bad # {} PROVE FALSE
  OBVIOUS
<1>2. \A q \in SUBSET S : /\ IsFiniteSet(q) /\ Cardinality(q) \in Nat
                          /\ sum(q) \in Nat
                          /\ q # {} => sum(q) = g[pick(q)] + sum(q \ {pick(q)})
  <2> SUFFICES ASSUME NEW q \in SUBSET S
               PROVE  /\ IsFiniteSet(q) /\ Cardinality(q) \in Nat
                      /\ sum(q) \in Nat
                      /\ q # {} => sum(q) = g[pick(q)] + sum(q \ {pick(q)})
    OBVIOUS
  <2>1. IsFiniteSet(q) /\ Cardinality(q) \in Nat
    BY FS_Subset, FS_CardinalityType
  <2>2. \A y \in q : g[y] \in Nat
    OBVIOUS
  <2> QED BY <2>1, <2>2, SumRecursion
<1> HIDE DEF sum
<1>3. T # {} /\ T \subseteq Nat
  <2>1. Bad \subseteq SUBSET S
    OBVIOUS
  <2> HIDE DEF Bad
  <2> QED BY <2>1, <1>1, <1>2
<1>4. PICK n \in T : \A k \in T : n <= k
  BY <1>3, LeastElement
<1>5. PICK q \in Bad : n = Cardinality(q)
  BY <1>4
<1>6. PICK y \in q : sum(q) # g[y] + sum(q \ {y})
  BY <1>5
<1> DEFINE p == pick(q)
<1>7. p \in q /\ q \in SUBSET S
  BY <1>5, <1>6, PickIn
<1>8. sum(q) = g[p] + sum(q \ {p})
  BY <1>2, <1>7
<1>9. p # y
  BY <1>6, <1>8
<1>10. /\ q \ {p} \notin Bad /\ y \in q \ {p}
       /\ q \ {y} \notin Bad /\ p \in q \ {y}
  <2>1. \A z \in q : /\ Cardinality(q \ {z}) < Cardinality(q)
                     /\ Cardinality(q) \in Nat /\ Cardinality(q \ {z}) \in Nat
    BY <1>2, <1>7, Smaller
  <2>2. \A z \in q : Cardinality(q \ {z}) \notin T
    <3> HIDE DEF T
    <3> QED BY <1>4, <1>5, <2>1
  <2>3. \A z \in q : q \ {z} \notin Bad
    BY <2>2
  <2> HIDE DEF p, Bad
  <2> QED BY <2>3, <1>7, <1>9
<1>11. /\ sum(q \ {p}) = g[y] + sum((q \ {p}) \ {y})
       /\ sum(q \ {y}) = g[p] + sum((q \ {y}) \ {p})
  BY <1>7, <1>10
<1>12. (q \ {p}) \ {y} = (q \ {y}) \ {p} /\ (q \ {p}) \ {y} \in SUBSET S
  BY <1>7
<1>13. sum((q \ {p}) \ {y}) \in Nat /\ g[p] \in Nat /\ g[y] \in Nat
  BY <1>2, <1>7, <1>12
<1> DEFINE rest == (q \ {p}) \ {y}
<1>14. sum(q) = g[p] + (g[y] + sum(rest)) /\ sum(q \ {y}) = g[p] + sum(rest)
  BY <1>8, <1>11, <1>12, Zenon
<1> HIDE DEF p, rest
<1> QED BY <1>6, <1>13, <1>14 DEF rest

(***************************************************************************)
(* What is taken from some summands is taken from the sum.                 *)
(***************************************************************************)
LEMMA SumTaken ==
  ASSUME NEW P, IsFiniteSet(P), NEW Q \in SUBSET P, NEW f, NEW g, NEW r,
         \A x \in P : f[x] \in Nat /\ g[x] \in Nat /\ g[x] <= f[x],
         \A x \in Q : r[x] \in Nat /\ g[x] + r[x] <= f[x]
  PROVE  SumFunctionOnSet(g, P) + SumFunctionOnSet(r, Q) <= SumFunctionOnSet(f, P)
<1> DEFINE sum(h, q) == SumFunctionOnSet(h, q)
           Holds(p) == sum(g, p) + sum(r, Q \cap p) <= sum(f, p)
           Bad == {p \in SUBSET P : ~Holds(p)}
           T == {Cardinality(p) : p \in Bad}
<1>1. \A p \in SUBSET P : /\ IsFiniteSet(p) /\ Cardinality(p) \in Nat
                          /\ sum(f, p) \in Nat /\ sum(g, p) \in Nat /\ sum(r, Q \cap p) \in Nat
                          /\ \A x \in p : /\ sum(f, p) = f[x] + sum(f, p \ {x})
                                          /\ sum(g, p) = g[x] + sum(g, p \ {x})
                                          /\ x \in Q => sum(r, Q \cap p) = r[x] + sum(r, (Q \cap p) \ {x})
  <2> SUFFICES ASSUME NEW p \in SUBSET P
               PROVE  /\ IsFiniteSet(p) /\ Cardinality(p) \in Nat
                      /\ sum(f, p) \in Nat /\ sum(g, p) \in Nat /\ sum(r, Q \cap p) \in Nat
                      /\ \A x \in p : /\ sum(f, p) = f[x] + sum(f, p \ {x})
                                      /\ sum(g, p) = g[x] + sum(g, p \ {x})
                                      /\ x \in Q => sum(r, Q \cap p) = r[x] + sum(r, (Q \cap p) \ {x})
    OBVIOUS
  <2>1. IsFiniteSet(p) /\ Cardinality(p) \in Nat /\ IsFiniteSet(Q \cap p)
    BY FS_Subset, FS_CardinalityType
  <2>2. (\A x \in p : f[x] \in Nat /\ g[x] \in Nat) /\ \A x \in Q \cap p : r[x] \in Nat
    OBVIOUS
  <2>3. sum(f, p) \in Nat /\ sum(g, p) \in Nat /\ sum(r, Q \cap p) \in Nat
    BY <2>1, <2>2, SumRecursion
  <2>4. \A x \in p : /\ sum(f, p) = f[x] + sum(f, p \ {x})
                     /\ sum(g, p) = g[x] + sum(g, p \ {x})
                     /\ x \in Q => sum(r, Q \cap p) = r[x] + sum(r, (Q \cap p) \ {x})
    <3> TAKE x \in p
    <3>1. sum(f, p) = f[x] + sum(f, p \ {x}) /\ sum(g, p) = g[x] + sum(g, p \ {x})
      BY <2>1, <2>2, SumRemove
    <3>2. ASSUME x \in Q PROVE sum(r, Q \cap p) = r[x] + sum(r, (Q \cap p) \ {x})
      BY <3>2, <2>1, <2>2, SumRemove
    <3> QED BY <3>1, <3>2
  <2> QED BY <2>1, <2>3, <2>4
<1>2. sum(f, {}) = 0 /\ sum(g, {}) = 0 /\ sum(r, {}) = 0
  BY SumRecursion, FS_EmptySet
<1>3. SUFFICES ASSUME ~Holds(P) PROVE FALSE
  <2>1. Q \cap P = Q
    OBVIOUS
  <2> QED BY <1>3, <2>1
<1> HIDE DEF sum
<1>4. T # {} /\ T \subseteq Nat
  BY <1>1, <1>3
<1>5. PICK n \in T : \A k \in T : n <= k
  BY <1>4, LeastElement
<1>6. PICK p \in Bad : n = Cardinality(p)
  BY <1>5
<1>7. p \in SUBSET P /\ ~Holds(p)
  BY <1>6
<1>8. p # {}
  <2>1. Q \cap {} = {} /\ 0 + 0 <= 0
    OBVIOUS
  <2>2. Holds({})
    BY <2>1, <1>2
  <2> HIDE DEF Holds
  <2> QED BY <2>2, <1>7
<1>9. PICK x : x \in p
  BY <1>8
<1> DEFINE less == p \ {x}
<1>10. less \in SUBSET P
  BY <1>7
<1>11. Holds(less)
  <2>1. /\ Cardinality(less) < Cardinality(p)
        /\ Cardinality(less) \in Nat /\ Cardinality(p) \in Nat
    BY <1>1, <1>7, <1>9, Smaller
  <2>2. Cardinality(less) \notin T
    <3> HIDE DEF T, less
    <3> QED BY <2>1, <1>5, <1>6
  <2> QED BY <1>10, <2>2
<1>12. /\ sum(f, p) = f[x] + sum(f, less) /\ sum(g, p) = g[x] + sum(g, less)
       /\ sum(f, less) \in Nat /\ sum(g, less) \in Nat /\ sum(r, Q \cap less) \in Nat
       /\ f[x] \in Nat /\ g[x] \in Nat /\ g[x] <= f[x]
  BY <1>1, <1>7, <1>9, <1>10
<1>13. CASE x \in Q
  <2>1. Q \cap less = (Q \cap p) \ {x}
    OBVIOUS
  <2>2. sum(r, Q \cap p) = r[x] + sum(r, Q \cap less)
    <3>1. sum(r, Q \cap p) = r[x] + sum(r, (Q \cap p) \ {x})
      BY <1>1, <1>7, <1>9, <1>13
    <3> QED BY <2>1, <3>1, Zenon
  <2>3. r[x] \in Nat /\ g[x] + r[x] <= f[x]
    BY <1>13
  <2> HIDE DEF less
  <2> QED BY <2>2, <2>3, <1>7, <1>11, <1>12
<1>14. CASE x \notin Q
  <2>1. Q \cap less = Q \cap p
    BY <1>14
  <2>2. sum(g, less) + sum(r, Q \cap p) <= sum(f, less) /\ sum(r, Q \cap p) \in Nat
    BY <2>1, <1>11, <1>12
  <2> HIDE DEF less
  <2> QED BY <2>2, <1>7, <1>12
<1> QED BY <1>13, <1>14

(***************************************************************************)
(* No summand rises: no sum rises.                                         *)
(***************************************************************************)
LEMMA SumFalls ==
  ASSUME NEW P, IsFiniteSet(P), NEW f, NEW g,
         \A x \in P : f[x] \in Nat /\ g[x] \in Nat /\ g[x] <= f[x]
  PROVE  SumFunctionOnSet(g, P) <= SumFunctionOnSet(f, P)
<1>1. SumFunctionOnSet(g, P) + SumFunctionOnSet(g, {}) <= SumFunctionOnSet(f, P)
  BY SumTaken
<1>2. SumFunctionOnSet(g, {}) = 0 /\ SumFunctionOnSet(g, P) \in Nat
  BY SumRecursion, FS_EmptySet
<1> QED BY <1>1, <1>2
-----------------------------------------------------------------------------
(***************************************************************************)
(* Where it is defined, the difficulty is a number and at least the        *)
(* minimum.                                                                *)
(***************************************************************************)
LEMMA ShardDiffAtLeast ==
  ASSUME infos \in [Shard -> MiningInfo],
         NEW s \in Shard, NEW minedTs \in Nat, diffDefined({s}, minedTs)
  PROVE  shardDiff(s, minedTs) \in Nat /\ shardDiff(s, minedTs) >= minimumDiff
<1> DEFINE interval == minedTs - infos[s].lastMineTime
           diff     == infos[s].difficulty
           q        == interval \div cutoff
<1>1. infos[s].lastMineTime \in Nat /\ diff \in Nat
  BY DEF MiningInfo
<1>2. cutoff \in Nat \ {0} /\ diffAdjDivisor \in Nat \ {0}
      /\ minimumDiff \in Nat /\ targetIntervalSec \in Nat
  BY ShardAssumption DEF diffDefined, expectedDiffDefined
<1>3. interval \in Nat
  BY <1>1 DEF diffDefined, expectedDiffDefined
<1>4. /\ q \in Nat
      /\ interval < targetIntervalSec => q <= 1
      /\ ~(interval < targetIntervalSec) => q >= 1
  <2>1. q \in Nat
    BY <1>2, <1>3, QuotientRange
  <2> QED BY <2>1 DEF diffDefined, expectedDiffDefined
<1>5. shardDiff(s, minedTs) =
        IF interval < targetIntervalSec
        THEN AtLeast(diff + ((1 - q) * diff) \div diffAdjDivisor, minimumDiff)
        ELSE IF ((q - 1) * diff) \div diffAdjDivisor + minimumDiff > diff THEN minimumDiff
             ELSE diff - ((q - 1) * diff) \div diffAdjDivisor
  BY DEF shardDiff, expectedDiff, increase, decrease
<1> HIDE DEF interval, diff, q
<1>6. CASE interval < targetIntervalSec
  <2> DEFINE up == (1 - q) * diff
  <2>1. up \in Nat
    BY <1>1, <1>4, <1>6
  <2> HIDE DEF up
  <2>2. up \div diffAdjDivisor \in Nat
    BY <2>1, <1>2, QuotientRange
  <2> QED BY <2>2, <1>1, <1>2, <1>5, <1>6 DEF AtLeast, up
<1>7. CASE ~(interval < targetIntervalSec)
  <2> DEFINE down == (q - 1) * diff
  <2>1. down \in Nat
    <3>1. q - 1 \in Nat
      BY <1>4, <1>7
    <3> QED BY <3>1, <1>1
  <2> HIDE DEF down
  <2>2. down \div diffAdjDivisor \in Nat
    BY <2>1, <1>2, QuotientRange
  <2> QED BY <2>2, <1>1, <1>2, <1>5, <1>7 DEF down
<1> QED BY <1>6, <1>7
-----------------------------------------------------------------------------
(***************************************************************************)
(* The inductive invariant.  A shard that was mined keeps the minimum      *)
(* difficulty; rent starts in the past of every shard, also of one that    *)
(* was opened and is not payable any more.                                 *)
(***************************************************************************)
DifficultyAtLeastMinimum ==
  \A s \in Shard : infos[s].blockMined > 0 => infos[s].difficulty >= minimumDiff

RentStartsInPast == \A s \in Shard : infos[s].lastMineTime <= timestamp

ShardInv ==
  /\ SlotInv
  /\ infos \in [Shard -> MiningInfo]
  /\ RentStartsInPast
  /\ PayableShardsOpened
  /\ DifficultyAtLeastMinimum

LEMMA ShardTypes ==
  ASSUME SlotInv
  PROVE  /\ shardEntries \in Nat \ {0}
         /\ lastKvIdx \in Nat /\ lastKvIdx <= MaxKvIdx /\ MaxKvIdx \in Nat
         /\ timestamp \in Nat /\ startTime \in Nat /\ startTime <= timestamp
         /\ Shard \subseteq Nat
         /\ lastMinableShardIdx \in Nat
<1>1. /\ lastKvIdx \in Nat /\ lastKvIdx <= MaxKvIdx /\ MaxKvIdx \in Nat
      /\ timestamp \in Nat /\ startTime \in Nat /\ startTime <= timestamp
  BY ConstructorAssumption DEF SlotInv, TypeOK, KvIdx, Time
<1>2. shardEntries \in Nat \ {0}
  BY ShardAssumption DEF shardEntries
<1>3. lastKvIdx \div shardEntries \in Nat
  BY <1>1, <1>2, QuotientRange
<1>4. Shard \subseteq Nat /\ lastMinableShardIdx \in Nat
  BY <1>3 DEF Shard, lastMinableShardIdx
<1> QED BY <1>1, <1>2, <1>4

LEMMA ShardInit == SInit => ShardInv
<1> SUFFICES ASSUME SInit PROVE ShardInv
  OBVIOUS
<1>1. SlotInv
  <2> USE DEF SInit, KVInit, SMInit
  <2>1. timestamp \in Time /\ lastKvIdx \in KvIdx /\ balance \in 0..Supply
    BY ConstructorAssumption, ShardAssumption DEF Time, KvIdx
  <2>2. dataMap \in [KvIdx -> Seq(Nat)]
    OBVIOUS
  <2>3. TypeOK
    BY <2>1, <2>2, NullAddrType DEF TypeOK
  <2>4. KeysOwnSlots
    BY DEF KeysOwnSlots, Exists, NullAddr
  <2>5. SlotsDense
    BY DEF SlotsDense, KvIdx
  <2> QED BY <2>3, <2>4, <2>5 DEF SlotInv
<1>2. startTime \in Nat /\ timestamp = startTime /\ lastKvIdx = 0
  BY ConstructorAssumption DEF SInit, KVInit
<1>3. lastMinableShardIdx = 1
  <2>1. 0 \div shardEntries = 0
    BY <1>1, ShardTypes
  <2> QED BY <2>1, <1>2 DEF lastMinableShardIdx
<1>4. \A s \in Shard : /\ s \in Nat
                       /\ infos[s].miningHash = (IF s <= 1 THEN GenesisHash ELSE NoHash)
                       /\ infos[s].lastMineTime = (IF s <= 1 THEN startTime ELSE 0)
                       /\ infos[s].difficulty = 0 /\ infos[s].blockMined = 0
  BY <1>1, ShardTypes DEF SInit
<1>5. infos \in [Shard -> MiningInfo]
  BY <1>2 DEF SInit, MiningInfo
<1>6. RentStartsInPast
  BY <1>2, <1>4 DEF RentStartsInPast
<1>7. PayableShardsOpened
  BY <1>2, <1>3, <1>4, ShardAssumption DEF PayableShardsOpened, Payable
<1>8. DifficultyAtLeastMinimum
  BY <1>4 DEF DifficultyAtLeastMinimum
<1> QED BY <1>1, <1>5, <1>6, <1>7, <1>8 DEF ShardInv

(***************************************************************************)
(* The hook of put(): the shard it opens is the one that becomes payable   *)
(* if the put takes a slot; the shard before it is payable and has been    *)
(* opened.                                                                 *)
(***************************************************************************)
LEMMA HookOpens ==
  ASSUME ShardInv, _preparePut
  PROVE  /\ infos' \in [Shard -> MiningInfo]
         /\ \A s \in Shard : /\ infos'[s].lastMineTime \in {infos[s].lastMineTime, timestamp}
                             /\ infos'[s].difficulty = infos[s].difficulty
                             /\ infos'[s].blockMined = infos[s].blockMined
         /\ \A s \in Shard : s <= (lastKvIdx + 1) \div shardEntries + 1 =>
              infos'[s].lastMineTime \in startTime..timestamp /\ infos'[s].miningHash # NoHash
         /\ \A s \in Shard : s <= (lastKvIdx + 1) \div shardEntries + 1 /\ ~Payable(s) =>
              infos'[s].lastMineTime = timestamp
<1> DEFINE next == lastKvIdx + 1
           shard == next \div shardEntries + 1
<1>1. /\ shardEntries \in Nat \ {0} /\ lastKvIdx \in Nat /\ MaxKvIdx \in Nat
      /\ timestamp \in Nat /\ startTime \in Nat /\ startTime <= timestamp
      /\ Shard \subseteq Nat /\ lastMinableShardIdx \in Nat
  BY ShardTypes DEF ShardInv
<1>2. next \in Nat /\ next <= MaxKvIdx
  BY <1>1 DEF _preparePut
<1> HIDE DEF next
<1>3. /\ next % shardEntries = 0 => shard = lastMinableShardIdx + 1
      /\ next % shardEntries # 0 => shard = lastMinableShardIdx
  <2>1. next \div shardEntries \in Nat /\ lastKvIdx \div shardEntries \in Nat
    BY <1>1, <1>2, QuotientRange
  <2>2. next = lastKvIdx + 1
    BY DEF next
  <2>3. /\ next % shardEntries = 0 => next \div shardEntries = lastKvIdx \div shardEntries + 1
        /\ next % shardEntries # 0 => next \div shardEntries = lastKvIdx \div shardEntries
    BY <2>2, <1>1, <1>2, QuotientOfNext
  <2> QED BY <2>1, <2>3 DEF lastMinableShardIdx
<1>4. shard \in Shard
  <2>1. next \div shardEntries <= MaxKvIdx \div shardEntries
    BY <1>1, <1>2, QuotientMonotone
  <2>2. next \div shardEntries \in Nat /\ MaxKvIdx \div shardEntries \in Nat
    BY <1>1, <1>2, QuotientRange
  <2> QED BY <2>1, <2>2 DEF Shard
<1>5. \A s \in Shard : s <= lastMinableShardIdx =>
        infos[s].lastMineTime \in startTime..timestamp /\ infos[s].miningHash # NoHash
  BY DEF ShardInv, PayableShardsOpened, Payable
<1> HIDE DEF shard
<1>6. infos \in [Shard -> MiningInfo]
  BY DEF ShardInv
<1>7. CASE next % shardEntries = 0
  <2>1. infos' = opened(shard, timestamp)
    BY <1>7 DEF _preparePut, next, shard
  <2>2. shard - 1 \in Shard /\ shard - 1 = lastMinableShardIdx
    BY <1>1, <1>3, <1>4, <1>7 DEF Shard
  <2>3. /\ infos'[shard] = [infos[shard] EXCEPT !.lastMineTime = timestamp,
                                                !.miningHash = infos[shard - 1].miningHash]
        /\ \A s \in Shard \ {shard} : infos'[s] = infos[s]
        /\ DOMAIN infos' = Shard
        /\ infos' = [s \in Shard |-> infos'[s]]
    BY <2>1, <1>4, <1>6 DEF opened
  <2>4. infos[shard] \in MiningInfo /\ infos[shard - 1] \in MiningInfo
    BY <1>4, <1>6, <2>2
  <2>5. /\ infos'[shard] \in MiningInfo
        /\ infos'[shard].lastMineTime = timestamp
        /\ infos'[shard].miningHash = infos[shard - 1].miningHash
        /\ infos'[shard].difficulty = infos[shard].difficulty
        /\ infos'[shard].blockMined = infos[shard].blockMined
    BY <2>3, <2>4, <1>1 DEF MiningInfo
  <2>6. infos' \in [Shard -> MiningInfo]
    BY <2>3, <2>5, <1>6
  <2>7. infos[shard - 1].miningHash # NoHash
    BY <2>2, <1>1, <1>5
  <2>8. ASSUME NEW s \in Shard, s <= shard
        PROVE  infos'[s].lastMineTime \in startTime..timestamp /\ infos'[s].miningHash # NoHash
    <3>1. CASE s = shard
      BY <3>1, <2>5, <2>7, <1>1
    <3>2. CASE s # shard
      BY <3>2, <2>2, <2>3, <2>8, <1>1, <1>4, <1>5
    <3> QED BY <3>1, <3>2
  <2>9. ASSUME NEW s \in Shard
        PROVE  /\ infos'[s].lastMineTime \in {infos[s].lastMineTime, timestamp}
               /\ infos'[s].difficulty = infos[s].difficulty
               /\ infos'[s].blockMined = infos[s].blockMined
    BY <2>3, <2>5
  <2>10. \A s \in Shard : s <= shard /\ ~Payable(s) => s = shard
    BY <1>1, <1>3, <1>7 DEF Payable
  <2> QED BY <2>5, <2>6, <2>8, <2>9, <2>10 DEF shard, next
<1>8. CASE next % shardEntries # 0
  <2>1. infos' = infos
    BY <1>8 DEF _preparePut, next
  <2>2. shard = lastMinableShardIdx
    BY <1>3, <1>8
  <2>3. \A s \in Shard : s <= shard => Payable(s)
    BY <2>2 DEF Payable
  <2> QED BY <2>1, <2>2, <2>3, <1>5, <1>6 DEF shard, next
<1> QED BY <1>7, <1>8

LEMMA ShardPut == ShardInv /\ SPut => ShardInv'
<1> SUFFICES ASSUME ShardInv, SPut PROVE ShardInv'
  OBVIOUS
<1>1. SlotInv /\ SlotInv'
  BY PutInv DEF ShardInv, SPut, Put, Offers
<1>2. timestamp' = timestamp /\ (lastKvIdx' = lastKvIdx \/ lastKvIdx' = lastKvIdx + 1)
  BY DEF SPut, Put, put, appendSlot, keepSlot
<1>3. /\ shardEntries \in Nat \ {0} /\ lastKvIdx \in Nat /\ timestamp \in Nat
      /\ Shard \subseteq Nat
  BY <1>1, ShardTypes
<1>4. /\ infos' \in [Shard -> MiningInfo]
      /\ \A s \in Shard : /\ infos'[s].lastMineTime \in {infos[s].lastMineTime, timestamp}
                          /\ infos'[s].difficulty = infos[s].difficulty
                          /\ infos'[s].blockMined = infos[s].blockMined
      /\ \A s \in Shard : s <= (lastKvIdx + 1) \div shardEntries + 1 =>
           infos'[s].lastMineTime \in startTime..timestamp /\ infos'[s].miningHash # NoHash
  BY HookOpens DEF SPut
<1>5. RentStartsInPast'
  BY <1>2, <1>3, <1>4 DEF ShardInv, RentStartsInPast
<1>6. PayableShardsOpened'
  <2>1. lastKvIdx' \in Nat /\ lastKvIdx + 1 \in Nat /\ lastKvIdx' <= lastKvIdx + 1
    BY <1>2, <1>3
  <2>2. lastKvIdx' \div shardEntries <= (lastKvIdx + 1) \div shardEntries
    BY <2>1, <1>3, QuotientMonotone
  <2>3. lastKvIdx' \div shardEntries \in Nat /\ (lastKvIdx + 1) \div shardEntries \in Nat
    <3>1. \A n \in Nat : n \div shardEntries \in Nat
      BY <1>3, QuotientRange
    <3> QED BY <2>1, <3>1
  <2>4. \A s \in Shard : Payable(s)' => s <= (lastKvIdx + 1) \div shardEntries + 1
    BY <2>2, <2>3, <1>3 DEF Payable, lastMinableShardIdx, shardEntries
  <2> QED BY <2>4, <1>2, <1>4 DEF PayableShardsOpened
<1>7. DifficultyAtLeastMinimum'
  BY <1>4 DEF ShardInv, DifficultyAtLeastMinimum
<1> QED BY <1>1, <1>4, <1>5, <1>6, <1>7 DEF ShardInv

LEMMA ShardRemove == ShardInv /\ SRemove => ShardInv'
<1> SUFFICES ASSUME ShardInv, SRemove PROVE ShardInv'
  OBVIOUS
<1>1. SlotInv /\ SlotInv'
  BY RemoveInv DEF ShardInv, SRemove, Remove
<1>2. timestamp' = timestamp /\ lastKvIdx' = lastKvIdx - 1 /\ infos' = infos
  BY DEF SRemove, Remove, removeTo
<1>3. /\ shardEntries \in Nat \ {0} /\ lastKvIdx \in Nat /\ lastKvIdx' \in Nat
      /\ Shard \subseteq Nat
  BY <1>1, ShardTypes DEF SlotInv, TypeOK, KvIdx
<1>4. \A s \in Shard : Payable(s)' => Payable(s)
  <2>1. lastKvIdx' \div shardEntries <= lastKvIdx \div shardEntries
    BY <1>2, <1>3, QuotientMonotone
  <2>2. lastKvIdx' \div shardEntries \in Nat /\ lastKvIdx \div shardEntries \in Nat
    BY <1>3, QuotientRange
  <2> QED BY <2>1, <2>2, <1>3 DEF Payable, lastMinableShardIdx, shardEntries
<1> QED BY <1>1, <1>2, <1>4
        DEF ShardInv, RentStartsInPast, PayableShardsOpened, DifficultyAtLeastMinimum

LEMMA ShardTick == ShardInv /\ STick => ShardInv'
<1> SUFFICES ASSUME ShardInv, STick PROVE ShardInv'
  OBVIOUS
<1>1. SlotInv /\ SlotInv'
  BY TickInv DEF ShardInv, STick
<1>2. /\ timestamp' = timestamp + 1 /\ lastKvIdx' = lastKvIdx /\ infos' = infos
      /\ timestamp \in Nat /\ startTime \in Nat
  BY <1>1, ShardTypes DEF STick, Tick
<1>3. infos \in [Shard -> MiningInfo] /\ \A s \in Shard : infos[s].lastMineTime \in Nat
  BY DEF ShardInv, MiningInfo
<1>4. RentStartsInPast'
  BY <1>2, <1>3 DEF ShardInv, RentStartsInPast
<1>5. PayableShardsOpened'
  BY <1>2, <1>3 DEF ShardInv, PayableShardsOpened, Payable, lastMinableShardIdx
<1>6. DifficultyAtLeastMinimum'
  BY <1>2 DEF ShardInv, DifficultyAtLeastMinimum
<1> QED BY <1>1, <1>2, <1>3, <1>4, <1>5, <1>6 DEF ShardInv

(***************************************************************************)
(* What does not touch shards, slots or time.                              *)
(***************************************************************************)
LEMMA OnlyBalance ==
  ASSUME SlotInv, balance' \in 0..Supply,
         UNCHANGED <<kvMap, idxMap, lastKvIdx, dataMap, timestamp>>
  PROVE  SlotInv'
BY DEF SlotInv, TypeOK, KeysOwnSlots, SlotsDense, Exists

LEMMA ShardSend == ShardInv /\ sendValue(1) => ShardInv'
<1> SUFFICES ASSUME ShardInv, sendValue(1) PROVE ShardInv'
  OBVIOUS
<1>1. balance' \in 0..Supply
  BY ConstructorAssumption DEF ShardInv, SlotInv, TypeOK, sendValue
<1>2. SlotInv'
  BY <1>1, OnlyBalance DEF ShardInv, sendValue
<1> QED BY <1>2 DEF ShardInv, sendValue, RentStartsInPast, PayableShardsOpened, Payable,
                    lastMinableShardIdx, DifficultyAtLeastMinimum

(***************************************************************************)
(* A block: its shards' rent starts anew from a time at least that of      *)
(* their last block.                                                       *)
(***************************************************************************)
LEMMA BlockMovesOn ==
  ASSUME ShardInv, NEW shards \in SUBSET Shard, NEW minedTs \in Time, NEW hash \in MinedHash,
         minedTs <= timestamp, diffDefined(shards, minedTs),
         _rewardMiner(shards, minedTs, hash)
  PROVE  /\ infos' \in [Shard -> MiningInfo]
         /\ \A s \in Shard :
              \/ infos'[s] = infos[s]
              \/ /\ infos'[s].lastMineTime = minedTs
                 /\ infos[s].lastMineTime <= minedTs
                 /\ infos'[s].miningHash = hash
                 /\ infos'[s].difficulty >= minimumDiff
<1>1. infos \in [Shard -> MiningInfo] /\ minedTs \in Nat
  BY ConstructorAssumption DEF ShardInv, Time
<1>2. ASSUME NEW s \in payableShards(shards)
      PROVE  /\ s \in Shard
             /\ infos[s].lastMineTime <= minedTs
             /\ updated(infos[s], minedTs, shardDiff(s, minedTs), hash) \in MiningInfo
             /\ shardDiff(s, minedTs) >= minimumDiff
  <2>1. s \in Shard /\ s \in shards /\ infos[s] \in MiningInfo
    BY <1>1 DEF payableShards
  <2>2. diffDefined({s}, minedTs)
    BY <2>1 DEF diffDefined
  <2>3. shardDiff(s, minedTs) \in Nat /\ shardDiff(s, minedTs) >= minimumDiff
    BY <2>1, <2>2, <1>1, ShardDiffAtLeast
  <2>4. infos[s].lastMineTime <= minedTs
    BY <2>1, <2>2, <1>1 DEF diffDefined, expectedDiffDefined, MiningInfo
  <2>5. updated(infos[s], minedTs, shardDiff(s, minedTs), hash) \in MiningInfo
    BY <2>1, <2>3, <1>1 DEF updated, MiningInfo
  <2> QED BY <2>1, <2>3, <2>4, <2>5
<1>3. infos' = [s \in Shard |->
                  IF s \in payableShards(shards)
                  THEN updated(infos[s], minedTs, shardDiff(s, minedTs), hash)
                  ELSE infos[s]]
  BY DEF _rewardMiner
<1>4. infos' \in [Shard -> MiningInfo]
  BY <1>1, <1>2, <1>3
<1>5. ASSUME NEW s \in Shard, s \in payableShards(shards)
      PROVE  /\ infos'[s].lastMineTime = minedTs
             /\ infos'[s].miningHash = hash
             /\ infos'[s].difficulty = shardDiff(s, minedTs)
  BY <1>3, <1>5 DEF updated
<1>6. \A s \in Shard : s \notin payableShards(shards) => infos'[s] = infos[s]
  BY <1>3
<1> QED BY <1>2, <1>4, <1>5, <1>6

LEMMA ShardMine == ShardInv /\ SMine => ShardInv'
<1> SUFFICES ASSUME ShardInv, SMine PROVE ShardInv'
  OBVIOUS
<1>1. PICK start \in Shard, bits \in ShardLenBits, minedTs \in Time, hash \in MinedHash :
        /\ minedTs <= timestamp
        /\ diffDefined(shardRange(start, bits), minedTs)
        /\ _rewardMiner(shardRange(start, bits), minedTs, hash)
  BY DEF SMine
<1>2. shardRange(start, bits) \in SUBSET Shard
  BY DEF shardRange
<1>3. /\ infos' \in [Shard -> MiningInfo]
      /\ \A s \in Shard :
           \/ infos'[s] = infos[s]
           \/ /\ infos'[s].lastMineTime = minedTs
              /\ infos[s].lastMineTime <= minedTs
              /\ infos'[s].miningHash = hash
              /\ infos'[s].difficulty >= minimumDiff
  BY <1>1, <1>2, BlockMovesOn
<1>4. /\ balance' \in 0..Supply
      /\ UNCHANGED <<kvMap, idxMap, lastKvIdx, dataMap, timestamp>>
  <2>1. totalReward(shardRange(start, bits), minedTs) \in 0..balance
    BY <1>1 DEF _rewardMiner
  <2> QED BY <1>1, <2>1, ConstructorAssumption DEF _rewardMiner, ShardInv, SlotInv, TypeOK
<1>5. SlotInv'
  BY <1>4, OnlyBalance DEF ShardInv
<1>6. RentStartsInPast'
  BY <1>1, <1>3, <1>4 DEF ShardInv, RentStartsInPast
<1>7. PayableShardsOpened'
  <2>1. minedTs \in startTime..timestamp
    BY <1>1, ConstructorAssumption DEF Time, ShardInv, SlotInv, TypeOK
  <2>2. hash # NoHash
    BY ShardAssumption
  <2> QED BY <2>1, <2>2, <1>3, <1>4
          DEF ShardInv, PayableShardsOpened, Payable, lastMinableShardIdx
<1>8. DifficultyAtLeastMinimum'
  BY <1>3 DEF ShardInv, DifficultyAtLeastMinimum
<1> QED BY <1>3, <1>5, <1>6, <1>7, <1>8 DEF ShardInv

LEMMA ShardNext == ShardInv /\ [SNext]_shardVars => ShardInv'
<1> SUFFICES ASSUME ShardInv, [SNext]_shardVars PROVE ShardInv'
  OBVIOUS
<1>1. CASE UNCHANGED shardVars
  BY <1>1 DEF shardVars, kvVars, ShardInv, SlotInv, TypeOK, KeysOwnSlots, SlotsDense, Exists,
              RentStartsInPast, PayableShardsOpened, Payable, lastMinableShardIdx,
              DifficultyAtLeastMinimum
<1>2. CASE SNext
  BY <1>2, ShardPut, ShardRemove, ShardTick, ShardSend, ShardMine DEF SNext
<1> QED BY <1>1, <1>2

LEMMA ShardInvariant == SSpec => []ShardInv
<1> QED BY ShardInit, ShardNext, PTL DEF SSpec

(***************************************************************************)
(* Whatever is put, removed and mined, over shards of any size: every      *)
(* payable shard has been opened, and a shard that was mined keeps at      *)
(* least the minimum difficulty.                                           *)
(***************************************************************************)
THEOREM ShardsOpened ==
  SSpec => [](STypeOK /\ PayableShardsOpened /\ DifficultyAtLeastMinimum)
<1>1. ShardInv => STypeOK /\ PayableShardsOpened /\ DifficultyAtLeastMinimum
  BY DEF ShardInv, SlotInv, STypeOK
<1> QED BY <1>1, ShardInvariant, PTL

RentMovesOn == \A s \in Shard : infos'[s].lastMineTime >= infos[s].lastMineTime

LEMMA RentMoves == ASSUME ShardInv, SNext PROVE RentMovesOn
<1> SUFFICES ASSUME NEW s \in Shard
             PROVE  infos'[s].lastMineTime >= infos[s].lastMineTime
  BY DEF RentMovesOn
<1>1. infos[s].lastMineTime \in Nat /\ infos[s].lastMineTime <= timestamp
  BY DEF ShardInv, RentStartsInPast, MiningInfo
<1>2. timestamp \in Nat
  BY ShardTypes DEF ShardInv
<1>3. CASE SPut
  BY <1>1, <1>2, <1>3, HookOpens DEF SPut
<1>4. CASE SRemove \/ STick \/ sendValue(1)
  BY <1>1, <1>4 DEF SRemove, STick, sendValue
<1>5. CASE SMine
  <2>1. PICK start \in Shard, bits \in ShardLenBits, minedTs \in Time, hash \in MinedHash :
          /\ minedTs <= timestamp
          /\ diffDefined(shardRange(start, bits), minedTs)
          /\ _rewardMiner(shardRange(start, bits), minedTs, hash)
    BY <1>5 DEF SMine
  <2>2. shardRange(start, bits) \in SUBSET Shard
    BY DEF shardRange
  <2>3. minedTs \in Nat
    BY ConstructorAssumption DEF Time
  <2>4. infos'[s] = infos[s] \/ (infos'[s].lastMineTime = minedTs /\ infos[s].lastMineTime <= minedTs)
    BY <2>1, <2>2, BlockMovesOn
  <2> QED BY <1>1, <2>3, <2>4
<1> QED BY <1>3, <1>4, <1>5 DEF SNext

(***************************************************************************)
(* The time up to which the rent of a shard has been paid never goes back, *)
(* so that no second of it is paid for twice.                              *)
(***************************************************************************)
THEOREM RentPaidOnce == SSpec => RentNeverRestarts
<1>1. ShardInv /\ [SNext]_shardVars => [RentMovesOn]_shardVars
  BY RentMoves
<1>2. [][RentMovesOn]_shardVars => RentNeverRestarts
  BY PTL DEF RentNeverRestarts, RentMovesOn
<1> QED BY <1>1, <1>2, ShardInvariant, PTL DEF SSpec

(***************************************************************************)
(* What is paid stays paid: if the rent of a shard, should it be payable,  *)
(* starts no earlier than some time in the past, it will not later, even   *)
(* when the shard becomes payable then, since it is opened with it.        *)
(***************************************************************************)
LEMMA PaidStaysPaid ==
  ASSUME ShardInv, [SNext]_shardVars, NEW s \in Shard, NEW t \in Nat, t <= timestamp,
         Payable(s) => infos[s].lastMineTime >= t
  PROVE  /\ t <= timestamp'
         /\ Payable(s)' => infos'[s].lastMineTime >= t
<1>1. /\ timestamp \in Nat /\ lastKvIdx \in Nat /\ shardEntries \in Nat \ {0}
      /\ Shard \subseteq Nat /\ lastMinableShardIdx \in Nat
  BY ShardTypes DEF ShardInv
<1>2. infos[s].lastMineTime \in Nat
  BY DEF ShardInv, MiningInfo
<1>3. CASE SPut
  <2>1. timestamp' = timestamp /\ (lastKvIdx' = lastKvIdx \/ lastKvIdx' = lastKvIdx + 1)
    BY <1>3 DEF SPut, Put, put, appendSlot, keepSlot
  <2>2. /\ infos'[s].lastMineTime \in {infos[s].lastMineTime, timestamp}
        /\ s <= (lastKvIdx + 1) \div shardEntries + 1 /\ ~Payable(s) =>
             infos'[s].lastMineTime = timestamp
    BY <1>3, HookOpens DEF SPut
  <2>3. CASE Payable(s)
    BY <2>1, <2>2, <2>3, <1>1, <1>2
  <2>4. CASE ~Payable(s)
    <3>1. Payable(s)' => s <= (lastKvIdx + 1) \div shardEntries + 1
      <4>1. CASE lastKvIdx' = lastKvIdx
        BY <4>1, <2>4 DEF Payable, lastMinableShardIdx, shardEntries
      <4>2. CASE lastKvIdx' = lastKvIdx + 1
        BY <4>2 DEF Payable, lastMinableShardIdx, shardEntries
      <4> QED  BY <4>1, <4>2, <2>1
    <3> QED  BY <3>1, <2>1, <2>2, <2>4, <1>1
  <2> QED  BY <2>3, <2>4
<1>4. CASE SRemove
  <2>1. timestamp' = timestamp /\ infos' = infos /\ lastKvIdx' = lastKvIdx - 1 /\ lastKvIdx > 0
    BY <1>4 DEF SRemove, Remove, removeTo
  <2>2. lastKvIdx' \in Nat /\ lastKvIdx' <= lastKvIdx
    BY <2>1, <1>1
  <2>3. lastKvIdx' \div shardEntries <= lastKvIdx \div shardEntries
    BY <2>2, <1>1, QuotientMonotone
  <2>4. lastKvIdx' \div shardEntries \in Nat /\ lastKvIdx \div shardEntries \in Nat
    BY <2>2, <1>1, QuotientRange
  <2>5. Payable(s)' => Payable(s)
    BY <2>3, <2>4, <1>1 DEF Payable, lastMinableShardIdx, shardEntries
  <2> QED  BY <2>1, <2>5
<1>5. CASE STick
  <2>1. /\ timestamp' >= timestamp /\ timestamp' \in Nat
        /\ UNCHANGED <<infos, lastKvIdx>>
    BY <1>5, <1>1, ConstructorAssumption DEF STick, Tick, Time
  <2> QED  BY <2>1, <1>1 DEF Payable, lastMinableShardIdx
<1>6. CASE sendValue(1)
  BY <1>6 DEF sendValue, Payable, lastMinableShardIdx
<1>7. CASE SMine
  <2>1. UNCHANGED <<timestamp, lastKvIdx>>
    BY <1>7 DEF SMine, _rewardMiner
  <2>2. infos'[s].lastMineTime >= infos[s].lastMineTime
    BY <1>7, RentMoves DEF SNext, RentMovesOn
  <2>3. infos'[s].lastMineTime \in Nat
    BY <1>7, ShardMine DEF ShardInv, MiningInfo
  <2> QED  BY <2>1, <2>2, <2>3, <1>2 DEF Payable, lastMinableShardIdx
<1>8. CASE UNCHANGED shardVars
  BY <1>8 DEF shardVars, kvVars, Payable, lastMinableShardIdx
<1> QED  BY <1>3, <1>4, <1>5, <1>6, <1>7, <1>8 DEF SNext

(***************************************************************************)
(* Shards that have been paid up to a time earn nothing by a block of that *)
(* time.                                                                   *)
(***************************************************************************)
LEMMA ShardsFinite ==
  ASSUME SlotInv, NEW Q \in SUBSET Shard PROVE IsFiniteSet(Q)
<1>1. MaxKvIdx \div shardEntries \in Nat
  BY ShardTypes, QuotientRange
<1>2. MaxKvIdx \div shardEntries + 1 \in Int /\ 0 \in Int
  BY <1>1
<1>3. IsFiniteSet(Shard)
  BY <1>2, FS_Interval DEF Shard
<1> QED  BY <1>3, FS_Subset

LEMMA CostTypes ==
  ASSUME SlotInv
  PROVE  shardCost \in Nat /\ shardEntries \in Nat \ {0} /\ One \in Nat \ {0} /\ storageCost \in Nat
<1>1. /\ shardEntries \in Nat \ {0} /\ One \in Nat \ {0} /\ storageCost \in Nat
      /\ Word \in Nat /\ storageCost * One < Word
  BY ShardTypes, PriceAssumption, OneType, PowAssumption
<1>2. storageCost * shardEntries \in Nat /\ storageCost * One \in Nat
  BY <1>1
<1>3. Word \in Nat \ {0}
  BY <1>1, <1>2
<1> DEFINE product == storageCost * shardEntries
<1>4. product \in Nat
  BY <1>2
<1> HIDE DEF product
<1>5. product % Word \in Nat
  BY <1>3, <1>4
<1> QED BY <1>1, <1>5 DEF shardCost, product

LEMMA NothingToReward ==
  ASSUME ShardInv, NEW shards \in SUBSET Shard, NEW minedTs \in Time,
         \A s \in payableShards(shards) : infos[s].lastMineTime = minedTs
  PROVE  totalReward(shards, minedTs) = 0
<1> DEFINE Q == payableShards(shards)
           r == [s \in Q |-> rent(s, minedTs)]
<1>1. \A s \in Q : rent(s, minedTs) = 0
  <2> SUFFICES ASSUME NEW s \in Q PROVE rent(s, minedTs) = 0
    OBVIOUS
  <2> DEFINE d == pow(dcfFactor, minedTs - startTime)
  <2>1. d \in Nat
    BY DiscountType
  <2>2. rent(s, minedTs) = (shardCost * (d - d)) \div One
    BY DEF rent, _paymentIn, _paymentInInterval
  <2>3. d - d = 0 /\ shardCost \in Nat
    BY <2>1, CostTypes DEF ShardInv
  <2>4. shardCost * 0 = 0 /\ 0 \div One = 0
    BY <2>3, OneType
  <2> HIDE DEF d
  <2> QED  BY <2>2, <2>3, <2>4
<1>2. IsFiniteSet(Q)
  BY ShardsFinite DEF payableShards, ShardInv
<1>3. \A s \in Q : r[s] = 0
  BY <1>1
<1>4. totalReward(shards, minedTs) = SumFunctionOnSet(r, Q)
  <2>1. DOMAIN r = Q
    OBVIOUS
  <2> QED  BY <2>1, Zenon DEF totalReward, SumFunction
<1> HIDE DEF Q, r
<1>5. \A s \in Q : r[s] \in Nat /\ r[s] <= r[s] /\ r[s] + r[s] <= r[s]
  BY <1>3
<1>6. SumFunctionOnSet(r, Q) + SumFunctionOnSet(r, Q) <= SumFunctionOnSet(r, Q)
  BY <1>5, <1>2, SumTaken
<1>7. SumFunctionOnSet(r, Q) \in Nat
  BY <1>2, <1>5, SumRecursion
<1> QED  BY <1>4, <1>6, <1>7

(***************************************************************************)
(* No time at which a shard cannot be mined: the unsigned subtractions of  *)
(* expectedDiff() never revert, whenever the next block is, if and only if *)
(* the target interval is between cutoff and twice cutoff.  (Nothing in    *)
(* the constructor checks it.)                                             *)
(***************************************************************************)
THEOREM MinableAtAnyTime ==
  ASSUME NEW target \in Nat, NEW cut \in Nat \ {0}, NEW divisor \in Nat \ {0},
         NEW info \in MiningInfo
  PROVE  (\A time \in Nat : time >= info.lastMineTime =>
            expectedDiffDefined(info, time, target, cut, divisor))
         <=> cut <= target /\ target <= 2 * cut
<1> DEFINE last == info.lastMineTime
<1>1. last \in Nat
  BY DEF MiningInfo
<1>2. \A n \in Nat : n \div cut \in Nat /\ cut * (n \div cut) <= n /\ n < cut * (n \div cut) + cut
  BY QuotientRange
<1>3. \A n \in Nat : (n \div cut <= 1 <=> n < 2 * cut) /\ (n \div cut >= 1 <=> n >= cut)
  <2> TAKE n \in Nat
  <2> DEFINE q == n \div cut
  <2>1. q \in Nat /\ cut * q <= n /\ n < cut * q + cut
    BY <1>2
  <2> HIDE DEF q
  <2>2. CASE q = 0
    BY <2>1, <2>2 DEF q
  <2>3. CASE q = 1
    BY <2>1, <2>3 DEF q
  <2>4. CASE q >= 2
    <3>1. PICK e \in Nat : q = 2 + e
      <4>1. q - 2 \in Nat /\ q = 2 + (q - 2)
        BY <2>1, <2>4
      <4> QED BY <4>1
    <3>2. cut * q = 2 * cut + cut * e /\ cut * e \in Nat
      BY <3>1
    <3> QED BY <2>1, <2>4, <3>2 DEF q
  <2> QED BY <2>1, <2>2, <2>3, <2>4
<1> HIDE DEF last
<1>4. ASSUME NEW time \in Nat, NEW n \in Nat, time - info.lastMineTime = n
      PROVE  expectedDiffDefined(info, time, target, cut, divisor)
               <=> IF n < target THEN n < 2 * cut ELSE n >= cut
  <2>1. expectedDiffDefined(info, time, target, cut, divisor)
          <=> /\ n >= 0
              /\ cut # 0 /\ divisor # 0
              /\ IF n < target THEN n \div cut <= 1 ELSE n \div cut >= 1
    BY <1>4, Zenon DEF expectedDiffDefined
  <2>2. n >= 0 /\ cut # 0 /\ divisor # 0
    OBVIOUS
  <2> QED BY <2>1, <2>2, <1>3
<1>5. ASSUME cut <= target, target <= 2 * cut, NEW time \in Nat, time >= last
      PROVE  expectedDiffDefined(info, time, target, cut, divisor)
  <2>1. time - last \in Nat
    BY <1>1, <1>5
  <2>2. IF time - last < target THEN time - last < 2 * cut ELSE time - last >= cut
    BY <2>1, <1>5
  <2> QED BY <2>1, <2>2, <1>4 DEF last
<1>6. ASSUME \A time \in Nat : time >= last => expectedDiffDefined(info, time, target, cut, divisor)
      PROVE  cut <= target /\ target <= 2 * cut
  <2>1. \A n \in Nat : IF n < target THEN n < 2 * cut ELSE n >= cut
    <3> TAKE n \in Nat
    <3>1. PICK time \in Nat : time = last + n
      BY <1>1
    <3>2. time >= last /\ time - info.lastMineTime = n
      BY <3>1, <1>1 DEF last
    <3>3. expectedDiffDefined(info, time, target, cut, divisor)
      BY <3>2, <1>6
    <3> QED BY <3>2, <3>3, <1>4
  <2>2. target >= cut
    BY <2>1
  <2>3. target <= 2 * cut
    <3>1. 2 * cut \in Nat
      OBVIOUS
    <3> QED BY <2>1, <3>1
  <2> QED BY <2>2, <2>3
<1> QED BY <1>5, <1>6 DEF last

(***************************************************************************)
(* With such a target, no payable shard is ever one whose difficulty       *)
(* reverts, or is below the minimum: _preparePut() and mining only start   *)
(* intervals in the past.                                                  *)
(***************************************************************************)
THEOREM PayableShardsStayMinable == SSpec => []PayableShardsMinable
<1>1. ASSUME ShardInv PROVE PayableShardsMinable
  <2> SUFFICES ASSUME TargetFitsCutoff, NEW s \in payableShards(Shard)
               PROVE  diffDefined({s}, timestamp) /\ shardDiff(s, timestamp) >= minimumDiff
    BY DEF PayableShardsMinable
  <2>1. /\ s \in Shard /\ infos \in [Shard -> MiningInfo]
        /\ infos[s] \in MiningInfo /\ infos[s].lastMineTime <= timestamp
    BY <1>1 DEF ShardInv, RentStartsInPast, payableShards
  <2>2. timestamp \in Nat
    BY <1>1, ConstructorAssumption DEF ShardInv, SlotInv, TypeOK, Time
  <2>3. targetIntervalSec \in Nat /\ cutoff \in Nat \ {0} /\ diffAdjDivisor \in Nat \ {0}
    BY ShardAssumption DEF TargetFitsCutoff
  <2>4. expectedDiffDefined(infos[s], timestamp, targetIntervalSec, cutoff, diffAdjDivisor)
    BY <2>1, <2>2, <2>3, MinableAtAnyTime DEF TargetFitsCutoff
  <2>5. diffDefined({s}, timestamp)
    BY <2>4 DEF diffDefined
  <2> QED BY <2>1, <2>2, <2>5, ShardDiffAtLeast
<1> QED BY <1>1, ShardInvariant, PTL
-----------------------------------------------------------------------------
(***************************************************************************)
(* The wei that rents take.                                                *)
(***************************************************************************)
LEMMA RentSplits ==
  ASSUME SlotInv, NEW t \in Time, NEW u \in Time, t <= u
  PROVE  /\ rentFrom(t) \in Nat /\ rentFrom(u) \in Nat
         /\ _paymentIn(shardCost, t, u) \in Nat
         /\ rentFrom(u) + _paymentIn(shardCost, t, u) <= rentFrom(t)
<1> DEFINE before == pow(dcfFactor, t - startTime)
           after  == pow(dcfFactor, u - startTime)
<1>1. t - startTime <= u - startTime
  BY ConstructorAssumption DEF Time
<1>2. before \in Nat /\ after \in Nat /\ after <= before
  BY <1>1, DiscountType, PowAntitone
<1>3. /\ rentFrom(t) = (shardCost * before) \div One
      /\ rentFrom(u) = (shardCost * after) \div One
      /\ _paymentIn(shardCost, t, u) = (shardCost * (before - after)) \div One
  BY DEF rentFrom, _paymentInf, _paymentIn, _paymentInInterval
<1> HIDE DEF before, after
<1>4. PICK paid \in Nat : before = after + paid /\ before - after = paid
  <2>1. before - after \in Nat /\ before = after + (before - after)
    BY <1>2
  <2> QED BY <2>1
<1> DEFINE a == shardCost * after
           b == shardCost * paid
           c == shardCost * before
<1>5. a \in Nat /\ b \in Nat /\ c \in Nat /\ c = a + b
  BY <1>2, <1>4, CostTypes
<1> HIDE DEF a, b, c
<1> DEFINE q == a \div One
           r == b \div One
           s == c \div One
<1>6. /\ q \in Nat /\ One * q <= a /\ One * q \in Nat
      /\ r \in Nat /\ One * r <= b /\ One * r \in Nat
      /\ s \in Nat /\ c < One * s + One /\ One * s \in Nat
  BY <1>5, OneType, QuotientRange
<1> HIDE DEF q, r, s
<1>7. q + r <= s
  <2> SUFFICES ASSUME q + r > s PROVE FALSE
    BY <1>6
  <2>1. PICK e \in Nat : q + r = s + 1 + e
    <3>1. q + r - s - 1 \in Nat /\ q + r = s + 1 + (q + r - s - 1)
      BY <1>6
    <3> QED BY <3>1
  <2>2. One * q + One * r = One * s + One + One * e /\ One * e \in Nat
    <3>1. One * (q + r) = One * q + One * r
      BY <1>6, OneType
    <3>2. One * (s + 1 + e) = One * s + One + One * e /\ One * e \in Nat
      BY <1>6, OneType
    <3> QED BY <2>1, <3>1, <3>2
  <2> QED BY <2>2, <1>5, <1>6, OneType
<1>8. rentFrom(t) = s /\ rentFrom(u) = q /\ _paymentIn(shardCost, t, u) = r
  BY <1>3, <1>4 DEF a, b, c, q, r, s
<1> QED BY <1>6, <1>7, <1>8

LEMMA RentFalls ==
  ASSUME SlotInv, NEW t \in Time, NEW u \in Time, t <= u
  PROVE  rentFrom(t) \in Nat /\ rentFrom(u) \in Nat /\ rentFrom(u) <= rentFrom(t)
BY RentSplits

LEMMA RentType == ASSUME SlotInv, NEW t \in Time PROVE rentFrom(t) \in Nat
<1>1. t <= t
  BY ConstructorAssumption DEF Time
<1> QED BY <1>1, RentSplits

(***************************************************************************)
(* Rounding is never in favour of the slots of a shard.                    *)
(***************************************************************************)
LEMMA SlotsBelowRent ==
  ASSUME ShardCostFits, SlotInv, NEW t \in Time
  PROVE  shardEntries * priceAt[t] <= rentFrom(t) /\ shardEntries * priceAt[t] \in Nat
<1> DEFINE d == pow(dcfFactor, t - startTime)
           q == (storageCost * d) \div One
<1>1. d \in Nat
  BY DiscountType
<1>2. priceAt[t] = q /\ rentFrom(t) = (shardCost * d) \div One
  BY PriceDef DEF rentFrom, _paymentInf
<1> HIDE DEF d
<1>3. storageCost * d \in Nat /\ shardCost * d \in Nat
  BY <1>1, CostTypes
<1>4. q \in Nat /\ q * One <= storageCost * d /\ q * One \in Nat
  BY <1>3, OneType, DivDef
<1> HIDE DEF q
<1>5. shardEntries * (q * One) <= shardEntries * (storageCost * d)
  BY <1>3, <1>4, CostTypes, ScaleMono
<1>6. shardEntries * (q * One) = (shardEntries * q) * One
  BY <1>4, CostTypes
<1>7. shardEntries * (storageCost * d) = shardCost * d
  <2>1. storageCost * shardEntries \in Nat /\ Word \in Nat /\ storageCost * shardEntries < Word
    BY CostTypes, PowAssumption DEF ShardCostFits
  <2>2. shardCost = storageCost * shardEntries
    <3>1. \A a, b \in Nat : a < b => a % b = a
      OBVIOUS
    <3> QED BY <2>1, <3>1 DEF shardCost
  <2> QED BY <1>1, <2>2, CostTypes
<1>8. shardEntries * q \in Nat /\ (shardEntries * q) * One \in Nat
  BY <1>4, CostTypes
<1>9. ((shardEntries * q) * One) \div One <= (shardCost * d) \div One
  BY <1>3, <1>5, <1>6, <1>7, <1>8, OneType, DivMono
<1>10. ((shardEntries * q) * One) \div One = shardEntries * q
  BY <1>8, OneType, DivOfProduct
<1> QED BY <1>2, <1>8, <1>9, <1>10
-----------------------------------------------------------------------------
(***************************************************************************)
(* What the contract owes: the rents of the payable shards, and the        *)
(* refunds of the shard being filled.                                      *)
(***************************************************************************)
payables == payableShards(Shard)
rents    == [s \in payables |-> rentFrom(infos[s].lastMineTime)]
owedRent == SumFunctionOnSet(rents, payables)
filled   == lastKvIdx % shardEntries

refunds  == filled * upfrontPayment
Covered  == balance >= owedRent + refunds

LEMMA FundedIs == Funded <=> Covered
<1>1. DOMAIN rents = payables
  BY DEF rents
<1> QED BY <1>1 DEF Funded, SumFunction, rents, payables, owedRent, filled, refunds, Covered

LEMMA FundedIsNext == Funded' <=> Covered'
BY FundedIs, PTL

LEMMA PayableRents ==
  ASSUME ShardInv
  PROVE  /\ payables \subseteq Shard /\ IsFiniteSet(payables)
         /\ \A s \in payables : /\ infos[s].lastMineTime \in Time
                                /\ infos[s].lastMineTime <= timestamp
                                /\ rents[s] = rentFrom(infos[s].lastMineTime)
                                /\ rents[s] \in Nat
         /\ owedRent \in Nat
         /\ upfrontPayment \in Nat
         /\ filled \in Nat
         /\ refunds \in Nat
<1>1. payables \subseteq Shard /\ IsFiniteSet(payables)
  BY ShardsFinite DEF payables, payableShards, ShardInv
<1>2. \A s \in payables : infos[s].lastMineTime \in startTime..timestamp
  BY DEF payables, payableShards, ShardInv, PayableShardsOpened
<1>3. timestamp \in Time /\ startTime \in Nat /\ MaxTime \in Nat /\ timestamp \in Nat /\ timestamp <= MaxTime
  BY ConstructorAssumption DEF ShardInv, SlotInv, TypeOK, Time
<1>4. \A s \in payables : infos[s].lastMineTime \in Time /\ infos[s].lastMineTime <= timestamp
  BY <1>2, <1>3 DEF Time
<1>5. \A s \in payables : rents[s] = rentFrom(infos[s].lastMineTime)
  BY DEF rents
<1>6. \A s \in payables : rents[s] \in Nat
  BY <1>4, <1>5, RentType DEF ShardInv
<1>7. owedRent \in Nat
  BY <1>1, <1>6, SumRecursion DEF owedRent
<1>8. upfrontPayment \in Nat
  BY <1>3, PriceType DEF upfrontPayment
<1>9. filled \in Nat
  <2>1. shardEntries \in Nat \ {0} /\ lastKvIdx \in Nat
    BY ShardTypes DEF ShardInv
  <2> QED BY <2>1 DEF filled
<1>10. refunds \in Nat
  BY <1>8, <1>9 DEF refunds
<1> QED BY <1>1, <1>4, <1>5, <1>6, <1>7, <1>8, <1>9, <1>10

OwedTyped == /\ IsFiniteSet(payables)
             /\ owedRent \in Nat /\ filled \in Nat /\ refunds \in Nat
             /\ \A s \in payables : /\ rents[s] \in Nat
                                    /\ rents[s] = rentFrom(infos[s].lastMineTime)
                                    /\ infos[s].lastMineTime \in Time

LEMMA OwedNext == ShardInv' => OwedTyped'
<1>1. ShardInv => OwedTyped
  BY PayableRents DEF OwedTyped
<1> QED BY <1>1, PTL

(***************************************************************************)
(* A shard is filled slot by slot.                                         *)
(***************************************************************************)
LEMMA FilledNext ==
  ASSUME NEW n \in Nat, NEW d \in Nat \ {0}
  PROVE  /\ n % d \in Nat /\ n % d < d
         /\ (n + 1) % d # 0 => /\ (n + 1) % d = (n % d) + 1
                               /\ (n + 1) \div d = n \div d
         /\ (n + 1) % d = 0 => /\ n % d = d - 1
                               /\ (n + 1) \div d = n \div d + 1
<1> DEFINE q == n \div d
           m == n + 1
           r == m \div d
<1>1. q \in Nat /\ d * q <= n /\ n < d * q + d /\ d * q \in Nat /\ n % d = n - d * q
  BY QuotientRange
<1>2. m \in Nat /\ m = n + 1
  OBVIOUS
<1> HIDE DEF m
<1>3. r \in Nat /\ d * r \in Nat /\ m % d = m - d * r
  BY <1>2, QuotientRange
<1>4. (m % d = 0 => r = q + 1) /\ (m % d # 0 => r = q)
  BY <1>2, QuotientOfNext
<1> HIDE DEF q, r
<1>5. r = q + 1 => d * r = d * q + d
  BY <1>1
<1>6. /\ m % d # 0 => m % d = (n % d) + 1
      /\ m % d = 0 => n % d = d - 1
  BY <1>1, <1>2, <1>3, <1>4, <1>5
<1> QED BY <1>1, <1>4, <1>6 DEF m, q, r

LEMMA MinableGrows ==
  ASSUME lastKvIdx \in Nat, lastKvIdx' \in Nat, lastKvIdx <= lastKvIdx', shardEntries \in Nat \ {0}
  PROVE  /\ lastMinableShardIdx \in Nat /\ lastMinableShardIdx' \in Nat
         /\ lastMinableShardIdx <= lastMinableShardIdx'
<1> DEFINE q == lastKvIdx \div shardEntries
           r == lastKvIdx' \div shardEntries
<1>1. q \in Nat /\ r \in Nat /\ q <= r
  BY QuotientRange, QuotientMonotone
<1>2. lastMinableShardIdx = q + 1 /\ lastMinableShardIdx' = r + 1
  BY DEF lastMinableShardIdx, shardEntries
<1> HIDE DEF q, r
<1> QED BY <1>1, <1>2

LEMMA CoversNext ==
  ASSUME NEW o \in Nat, o = owedRent', NEW r \in Nat, r = refunds', balance' >= o + r
  PROVE  Funded'
<1>1. balance' >= owedRent' + refunds'
  BY Zenon
<1> QED BY <1>1, FundedIsNext DEF Covered

(***************************************************************************)
(* One more shard is payable, or one less.                                 *)
(***************************************************************************)
LEMMA PayablesAre ==
  /\ \A t : t \in payables <=> t \in Shard /\ t <= lastMinableShardIdx
  /\ \A t : t \in payables' <=> t \in Shard /\ t <= lastMinableShardIdx'
BY DEF payables, payableShards, Payable

LEMMA OneMorePayable ==
  ASSUME Shard \subseteq Nat, NEW n \in Nat, n + 1 \in Shard,
         lastMinableShardIdx = n, lastMinableShardIdx' = n + 1
  PROVE  n + 1 \in payables' /\ n + 1 \notin payables /\ payables' \ {n + 1} = payables
<1>1. /\ \A t : t \in payables <=> t \in Shard /\ t <= n
      /\ \A t : t \in payables' <=> t \in Shard /\ t <= n + 1
  BY PayablesAre, Zenon
<1>2. \A t \in Nat : (t <= n + 1 /\ t # n + 1) <=> t <= n
  OBVIOUS
<1>3. n + 1 <= n + 1 /\ ~(n + 1 <= n)
  OBVIOUS
<1>4. \A t : t \in payables' \ {n + 1} <=> t \in payables
  BY <1>1, <1>2, Zenon
<1> QED BY <1>1, <1>3, <1>4, Zenon

LEMMA OneLessPayable ==
  ASSUME Shard \subseteq Nat, NEW n \in Nat, n + 1 \in Shard,
         lastMinableShardIdx = n + 1, lastMinableShardIdx' = n
  PROVE  n + 1 \in payables /\ payables' = payables \ {n + 1}
<1>1. /\ \A t : t \in payables <=> t \in Shard /\ t <= n + 1
      /\ \A t : t \in payables' <=> t \in Shard /\ t <= n
  BY PayablesAre, Zenon
<1>2. \A t \in Nat : (t <= n + 1 /\ t # n + 1) <=> t <= n
  OBVIOUS
<1>3. n + 1 <= n + 1
  OBVIOUS
<1>4. \A t : t \in payables \ {n + 1} <=> t \in payables'
  BY <1>1, <1>2, Zenon
<1> QED BY <1>1, <1>3, <1>4, Zenon

LEMMA MinableIs ==
  ASSUME lastKvIdx \in Nat, lastKvIdx' \in Nat, shardEntries \in Nat \ {0}
  PROVE  /\ lastMinableShardIdx = lastKvIdx \div shardEntries + 1
         /\ lastMinableShardIdx' = lastKvIdx' \div shardEntries + 1
         /\ lastKvIdx \div shardEntries \in Nat
         /\ lastKvIdx' \div shardEntries \in Nat
BY QuotientRange DEF lastMinableShardIdx

LEMMA SameOwed ==
  ASSUME ShardInv, ShardInv', UNCHANGED <<infos, lastKvIdx>>
  PROVE  payables' = payables /\ owedRent' = owedRent /\ filled' = filled
<1>1. payables' = payables /\ filled' = filled
  BY DEF payables, payableShards, Payable, lastMinableShardIdx, filled
<1>2. rents' = rents
  BY <1>1 DEF rents
<1> QED BY <1>1, <1>2 DEF owedRent

(***************************************************************************)
(* A put pays for its slot; the last slot of a shard completes what the    *)
(* rent for ever of the shard it opens costs.                              *)
(***************************************************************************)
LEMMA FundedPut ==
  ASSUME NoDust, ShardInv, ShardInv', Funded, SPut
  PROVE  Funded'
<1>1. PICK s \in SKey, d \in Data, value \in Offers : put(s, d, value)
  BY DEF SPut, Put
<1>2. /\ timestamp' = timestamp /\ balance' = balance + value /\ value \in Nat
      /\ \/ lastKvIdx' = lastKvIdx
         \/ lastKvIdx' = lastKvIdx + 1 /\ value >= upfrontPayment
  BY <1>1 DEF put, appendSlot, keepSlot, Offers
<1>3. /\ payables \subseteq Shard /\ IsFiniteSet(payables)
      /\ owedRent \in Nat /\ upfrontPayment \in Nat /\ filled \in Nat
      /\ upfrontPayment' = upfrontPayment
  BY <1>2, PayableRents DEF upfrontPayment
<1>4. /\ IsFiniteSet(payables') /\ owedRent' \in Nat /\ filled' \in Nat
      /\ \A t \in payables' : /\ rents'[t] \in Nat
                              /\ rents'[t] = rentFrom(infos'[t].lastMineTime)
                              /\ infos'[t].lastMineTime \in Time
  BY OwedNext DEF OwedTyped
<1>5. /\ shardEntries \in Nat \ {0} /\ lastKvIdx \in Nat /\ balance \in Nat
      /\ Shard \subseteq Nat /\ lastMinableShardIdx \in Nat
      /\ lastKvIdx' \in Nat /\ lastKvIdx <= lastKvIdx'
  BY <1>2, ShardTypes, ConstructorAssumption DEF ShardInv, SlotInv, TypeOK
<1>6. payables \subseteq payables'
  <2>1. lastMinableShardIdx' \in Nat /\ lastMinableShardIdx <= lastMinableShardIdx'
    BY <1>5, MinableGrows
  <2>2. \A t \in Shard : Payable(t) => Payable(t)'
    BY <2>1, <1>5 DEF Payable
  <2> QED BY <2>2 DEF payables, payableShards
<1>7. \A t \in payables : rents'[t] <= rents[t] /\ rents[t] \in Nat /\ rents'[t] \in Nat
  <2> SUFFICES ASSUME NEW t \in payables
               PROVE  rents'[t] <= rents[t] /\ rents[t] \in Nat /\ rents'[t] \in Nat
    OBVIOUS
  <2>1. /\ infos[t].lastMineTime \in Time /\ infos[t].lastMineTime <= timestamp
        /\ rents[t] = rentFrom(infos[t].lastMineTime) /\ rents[t] \in Nat
    BY PayableRents
  <2>2. infos'[t].lastMineTime \in {infos[t].lastMineTime, timestamp}
    BY <1>3, HookOpens DEF SPut
  <2>3. infos[t].lastMineTime <= infos'[t].lastMineTime
    BY <2>1, <2>2, ConstructorAssumption DEF Time
  <2>4. /\ infos'[t].lastMineTime \in Time
        /\ rents'[t] = rentFrom(infos'[t].lastMineTime) /\ rents'[t] \in Nat
    BY <1>4, <1>6
  <2> QED BY <2>1, <2>3, <2>4, RentFalls DEF ShardInv
<1>8. PICK total \in Nat : total = SumFunctionOnSet(rents', payables) /\ total <= owedRent
  <2>1. SumFunctionOnSet(rents', payables) \in Nat /\ SumFunctionOnSet(rents', payables) <= owedRent
    BY <1>3, <1>7, SumFalls, SumRecursion DEF owedRent
  <2> QED BY <2>1, Zenon
<1>9. PICK o \in Nat : o = owedRent'
  BY <1>4
<1>10. PICK r \in Nat : r = refunds'
  BY OwedNext DEF OwedTyped
<1>11. balance >= owedRent + refunds /\ refunds \in Nat
  BY FundedIs, PayableRents DEF Covered
<1>12. CASE lastKvIdx' = lastKvIdx
  <2>1. payables' = payables /\ refunds' = refunds
    BY <1>3, <1>12 DEF payables, payableShards, Payable, lastMinableShardIdx, filled, refunds
  <2>2. o = total
    BY <2>1, <1>8, <1>9, Zenon DEF owedRent
  <2>3. r = refunds
    BY <2>1, <1>10, Zenon
  <2>4. balance' >= o + r
    BY <2>2, <2>3, <1>2, <1>3, <1>5, <1>8, <1>11
  <2> QED BY <2>4, <1>9, <1>10, CoversNext
<1>13. CASE lastKvIdx' = lastKvIdx + 1 /\ value >= upfrontPayment /\ (lastKvIdx + 1) % shardEntries # 0
  <2>1. lastKvIdx' \div shardEntries = lastKvIdx \div shardEntries /\ filled' = filled + 1
    BY <1>5, <1>13, FilledNext DEF filled, shardEntries
  <2>2. payables' = payables
    BY <2>1 DEF payables, payableShards, Payable, lastMinableShardIdx, shardEntries
  <2>3. o = total
    BY <2>2, <1>8, <1>9, Zenon DEF owedRent
  <2>4. r = refunds + upfrontPayment
    <3>1. r = (filled + 1) * upfrontPayment
      BY <2>1, <1>3, <1>10, Zenon DEF refunds
    <3>2. (filled + 1) * upfrontPayment = filled * upfrontPayment + upfrontPayment
      BY <1>3, MulSucc
    <3> QED BY <3>1, <3>2, Zenon DEF refunds
  <2>5. balance' >= o + r
    BY <2>3, <2>4, <1>2, <1>3, <1>5, <1>8, <1>11, <1>13
  <2> QED BY <2>5, <1>9, <1>10, CoversNext
<1>14. CASE lastKvIdx' = lastKvIdx + 1 /\ value >= upfrontPayment /\ (lastKvIdx + 1) % shardEntries = 0
  <2>1. /\ lastKvIdx' \div shardEntries = lastKvIdx \div shardEntries + 1
        /\ filled' = 0 /\ filled = shardEntries - 1
    BY <1>5, <1>14, FilledNext DEF filled, shardEntries
  <2>2. PICK n \in Nat : n = lastKvIdx \div shardEntries + 1
    BY <1>5, MinableIs
  <2> DEFINE new == n + 1
  <2>3. lastMinableShardIdx = n /\ lastMinableShardIdx' = new
    BY <2>1, <2>2, <1>5, MinableIs, Zenon
  <2>4. new \in Shard
    <3>1. lastKvIdx' <= MaxKvIdx /\ MaxKvIdx \in Nat
      BY <1>14, ShardTypes DEF SPut, _preparePut, ShardInv
    <3>2. lastKvIdx' \div shardEntries <= MaxKvIdx \div shardEntries
          /\ lastKvIdx' \div shardEntries \in Nat /\ MaxKvIdx \div shardEntries \in Nat
      BY <3>1, <1>5, QuotientMonotone, QuotientRange
    <3>3. lastKvIdx' \div shardEntries = n
      BY <2>1, <2>2, Zenon
    <3> QED BY <3>2, <3>3 DEF Shard
  <2>5. new \in payables' /\ new \notin payables /\ payables' \ {new} = payables
    BY <2>3, <2>4, <1>5, OneMorePayable
  <2>6. infos'[new].lastMineTime = timestamp
    <3>1. new <= (lastKvIdx + 1) \div shardEntries + 1
      BY <2>1, <2>2, <2>3, <1>14
    <3>2. ~Payable(new)
      BY <2>4, <2>5 DEF payables, payableShards
    <3> QED BY <3>1, <3>2, <2>4, HookOpens DEF SPut, Payable
  <2>7. PICK rent0 \in Nat : rent0 = rents'[new]
    BY <2>5, <1>4
  <2>8. PICK cost \in Nat : cost = shardEntries * upfrontPayment
    BY <1>3, <1>5
  <2>9. rent0 <= cost
    <3>1. rents'[new] = rentFrom(timestamp) /\ timestamp \in Time
      BY <2>5, <2>6, <1>4
    <3>2. rentFrom(timestamp) <= shardEntries * upfrontPayment
      BY <3>1 DEF NoDust, upfrontPayment
    <3> QED BY <3>1, <3>2, <2>7, <2>8, Zenon
  <2>10. o = rent0 + total
    <3>1. SumFunctionOnSet(rents', payables') = rents'[new] + SumFunctionOnSet(rents', payables' \ {new})
      BY <2>5, <1>4, SumRemove
    <3> QED BY <3>1, <2>5, <2>7, <1>8, <1>9, Zenon DEF owedRent
  <2>11. cost = refunds + upfrontPayment
    <3>1. shardEntries = filled + 1
      BY <2>1, <1>5
    <3>2. (filled + 1) * upfrontPayment = filled * upfrontPayment + upfrontPayment
      BY <1>3, MulSucc
    <3> QED BY <3>1, <3>2, <2>8, Zenon DEF refunds
  <2>12. r = 0
    <3>1. r = 0 * upfrontPayment
      BY <2>1, <1>3, <1>10, Zenon DEF refunds
    <3> QED BY <3>1, <1>3
  <2>13. balance' >= o + r
    BY <2>9, <2>10, <2>11, <2>12, <1>2, <1>3, <1>5, <1>8, <1>11, <1>14
  <2> QED BY <2>13, <1>9, <1>10, CoversNext
<1> QED BY <1>2, <1>12, <1>13, <1>14

(***************************************************************************)
(* A remove refunds a slot of the shard being filled, or the last slot of  *)
(* a full shard: then the rent of a shard that is not payable any more     *)
(* makes up for the refunds of the others.                                 *)
(***************************************************************************)
LEMMA FundedRemove ==
  ASSUME ShardCostFits, ShardInv, ShardInv', Funded, SRemove
  PROVE  Funded'
<1>1. /\ timestamp' = timestamp /\ infos' = infos
      /\ lastKvIdx > 0 /\ lastKvIdx' = lastKvIdx - 1
      /\ balance >= upfrontPayment /\ balance' = balance - upfrontPayment
  BY DEF SRemove, Remove, removeTo
<1>2. /\ payables \subseteq Shard /\ IsFiniteSet(payables)
      /\ \A s \in payables : /\ infos[s].lastMineTime \in Time
                             /\ infos[s].lastMineTime <= timestamp
                             /\ rents[s] = rentFrom(infos[s].lastMineTime)
                             /\ rents[s] \in Nat
      /\ owedRent \in Nat /\ upfrontPayment \in Nat /\ filled \in Nat
      /\ upfrontPayment' = upfrontPayment
  BY <1>1, PayableRents DEF upfrontPayment
<1>3. IsFiniteSet(payables') /\ owedRent' \in Nat /\ filled' \in Nat
  BY OwedNext DEF OwedTyped
<1>4. /\ shardEntries \in Nat \ {0} /\ lastKvIdx \in Nat /\ balance \in Nat
      /\ lastKvIdx' \in Nat /\ lastKvIdx = lastKvIdx' + 1
      /\ Shard \subseteq Nat /\ lastMinableShardIdx \in Nat
  BY <1>1, ShardTypes, ConstructorAssumption DEF ShardInv, SlotInv, TypeOK
<1>5. balance >= owedRent + refunds /\ refunds \in Nat
  BY FundedIs, PayableRents DEF Covered
<1>6. PICK o \in Nat : o = owedRent'
  BY <1>3
<1>7. PICK r \in Nat : r = refunds'
  BY OwedNext DEF OwedTyped
<1>8. PICK k \in Nat : k = filled'
  BY <1>3
<1>9. r = k * upfrontPayment
  BY <1>2, <1>7, <1>8, Zenon DEF refunds
<1>10. CASE lastKvIdx % shardEntries # 0
  <2>1. lastKvIdx' \div shardEntries = lastKvIdx \div shardEntries /\ filled = filled' + 1
    BY <1>4, <1>10, FilledNext DEF filled, shardEntries
  <2>2. payables' = payables
    BY <2>1 DEF payables, payableShards, Payable, lastMinableShardIdx, shardEntries
  <2>3. rents' = rents
    BY <2>2, <1>1 DEF rents
  <2>4. o = owedRent
    BY <2>2, <2>3, <1>6, Zenon DEF owedRent
  <2>5. refunds = r + upfrontPayment
    <3>1. filled = k + 1
      BY <2>1, <1>8, Zenon
    <3>2. (k + 1) * upfrontPayment = k * upfrontPayment + upfrontPayment
      BY <1>2, MulSucc
    <3> QED BY <3>1, <3>2, <1>9, Zenon DEF refunds
  <2>6. balance' >= o + r
    BY <2>4, <2>5, <1>1, <1>2, <1>4, <1>5
  <2> QED BY <2>6, <1>6, <1>7, CoversNext
<1>11. CASE lastKvIdx % shardEntries = 0
  <2>1. /\ lastKvIdx \div shardEntries = lastKvIdx' \div shardEntries + 1
        /\ filled = 0 /\ filled' = shardEntries - 1
    BY <1>4, <1>11, FilledNext DEF filled, shardEntries
  <2>2. PICK n \in Nat : n = lastKvIdx' \div shardEntries + 1
    <3>1. lastKvIdx' \div shardEntries \in Nat
      BY <1>4, MinableIs
    <3> QED BY <3>1
  <2> DEFINE old == n + 1
  <2>3. lastMinableShardIdx = old /\ lastMinableShardIdx' = n
    BY <2>1, <2>2, <1>4, MinableIs, Zenon
  <2>4. old \in Shard
    <3>1. lastKvIdx <= MaxKvIdx /\ MaxKvIdx \in Nat
      BY ShardTypes DEF ShardInv
    <3>2. lastKvIdx \div shardEntries <= MaxKvIdx \div shardEntries
          /\ lastKvIdx \div shardEntries \in Nat /\ MaxKvIdx \div shardEntries \in Nat
      BY <3>1, <1>4, QuotientMonotone, QuotientRange
    <3>3. lastKvIdx \div shardEntries = n
      BY <2>1, <2>2, Zenon
    <3> QED BY <3>2, <3>3 DEF Shard
  <2>5. old \in payables /\ payables' = payables \ {old}
    BY <2>3, <2>4, <1>4, OneLessPayable
  <2>6. \A s \in payables' : rents'[s] = rents[s]
    BY <2>5, <1>1 DEF rents
  <2>7. PICK rest \in Nat : rest = SumFunctionOnSet(rents, payables') /\ o <= rest
    <3>1. \A s \in payables' : rents[s] \in Nat /\ rents'[s] \in Nat /\ rents'[s] <= rents[s]
      BY <2>5, <2>6, <1>2
    <3>2. SumFunctionOnSet(rents', payables') <= SumFunctionOnSet(rents, payables')
          /\ SumFunctionOnSet(rents, payables') \in Nat
      BY <3>1, <1>3, SumFalls, SumRecursion
    <3> QED BY <3>2, <1>6, Zenon DEF owedRent
  <2>8. PICK rent0 \in Nat : rent0 = rents[old]
    BY <2>5, <1>2
  <2>9. owedRent = rent0 + rest
    <3>1. owedRent = rents[old] + SumFunctionOnSet(rents, payables \ {old})
      BY <2>5, <1>2, SumRemove DEF owedRent
    <3> QED BY <3>1, <2>5, <2>7, <2>8, Zenon
  <2>10. PICK cost \in Nat : cost = shardEntries * upfrontPayment
    BY <1>2, <1>4
  <2>11. cost <= rent0
    <3>1. timestamp \in Time
      BY DEF ShardInv, SlotInv, TypeOK
    <3>2. rentFrom(timestamp) <= rents[old] /\ rentFrom(timestamp) \in Nat
      BY <3>1, <2>5, <1>2, RentFalls DEF ShardInv
    <3>3. shardEntries * upfrontPayment <= rentFrom(timestamp)
      BY <3>1, SlotsBelowRent DEF upfrontPayment, ShardInv
    <3>4. cost <= rentFrom(timestamp) /\ rentFrom(timestamp) <= rent0
      BY <3>2, <3>3, <2>8, <2>10, Zenon
    <3> HIDE DEF old
    <3> QED BY <3>2, <3>4
  <2>12. cost = r + upfrontPayment
    <3>1. shardEntries = k + 1
      <4>1. k = shardEntries - 1
        BY <2>1, <1>8, Zenon
      <4> QED BY <4>1, <1>4
    <3>2. (k + 1) * upfrontPayment = k * upfrontPayment + upfrontPayment
      BY <1>2, MulSucc
    <3> QED BY <3>1, <3>2, <2>10, <1>9, Zenon
  <2>13. balance' >= o + r
    BY <2>7, <2>9, <2>11, <2>12, <1>1, <1>2, <1>4, <1>5
  <2> QED BY <2>13, <1>6, <1>7, CoversNext
<1> QED BY <1>10, <1>11

LEMMA FundedTick ==
  ASSUME ShardInv, ShardInv', Funded, STick
  PROVE  Funded'
<1>1. /\ timestamp \in Time /\ timestamp' \in Time /\ timestamp <= timestamp'
      /\ infos' = infos /\ lastKvIdx' = lastKvIdx /\ balance' = balance
  BY ConstructorAssumption DEF STick, Tick, ShardInv, SlotInv, TypeOK, Time
<1>2. owedRent' = owedRent /\ filled' = filled
  BY <1>1, SameOwed
<1>3. owedRent \in Nat /\ filled \in Nat /\ upfrontPayment \in Nat
  BY PayableRents
<1>4. upfrontPayment' \in Nat /\ upfrontPayment' <= upfrontPayment
  BY <1>1, PriceFalls, PriceType DEF upfrontPayment
<1>5. PICK o \in Nat : o = owedRent
  BY <1>3
<1>6. PICK r \in Nat : r = refunds'
  BY OwedNext DEF OwedTyped
<1>7. r <= refunds /\ refunds \in Nat
  <2>1. filled * upfrontPayment' <= filled * upfrontPayment
    BY <1>3, <1>4, ScaleMono
  <2>2. r = filled * upfrontPayment'
    BY <1>2, <1>6, Zenon DEF refunds
  <2> QED BY <2>1, <2>2, PayableRents, Zenon DEF refunds
<1>8. balance \in Nat /\ balance >= owedRent + refunds
  BY FundedIs, ConstructorAssumption DEF Covered, ShardInv, SlotInv, TypeOK
<1>9. balance' >= o + r
  BY <1>1, <1>7, <1>8, <1>5
<1>10. o = owedRent'
  BY <1>2, <1>5, Zenon
<1> QED BY <1>9, <1>6, <1>10, CoversNext

LEMMA FundedSend ==
  ASSUME ShardInv, ShardInv', Funded, sendValue(1)
  PROVE  Funded'
<1>1. balance' = balance + 1 /\ UNCHANGED <<infos, lastKvIdx, timestamp>>
  BY DEF sendValue
<1>2. owedRent' = owedRent /\ filled' = filled /\ upfrontPayment' = upfrontPayment
  BY <1>1, SameOwed DEF upfrontPayment
<1>3. owedRent \in Nat /\ refunds \in Nat /\ refunds' = refunds
  BY <1>2, PayableRents DEF refunds
<1>4. balance \in Nat /\ balance >= owedRent + refunds
  BY FundedIs, ConstructorAssumption DEF Covered, ShardInv, SlotInv, TypeOK
<1>5. balance' >= owedRent + refunds
  BY <1>1, <1>3, <1>4
<1>6. owedRent = owedRent' /\ refunds = refunds'
  BY <1>2, <1>3, Zenon
<1> QED BY <1>3, <1>5, <1>6, CoversNext

(***************************************************************************)
(* A block takes what its shards do not owe any more.                      *)
(***************************************************************************)
LEMMA RewardTaken ==
  ASSUME ShardInv, NEW shards \in SUBSET Shard, NEW minedTs \in Time,
         diffDefined(shards, minedTs),
         NEW later,
         \A s \in payables : later[s] = IF s \in shards THEN rentFrom(minedTs) ELSE rents[s]
  PROVE  /\ totalReward(shards, minedTs) \in Nat
         /\ SumFunctionOnSet(later, payables) \in Nat
         /\ SumFunctionOnSet(later, payables) + totalReward(shards, minedTs) <= owedRent
<1> DEFINE Q == payableShards(shards)
           r == [s \in Q |-> rent(s, minedTs)]
<1>1. /\ Q \in SUBSET payables /\ \A s \in payables : s \in shards <=> s \in Q
  BY DEF payables, payableShards
<1>2. /\ IsFiniteSet(payables) /\ payables \subseteq Shard
      /\ \A s \in payables : /\ infos[s].lastMineTime \in Time
                             /\ rents[s] = rentFrom(infos[s].lastMineTime)
                             /\ rents[s] \in Nat
  BY PayableRents
<1>3. \A s \in Q : infos[s].lastMineTime <= minedTs
  <2> SUFFICES ASSUME NEW s \in Q PROVE infos[s].lastMineTime <= minedTs
    OBVIOUS
  <2>1. minedTs - infos[s].lastMineTime >= 0
    BY DEF diffDefined, expectedDiffDefined, payableShards
  <2>2. infos[s].lastMineTime \in Nat /\ minedTs \in Nat
    BY <1>1, <1>2, ConstructorAssumption DEF Time
  <2> QED BY <2>1, <2>2
<1>4. \A s \in Q : r[s] = _paymentIn(shardCost, infos[s].lastMineTime, minedTs)
  BY DEF rent
<1> HIDE DEF Q, r
<1>5. \A s \in Q : /\ r[s] \in Nat /\ rentFrom(minedTs) \in Nat
                   /\ rentFrom(minedTs) + r[s] <= rents[s]
  BY <1>1, <1>2, <1>3, <1>4, RentSplits DEF ShardInv
<1>6. \A s \in payables : rents[s] \in Nat /\ later[s] \in Nat /\ later[s] <= rents[s]
  BY <1>1, <1>2, <1>5
<1>7. \A s \in Q : r[s] \in Nat /\ later[s] + r[s] <= rents[s]
  BY <1>1, <1>5
<1>8. SumFunctionOnSet(later, payables) + SumFunctionOnSet(r, Q) <= owedRent
  BY <1>1, <1>2, <1>6, <1>7, SumTaken DEF owedRent
<1>9. SumFunctionOnSet(later, payables) \in Nat
  BY <1>2, <1>6, SumRecursion
<1>10. SumFunctionOnSet(r, Q) \in Nat
  <2>1. IsFiniteSet(Q)
    BY <1>1, <1>2, FS_Subset
  <2> QED BY <2>1, <1>7, SumRecursion
<1>11. totalReward(shards, minedTs) = SumFunctionOnSet(r, Q)
  <2>1. DOMAIN r = Q
    BY DEF r
  <2> QED BY <2>1, Zenon DEF totalReward, SumFunction, Q, r
<1> QED BY <1>8, <1>9, <1>10, <1>11

LEMMA FundedMine ==
  ASSUME ShardInv, ShardInv', Funded, SMine
  PROVE  Funded'
<1>1. PICK start \in Shard, bits \in ShardLenBits, minedTs \in Time, hash \in MinedHash :
        /\ minedTs <= timestamp
        /\ diffDefined(shardRange(start, bits), minedTs)
        /\ _rewardMiner(shardRange(start, bits), minedTs, hash)
  BY DEF SMine
<1> DEFINE shards == shardRange(start, bits)
<1>2. shards \in SUBSET Shard
  BY DEF shardRange
<1> HIDE DEF shards
<1>3. /\ minedTs <= timestamp /\ diffDefined(shards, minedTs)
      /\ UNCHANGED <<lastKvIdx, timestamp>>
      /\ balance' = balance - totalReward(shards, minedTs)
      /\ infos' = [s \in Shard |->
                     IF s \in payableShards(shards)
                     THEN updated(infos[s], minedTs, shardDiff(s, minedTs), hash)
                     ELSE infos[s]]
  BY <1>1 DEF _rewardMiner, shards
<1>4. payables' = payables /\ filled' = filled /\ upfrontPayment' = upfrontPayment
  BY <1>3 DEF payables, payableShards, Payable, lastMinableShardIdx, filled, upfrontPayment
<1>5. \A s \in payables : rents'[s] = IF s \in shards THEN rentFrom(minedTs) ELSE rents[s]
  <2> SUFFICES ASSUME NEW s \in payables
               PROVE  rents'[s] = IF s \in shards THEN rentFrom(minedTs) ELSE rents[s]
    OBVIOUS
  <2>1. rents'[s] = rentFrom(infos'[s].lastMineTime) /\ rents[s] = rentFrom(infos[s].lastMineTime)
    BY <1>4 DEF rents
  <2>2. s \in Shard /\ (s \in shards <=> s \in payableShards(shards))
    BY DEF payables, payableShards
  <2>3. CASE s \in shards
    <3>1. infos'[s] = updated(infos[s], minedTs, shardDiff(s, minedTs), hash)
      BY <1>3, <2>2, <2>3
    <3>2. infos'[s].lastMineTime = minedTs
      BY <3>1 DEF updated
    <3> QED BY <2>1, <2>3, <3>2
  <2>4. CASE s \notin shards
    BY <1>3, <2>1, <2>2, <2>4
  <2> QED BY <2>3, <2>4
<1>6. PICK o \in Nat : /\ o = SumFunctionOnSet(rents', payables)
                      /\ totalReward(shards, minedTs) \in Nat
                      /\ o + totalReward(shards, minedTs) <= owedRent
  <2> DEFINE later == rents'
             reward == totalReward(shards, minedTs)
  <2>1. /\ reward \in Nat /\ SumFunctionOnSet(later, payables) \in Nat
        /\ SumFunctionOnSet(later, payables) + reward <= owedRent
    BY <1>2, <1>3, <1>5, RewardTaken, Zenon
  <2> QED BY <2>1, Zenon
<1>7. o = owedRent'
  BY <1>4, <1>6, Zenon DEF owedRent
<1>8. owedRent \in Nat /\ refunds \in Nat /\ refunds' = refunds
  BY <1>4, PayableRents DEF refunds
<1>9. balance \in Nat /\ balance >= owedRent + refunds
  BY FundedIs, ConstructorAssumption DEF Covered, ShardInv, SlotInv, TypeOK
<1>10. balance' >= o + refunds
  BY <1>3, <1>6, <1>8, <1>9
<1> QED BY <1>8, <1>10, <1>7, CoversNext

(***************************************************************************)
(* At first the deployer owes the rents of two shards.                     *)
(***************************************************************************)
LEMMA FundedInit == DeployerPays /\ SInit => Funded
<1> SUFFICES ASSUME DeployerPays, SInit PROVE Funded
  OBVIOUS
<1>1. ShardInv
  BY ShardInit
<1>2. lastKvIdx = 0 /\ balance = Prefund /\ Prefund \in Nat
  BY ShardAssumption, ConstructorAssumption DEF SInit, KVInit
<1>3. shardEntries \in Nat \ {0} /\ MaxKvIdx \in Nat
  BY <1>1, ShardTypes DEF ShardInv
<1>4. filled = 0 /\ lastMinableShardIdx = 1
  <2>1. 0 % shardEntries = 0 /\ 0 \div shardEntries = 0
    BY <1>3
  <2> QED BY <2>1, <1>2 DEF filled, lastMinableShardIdx
<1>5. payables = {0, 1}
  <2>1. MaxKvIdx \div shardEntries \in Nat
    BY <1>3, QuotientRange
  <2>2. 0 \in Shard /\ 1 \in Shard /\ Shard \subseteq Nat
    BY <2>1 DEF Shard
  <2>3. \A t : t \in payables <=> t \in Shard /\ t <= 1
    BY <1>4, PayablesAre, Zenon
  <2>4. \A t \in Nat : t <= 1 <=> t \in {0, 1}
    OBVIOUS
  <2>5. \A t : t \in payables <=> t \in {0, 1}
    BY <2>2, <2>3, <2>4
  <2> QED BY <2>5, Zenon
<1>6. rents[0] = rentFrom(startTime) /\ rents[1] = rentFrom(startTime)
  <2>1. 0 \in Shard /\ 1 \in Shard
    BY <1>5 DEF payables, payableShards
  <2>2. infos[0].lastMineTime = startTime /\ infos[1].lastMineTime = startTime
    BY <2>1 DEF SInit
  <2> QED BY <2>2, <1>5 DEF rents
<1>7. IsFiniteSet(payables) /\ (\A s \in payables : rents[s] \in Nat) /\ upfrontPayment \in Nat
  BY <1>1, PayableRents
<1>8. owedRent = rents[0] + (rents[1] + 0)
  <2>1. owedRent = rents[0] + SumFunctionOnSet(rents, payables \ {0})
    BY <1>5, <1>7, SumRemove DEF owedRent
  <2>2. payables \ {0} = {1} /\ IsFiniteSet({1}) /\ \A s \in {1} : rents[s] \in Nat
    BY <1>5, <1>7, FS_Singleton
  <2>3. SumFunctionOnSet(rents, {1}) = rents[1] + SumFunctionOnSet(rents, {1} \ {1})
    BY <2>2, SumRemove
  <2>4. {1} \ {1} = {} /\ SumFunctionOnSet(rents, {}) = 0
    BY SumRecursion, FS_EmptySet
  <2> QED BY <2>1, <2>2, <2>3, <2>4
<1>9. rentFrom(startTime) \in Nat
  BY <1>5, <1>6, <1>7
<1>10. owedRent <= balance /\ owedRent \in Nat /\ refunds = 0
  BY <1>2, <1>4, <1>6, <1>7, <1>8, <1>9 DEF DeployerPays, refunds
<1> QED BY <1>2, <1>10, FundedIs DEF Covered

(***************************************************************************)
(* If the deployer pays for shards 0 and 1, and the slots of a shard do    *)
(* not cost less than its rent because they are rounded down one by one,   *)
(* then the contract always holds the rents for ever of all payable shards *)
(* and the refunds of the shard being filled.                              *)
(***************************************************************************)
THEOREM RentsFunded ==
  ASSUME ShardCostFits, NoDust, DeployerPays
  PROVE  SSpec => []Funded
<1>1. ShardInv /\ ShardInv' /\ Funded /\ [SNext]_shardVars => Funded'
  <2> SUFFICES ASSUME ShardInv, ShardInv', Funded, [SNext]_shardVars PROVE Funded'
    OBVIOUS
  <2>1. CASE SNext
    BY <2>1, FundedPut, FundedRemove, FundedTick, FundedSend, FundedMine DEF SNext
  <2>2. CASE UNCHANGED shardVars
    BY <2>2 DEF shardVars, kvVars, Funded, payableShards, Payable, lastMinableShardIdx, upfrontPayment
  <2> QED BY <2>1, <2>2
<1>2. ShardInv /\ [SNext]_shardVars => ShardInv'
  BY ShardNext
<1>3. SInit => ShardInv /\ Funded
  BY ShardInit, FundedInit
<1> QED BY <1>1, <1>2, <1>3, PTL DEF SSpec

(***************************************************************************)
(* So that neither a block nor a remove ever reverts for want of wei.      *)
(***************************************************************************)
THEOREM NobodyGoesUnpaid ==
  ASSUME ShardCostFits, NoDust, DeployerPays
  PROVE  SSpec => [](/\ \A shards \in SUBSET Shard, minedTs \in Time :
                          diffDefined(shards, minedTs) => totalReward(shards, minedTs) \in 0..balance
                     /\ lastKvIdx > 0 => balance >= upfrontPayment)
<1>1. ASSUME ShardInv, Funded
      PROVE  /\ \A shards \in SUBSET Shard, minedTs \in Time :
                  diffDefined(shards, minedTs) => totalReward(shards, minedTs) \in 0..balance
             /\ lastKvIdx > 0 => balance >= upfrontPayment
  <2>1. /\ owedRent \in Nat /\ filled \in Nat /\ upfrontPayment \in Nat
        /\ refunds \in Nat
        /\ balance >= owedRent + refunds /\ balance \in Nat
    BY <1>1, PayableRents, FundedIs, ConstructorAssumption DEF Covered, ShardInv, SlotInv, TypeOK
  <2>2. ASSUME NEW shards \in SUBSET Shard, NEW minedTs \in Time, diffDefined(shards, minedTs)
        PROVE  totalReward(shards, minedTs) \in 0..balance
    <3> DEFINE later == [s \in payables |-> IF s \in shards THEN rentFrom(minedTs) ELSE rents[s]]
    <3>1. \A s \in payables : later[s] = IF s \in shards THEN rentFrom(minedTs) ELSE rents[s]
      OBVIOUS
    <3> HIDE DEF later
    <3>2. /\ totalReward(shards, minedTs) \in Nat /\ SumFunctionOnSet(later, payables) \in Nat
          /\ SumFunctionOnSet(later, payables) + totalReward(shards, minedTs) <= owedRent
      BY <3>1, <1>1, <2>2, RewardTaken
    <3> QED BY <3>2, <2>1
  <2>3. ASSUME lastKvIdx > 0 PROVE balance >= upfrontPayment
    <3>1. lastKvIdx \in Nat /\ shardEntries \in Nat \ {0}
      BY <1>1, ShardTypes DEF ShardInv
    <3>2. CASE filled # 0
      <4>1. filled - 1 \in Nat /\ filled = (filled - 1) + 1
        BY <3>2, <2>1
      <4>2. PICK n \in Nat : filled = n + 1
        BY <4>1
      <4>3. refunds = n * upfrontPayment + upfrontPayment /\ n * upfrontPayment \in Nat
        BY <4>2, <2>1, MulSucc DEF refunds
      <4> QED BY <4>3, <2>1
    <3>3. CASE filled = 0
      <4>1. 0 \in payables
        <5>1. lastKvIdx \div shardEntries \in Nat /\ MaxKvIdx \div shardEntries \in Nat
          BY <1>1, <3>1, ShardTypes, QuotientRange DEF ShardInv
        <5> QED BY <5>1 DEF payables, payableShards, Payable, lastMinableShardIdx, Shard
      <4>2. PICK rent0 \in Nat, rest \in Nat : owedRent = rent0 + rest /\ rent0 = rents[0]
        <5>1. /\ owedRent = rents[0] + SumFunctionOnSet(rents, payables \ {0})
              /\ IsFiniteSet(payables) /\ \A s \in payables : rents[s] \in Nat
          BY <1>1, <4>1, PayableRents, SumRemove DEF owedRent
        <5>2. SumFunctionOnSet(rents, payables \ {0}) \in Nat
          BY <5>1, FS_Subset, SumRecursion
        <5> QED BY <5>1, <5>2, <4>1, Zenon
      <4>3. rentFrom(timestamp) <= rent0 /\ rentFrom(timestamp) \in Nat
        <5>1. timestamp \in Time
          BY <1>1 DEF ShardInv, SlotInv, TypeOK
        <5> QED BY <5>1, <1>1, <4>1, <4>2, PayableRents, RentFalls DEF ShardInv
      <4>4. PICK cost \in Nat : cost = shardEntries * upfrontPayment /\ cost <= rentFrom(timestamp)
        BY <1>1, SlotsBelowRent DEF upfrontPayment, ShardInv, SlotInv, TypeOK
      <4>5. PICK n \in Nat : shardEntries = n + 1
        <5>1. shardEntries - 1 \in Nat /\ shardEntries = (shardEntries - 1) + 1
          BY <3>1
        <5> QED BY <5>1
      <4>6. cost = n * upfrontPayment + upfrontPayment /\ n * upfrontPayment \in Nat
        <5>1. cost = (n + 1) * upfrontPayment
          BY <4>4, <4>5, Zenon
        <5> QED BY <5>1, <2>1, MulSucc
      <4> QED BY <4>2, <4>3, <4>4, <4>6, <2>1
    <3> QED BY <3>2, <3>3
  <2> QED BY <2>2, <2>3
<1> QED BY <1>1, RentsFunded, ShardInvariant, PTL
=============================================================================

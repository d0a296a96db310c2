-------------------------- MODULE MerkleLib_proofs --------------------------
(***************************************************************************)
(* Three parts.  What the proofs of the other modules need, too: recursive *)
(* functions and induction, quotients and powers of two.                   *)
(*                                                                         *)
(* pow() for numbers of any width, bases below 1.0 and all exponents: it   *)
(* does not overflow, and it does not rise with the exponent.              *)
(*                                                                         *)
(* Merkle trees of every depth, over values and chunks of every length:    *)
(* the round-up to a power of two; the hashes there are, so that the       *)
(* recursive functions of MerkleLib have the values that their definitions *)
(* say; then trees, level by level, and climbs through them.               *)
(***************************************************************************)
EXTENDS MerkleLib, BinaryRelated, SequenceTheorems, WellFoundedInduction,
        FiniteSetTheorems, TLAPS

LEMMA LeastElement ==
  ASSUME NEW T, T \subseteq Nat, T # {}
  PROVE  \E x \in T : \A y \in T : x <= y
<1>1. \E x \in T : \A y \in T : <<y, x>> \notin OpToRel(<, Nat)
  BY WFMin, NatLessThanWellFounded
<1>2. \A x, y \in Nat : <<y, x>> \notin OpToRel(<, Nat) => x <= y
  BY DEF OpToRel
<1> QED BY <1>1, <1>2

(***************************************************************************)
(* A recursion that ends where m is 0, with out, and that m counts down.   *)
(***************************************************************************)
Decreases(D, m, next) == \A d \in D : m[d] # 0 => m[next[d]] < m[d]

Recursive(f, D, m, next, out, step) ==
  \A d \in D : f[d] = IF m[d] = 0 THEN out[d] ELSE step[d][f[next[d]]]

LEMMA Recursion ==
  ASSUME NEW D, NEW R, NEW m \in [D -> Nat], NEW next \in [D -> D], NEW out \in [D -> R],
         NEW step \in [D -> [R -> R]], Decreases(D, m, next)
  PROVE  \E f \in [D -> R] : Recursive(f, D, m, next, out, step)
<1> USE DEF Decreases
<1> DEFINE Below(n)   == {d \in D : m[d] <= n}
           Good(f, n) == /\ f \in [Below(n) -> R]
                         /\ \A d \in Below(n) : f[d] = IF m[d] = 0 THEN out[d] ELSE step[d][f[next[d]]]
<1>1. \A n \in Nat : \E f : Good(f, n)
  <2> DEFINE T == {n \in Nat : ~ \E f : Good(f, n)}
  <2>1. SUFFICES ASSUME T # {} PROVE FALSE
    OBVIOUS
  <2>2. PICK x \in T : \A y \in T : x <= y
    BY <2>1, LeastElement
  <2>3. CASE x = 0
    <3>1. Good([d \in Below(0) |-> out[d]], 0)
      OBVIOUS
    <3> QED BY <3>1, <2>3, <2>2
  <2>4. CASE x # 0
    <3>1. x - 1 \in Nat /\ x - 1 \notin T
      <4>1. x \in Nat /\ T \subseteq Nat
        OBVIOUS
      <4> HIDE DEF Good, T
      <4> QED BY <4>1, <2>2, <2>4
    <3>2. PICK f : Good(f, x - 1)
      BY <3>1
    <3> DEFINE g == [d \in Below(x) |-> IF m[d] = 0 THEN out[d] ELSE step[d][f[next[d]]]]
    <3>3. \A d \in Below(x) : m[d] # 0 => next[d] \in Below(x - 1)
      BY <3>1
    <3>4. g \in [Below(x) -> R]
      BY <3>2, <3>3
    <3>5. \A d \in Below(x - 1) : d \in Below(x) /\ g[d] = f[d]
      BY <3>1, <3>2
    <3>6. Good(g, x)
      BY <3>3, <3>4, <3>5
    <3> QED BY <3>6, <2>2
  <2> QED BY <2>3, <2>4
<1>2. ASSUME NEW f, NEW g, NEW n \in Nat, NEW k \in Nat, Good(f, n), Good(g, k),
             NEW c \in D, c \in Below(n), c \in Below(k)
      PROVE  f[c] = g[c]
  <2> DEFINE T == {x \in Nat : \E d \in Below(n) \cap Below(k) : m[d] = x /\ f[d] # g[d]}
  <2>1. SUFFICES ASSUME f[c] # g[c] PROVE FALSE
    OBVIOUS
  <2>2. m[c] \in T
    BY <1>2, <2>1
  <2>3. PICK x \in T : \A y \in T : x <= y
    BY <2>2, LeastElement
  <2>4. PICK d \in Below(n) \cap Below(k) : m[d] = x /\ f[d] # g[d]
    BY <2>3
  <2>5. m[d] # 0 /\ f[next[d]] # g[next[d]]
    BY <1>2, <2>4
  <2>6. next[d] \in Below(n) \cap Below(k) /\ m[next[d]] < x /\ m[next[d]] \in Nat
    BY <2>4, <2>5
  <2> QED BY <2>3, <2>5, <2>6
<1> DEFINE approx(n) == CHOOSE f : Good(f, n)
           F == [d \in D |-> approx(m[d])[d]]
<1>3. \A n \in Nat : Good(approx(n), n)
  BY <1>1
<1> HIDE DEF approx
<1>4. \A d \in D : d \in Below(m[d]) /\ m[d] \in Nat
  OBVIOUS
<1>5. F \in [D -> R]
  BY <1>3, <1>4
<1>6. ASSUME NEW d \in D PROVE F[d] = IF m[d] = 0 THEN out[d] ELSE step[d][F[next[d]]]
  <2>1. Good(approx(m[d]), m[d])
    BY <1>3, <1>4
  <2>2. F[d] = IF m[d] = 0 THEN out[d] ELSE step[d][approx(m[d])[next[d]]]
    BY <2>1, <1>4
  <2>3. ASSUME m[d] # 0 PROVE approx(m[d])[next[d]] = approx(m[next[d]])[next[d]]
    <3>1. next[d] \in D /\ next[d] \in Below(m[d]) /\ next[d] \in Below(m[next[d]])
      BY <2>3
    <3>2. Good(approx(m[next[d]]), m[next[d]])
      BY <1>3, <3>1
    <3> HIDE DEF Good, Below
    <3> QED BY <2>1, <3>1, <3>2, <1>2, <1>4
  <2> QED BY <2>2, <2>3
<1> QED BY <1>5, <1>6 DEF Recursive

(***************************************************************************)
(* A loop is a recursion that does nothing with the result.                *)
(***************************************************************************)
TailRecursive(f, D, m, next, out) ==
  \A d \in D : f[d] = IF m[d] = 0 THEN out[d] ELSE f[next[d]]

LEMMA TailRecursion ==
  ASSUME NEW D, NEW R, NEW m \in [D -> Nat], NEW next \in [D -> D], NEW out \in [D -> R],
         Decreases(D, m, next)
  PROVE  \E f \in [D -> R] : TailRecursive(f, D, m, next, out)
<1> DEFINE step == [d \in D |-> [r \in R |-> r]]
<1>1. step \in [D -> [R -> R]]
  OBVIOUS
<1>2. \A d \in D, r \in R : step[d][r] = r
  OBVIOUS
<1> HIDE DEF step
<1>3. PICK f \in [D -> R] : Recursive(f, D, m, next, out, step)
  BY <1>1, Recursion, Zenon
<1> QED BY <1>2, <1>3 DEF Recursive, TailRecursive

-----------------------------------------------------------------------------
(***************************************************************************)
(* Products and quotients.                                                 *)
(***************************************************************************)
LEMMA MulMono == ASSUME NEW a \in Nat, NEW b \in Nat, NEW c \in Nat, a <= b PROVE a * c <= b * c
<1>1. PICK e \in Nat : b = a + e
  <2>1. b - a \in Nat /\ b = a + (b - a)
    OBVIOUS
  <2> QED BY <2>1
<1>2. b * c = a * c + e * c
  BY <1>1
<1>3. a * c \in Nat /\ b * c \in Nat /\ e * c \in Nat
  OBVIOUS
<1> QED BY <1>2, <1>3

LEMMA DivDef == ASSUME NEW a \in Nat, NEW d \in Nat \ {0}
 PROVE a \div d \in Nat /\ (a \div d) * d <= a /\ a < (a \div d) * d + d
OBVIOUS

LEMMA DivMono == ASSUME NEW a \in Nat, NEW b \in Nat, NEW d \in Nat \ {0}, a <= b
 PROVE a \div d <= b \div d
<1> DEFINE q == a \div d
           r == b \div d
<1>1. q \in Nat /\ r \in Nat /\ q * d <= a /\ b < r * d + d
  BY DivDef
<1> HIDE DEF q, r
<1>2. SUFFICES ASSUME r + 1 <= q PROVE FALSE
  BY <1>1 DEF q, r
<1>3. (r + 1) * d <= q * d
  BY <1>1, <1>2, MulMono
<1>4. (r + 1) * d = r * d + d
  BY <1>1
<1> QED BY <1>1, <1>3, <1>4

LEMMA DivOfProduct == ASSUME NEW a \in Nat, NEW d \in Nat \ {0} PROVE (a * d) \div d = a
<1> DEFINE q == (a * d) \div d
<1>1. q \in Nat /\ q * d <= a * d /\ a * d < q * d + d
  BY DivDef
<1> HIDE DEF q
<1>2. CASE a < q
  <2>1. (a + 1) * d <= q * d
    BY <1>1, <1>2, MulMono
  <2>2. (a + 1) * d = a * d + d
    OBVIOUS
  <2> QED BY <1>1, <2>1, <2>2
<1>3. CASE q < a
  <2>1. (q + 1) * d <= a * d
    BY <1>1, <1>3, MulMono
  <2>2. (q + 1) * d = q * d + d
    BY <1>1
  <2> QED BY <1>1, <2>1, <2>2
<1> QED BY <1>1, <1>2, <1>3 DEF q

LEMMA QuotientIs ==
  ASSUME NEW d \in Nat \ {0}, NEW q \in Nat, NEW r \in 0..d - 1
  PROVE  (q * d + r) \div d = q /\ (q * d + r) % d = r
<1>1. PICK a \in Nat : a = q * d + r
  <2>1. q * d \in Nat
    OBVIOUS
  <2> QED BY <2>1
<1> DEFINE p == a \div d
<1>2. p \in Nat /\ p * d <= a /\ a < p * d + d
  BY DivDef
<1>3. a % d = a - p * d
  BY DEF p
<1> HIDE DEF p
<1>4. q * d \in Nat /\ p * d \in Nat
  BY <1>2
<1>5. CASE q < p
  <2>1. (q + 1) * d <= p * d
    BY <1>2, <1>5, MulMono
  <2>2. (q + 1) * d = q * d + d
    OBVIOUS
  <2> QED BY <1>1, <1>2, <1>4, <2>1, <2>2
<1>6. CASE p < q
  <2>1. (p + 1) * d <= q * d
    BY <1>2, <1>6, MulMono
  <2>2. (p + 1) * d = p * d + d
    BY <1>2
  <2> QED BY <1>1, <1>2, <1>4, <2>1, <2>2
<1>7. CASE p = q
  BY <1>1, <1>3, <1>4, <1>7 DEF p
<1> QED BY <1>2, <1>5, <1>6, <1>7

LEMMA RemainderIs ==
  ASSUME NEW d \in Nat \ {0}, NEW a \in Nat
  PROVE  a \div d \in Nat /\ a % d \in 0..d - 1 /\ a = (a \div d) * d + (a % d)
<1>1. a % d = a - d * (a \div d) /\ a % d \in 0..d - 1
  OBVIOUS
<1> QED BY <1>1, DivDef
-----------------------------------------------------------------------------
(***************************************************************************)
(* Induction, over a set of numbers.                                       *)
(***************************************************************************)
LEMMA Induction ==
  ASSUME NEW S, 0 \in S, \A n \in Nat : n \in S => n + 1 \in S
  PROVE  \A n \in Nat : n \in S
<1> DEFINE T == {n \in Nat : n \notin S}
<1>1. SUFFICES ASSUME T # {} PROVE FALSE
  OBVIOUS
<1>2. PICK x \in T : \A y \in T : x <= y
  BY <1>1, LeastElement
<1>3. x \in Nat /\ x \notin S /\ x # 0
  BY <1>2
<1>4. x - 1 \in Nat /\ x - 1 \notin T /\ x - 1 + 1 = x
  BY <1>2, <1>3
<1> QED BY <1>3, <1>4

LEMMA StrongInduction ==
  ASSUME NEW S, \A n \in Nat : (\A k \in Nat : k < n => k \in S) => n \in S
  PROVE  \A n \in Nat : n \in S
<1> DEFINE T == {n \in Nat : n \notin S}
<1>1. SUFFICES ASSUME T # {} PROVE FALSE
  OBVIOUS
<1>2. PICK x \in T : \A y \in T : x <= y
  BY <1>1, LeastElement
<1>3. \A k \in Nat : k < x => k \in S
  BY <1>2
<1> QED BY <1>2, <1>3

(***************************************************************************)
(* What one gets who concatenates sequences one after the other, when all  *)
(* have the same length.                                                   *)
(***************************************************************************)
Joins(f, seqs, n) == f = [i \in 1..n |-> IF i = 1 THEN seqs[i] ELSE f[i - 1] \o seqs[i]]

isJoined(s, seqs, T, length, n) ==
  /\ s \in [1..n * length -> T]
  /\ \A p \in 0..n - 1, j \in 1..length : s[p * length + j] = seqs[p + 1][j]

LEMMA JoinExists == ASSUME NEW seqs PROVE \A n \in Nat : \E f : Joins(f, seqs, n)
<1> DEFINE S == {n \in Nat : \E f : Joins(f, seqs, n)}
<1>1. 0 \in S
  <2>1. Joins([i \in 1..0 |-> seqs], seqs, 0)
    BY DEF Joins
  <2> QED BY <2>1
<1>2. ASSUME NEW n \in Nat, n \in S PROVE n + 1 \in S
  <2>1. PICK f : Joins(f, seqs, n)
    BY <1>2
  <2> DEFINE g == [i \in 1..n + 1 |-> IF i = 1 THEN seqs[i] ELSE f[i - 1] \o seqs[i]]
  <2>2. \A i \in 1..n : g[i] = f[i]
    <3> TAKE i \in 1..n
    <3>1. i \in 1..n + 1
      OBVIOUS
    <3>2. f[i] = IF i = 1 THEN seqs[i] ELSE f[i - 1] \o seqs[i]
      BY <2>1 DEF Joins
    <3> QED BY <3>1, <3>2, Zenon
  <2>3. \A i \in 1..n + 1 : i # 1 => f[i - 1] \o seqs[i] = g[i - 1] \o seqs[i]
    <3> HIDE DEF g
    <3>1. \A i \in 1..n + 1 : i # 1 => i - 1 \in 1..n
      OBVIOUS
    <3> QED BY <2>2, <3>1
  <2>4. Joins(g, seqs, n + 1)
    BY <2>3 DEF Joins
  <2> QED BY <2>4
<1> HIDE DEF S
<1>3. \A n \in Nat : n \in S
  BY <1>1, <1>2, Induction
<1> QED BY <1>3 DEF S

LEMMA JoinOf ==
  ASSUME NEW T, NEW length \in Nat, NEW n \in Nat, NEW seqs \in [1..n -> [1..length -> T]],
         NEW f, Joins(f, seqs, n)
  PROVE  \A i \in 1..n : isJoined(f[i], seqs, T, length, i)
<1> DEFINE S == {i \in Nat : i \in 1..n => isJoined(f[i], seqs, T, length, i)}
<1>1. 0 \in S
  OBVIOUS
<1>2. ASSUME NEW i \in Nat, i \in S PROVE i + 1 \in S
  <2>1. SUFFICES ASSUME i + 1 \in 1..n PROVE isJoined(f[i + 1], seqs, T, length, i + 1)
    OBVIOUS
  <2>2. /\ (i + 1) * length = i * length + length /\ i * length \in Nat
        /\ seqs[i + 1] \in [1..length -> T]
    BY <2>1
  <2>3. CASE i = 0
    <3>1. f[1] = seqs[1] /\ (i + 1) * length = length
      BY <2>1, <2>3 DEF Joins
    <3>2. \A p \in 0..(i + 1) - 1, j \in 1..length : p = 0 /\ p * length + j = j
      BY <2>3
    <3> QED BY <3>1, <3>2, <2>2, <2>3 DEF isJoined
  <2>4. CASE i # 0
    <3>1. i \in 1..n /\ i + 1 \in 1..n /\ i + 1 # 1 /\ i + 1 - 1 = i
      BY <2>1, <2>4
    <3>2. PICK a : a = f[i]
      OBVIOUS
    <3>3. PICK b : b = seqs[i + 1]
      OBVIOUS
    <3>4. f[i + 1] = a \o b
      <4>1. PICK m \in 1..n : m = i + 1 /\ m # 1 /\ m - 1 = i
        BY <3>1
      <4>2. f[m] = f[m - 1] \o seqs[m]
        BY <4>1 DEF Joins
      <4> QED BY <3>2, <3>3, <4>1, <4>2
    <3>5. isJoined(a, seqs, T, length, i)
      BY <1>2, <3>1, <3>2
    <3>10. PICK x \in Nat : x = i * length /\ (i + 1) * length = x + length
      BY <2>2
    <3>6. /\ a \in Seq(T) /\ Len(a) = x /\ a \in [1..x -> T]
          /\ b \in Seq(T) /\ Len(b) = length /\ b \in [1..length -> T]
      BY <3>3, <3>5, <3>10, <2>2 DEF isJoined
    <3>7. /\ a \o b \in Seq(T) /\ Len(a \o b) = x + length
          /\ \A k \in 1..x + length : (a \o b)[k] = IF k <= x THEN a[k] ELSE b[k - x]
      <4>1. a \o b \in Seq(T) /\ Len(a \o b) = Len(a) + Len(b)
        BY <3>6, ConcatProperties
      <4>2. \A k \in 1..Len(a) + Len(b) :
              (a \o b)[k] = IF k <= Len(a) THEN a[k] ELSE b[k - Len(a)]
        BY <3>6, ConcatProperties
      <4> QED BY <3>6, <4>1, <4>2
    <3>8. ASSUME NEW p \in 0..(i + 1) - 1, NEW j \in 1..length
          PROVE  (a \o b)[p * length + j] = seqs[p + 1][j]
      <4>1. CASE p = i
        <5>1. p * length = x
          BY <4>1, <3>10
        <5>2. x + j \in 1..x + length /\ ~(x + j <= x) /\ x + j - x = j
          OBVIOUS
        <5>3. (a \o b)[x + j] = b[j]
          BY <5>2, <3>7
        <5> QED BY <5>1, <5>3, <3>3, <4>1
      <4>2. CASE p # i
        <5>1. p \in 0..i - 1 /\ p + 1 \in Nat /\ p + 1 <= i
          BY <4>2
        <5>2. (p + 1) * length <= x
          BY <5>1, <3>10, MulMono
        <5>3. PICK y \in Nat : y = p * length /\ (p + 1) * length = y + length
          BY <5>1
        <5>4. p * length + j \in 1..x + length /\ p * length + j <= x
          BY <5>2, <5>3
        <5>5. a[p * length + j] = seqs[p + 1][j]
          BY <3>5, <5>1 DEF isJoined
        <5> QED BY <5>4, <5>5, <3>7
      <4> QED BY <4>1, <4>2
    <3>9. a \o b \in [1..(i + 1) * length -> T]
      <4>1. a \o b \in [1..x + length -> T]
        BY <3>7, LenProperties
      <4> QED BY <4>1, <3>10
    <3> QED BY <3>4, <3>8, <3>9 DEF isJoined
  <2> QED BY <2>3, <2>4
<1> HIDE DEF S
<1>3. \A i \in Nat : i \in S
  BY <1>1, <1>2, Induction
<1> QED BY <1>3 DEF S
-----------------------------------------------------------------------------
(***************************************************************************)
(* The powers of two, of which the provers know 2^0 only, from the number  *)
(* of subsets of 1..n.                                                     *)
(***************************************************************************)
LEMMA TwoPower == ASSUME NEW n \in Nat PROVE 2 ^ (n + 1) = 2 * 2 ^ n /\ 2 ^ n \in Nat
<1> DEFINE S == 1..n
           T == 1..(n + 1)
           A == SUBSET S
           B == {X \cup {n + 1} : X \in A}
           f == [X \in A |-> X \cup {n + 1}]
<1>1. IsFiniteSet(S) /\ Cardinality(S) = n /\ IsFiniteSet(T) /\ Cardinality(T) = n + 1
  BY FS_Interval
<1>2. IsFiniteSet(A) /\ Cardinality(A) = 2 ^ n /\ Cardinality(SUBSET T) = 2 ^ (n + 1)
  <2> HIDE DEF S, T
  <2> QED BY <1>1, FS_SUBSET
<1>3. IsFiniteSet(B) /\ Cardinality(B) = Cardinality(A)
  <2>1. n + 1 \notin S
    OBVIOUS
  <2>2. f \in Bijection(A, B)
    <3> HIDE DEF S
    <3>1. f \in [A -> B]
      OBVIOUS
    <3>2. \A X, Y \in A : f[X] = f[Y] => X = Y
      BY <2>1
    <3>3. \A Z \in B : \E X \in A : f[X] = Z
      OBVIOUS
    <3> HIDE DEF f, A, B
    <3> QED BY <3>1, <3>2, <3>3 DEF Bijection, Injection, Surjection, IsInjective
  <2> HIDE DEF A, B, f
  <2> QED BY <2>2, <1>2, FS_Bijection DEF ExistsBijection
<1>4. A \cap B = {}
  OBVIOUS
<1>5. SUBSET T = A \cup B
  <2>1. \A X \in SUBSET T : X \in A \cup B
    <3> SUFFICES ASSUME NEW X \in SUBSET T, X \notin A PROVE X \in B
      OBVIOUS
    <3>1. T = S \cup {n + 1}
      OBVIOUS
    <3> HIDE DEF S, T
    <3>2. X = (X \ {n + 1}) \cup {n + 1} /\ X \ {n + 1} \in A
      BY <3>1
    <3> QED BY <3>2
  <2>2. S \subseteq T /\ n + 1 \in T
    OBVIOUS
  <2>3. A \subseteq SUBSET T /\ B \subseteq SUBSET T
    <3> HIDE DEF S, T
    <3> QED BY <2>2
  <2> QED BY <2>1, <2>3
<1>6. Cardinality(A) \in Nat
  BY <1>2, FS_CardinalityType
<1> HIDE DEF A, B, T
<1>7. Cardinality(A \cup B) = Cardinality(A) + Cardinality(B) - Cardinality(A \cap B)
  BY <1>2, <1>3, FS_Union
<1>8. Cardinality(A \cap B) = 0
  BY <1>4, FS_EmptySet
<1>9. 2 ^ (n + 1) = Cardinality(A) + Cardinality(A)
  <2>1. 2 ^ (n + 1) = Cardinality(A \cup B)
    BY <1>2, <1>5, Zenon
  <2> QED BY <2>1, <1>3, <1>6, <1>7, <1>8
<1>10. PICK a \in Nat : a = Cardinality(A)
  BY <1>6
<1>11. 2 ^ n = a /\ 2 ^ (n + 1) = a + a
  BY <1>2, <1>9, <1>10, Zenon
<1>12. 2 * a = a + a
  BY <1>10
<1> QED BY <1>11, <1>12, Zenon

LEMMA PowersPositive == \A n \in Nat : 2 ^ n \in Nat \ {0}
<1> DEFINE S == {n \in Nat : 2 ^ n \in Nat \ {0}}
<1>1. 0 \in S
  OBVIOUS
<1>2. \A n \in Nat : n \in S => n + 1 \in S
  BY TwoPower
<1> HIDE DEF S
<1>3. \A n \in Nat : n \in S
  BY <1>1, <1>2, Induction
<1> QED BY <1>3 DEF S

LEMMA PowersExceed == \A n \in Nat : n < 2 ^ n
<1> DEFINE S == {n \in Nat : n < 2 ^ n}
<1>1. 0 \in S
  OBVIOUS
<1>2. \A n \in Nat : n \in S => n + 1 \in S
  BY TwoPower
<1> HIDE DEF S
<1>3. \A n \in Nat : n \in S
  BY <1>1, <1>2, Induction
<1> QED BY <1>3 DEF S

LEMMA PowersMultiply ==
  ASSUME NEW a \in Nat
  PROVE  \A b \in Nat : 2 ^ (a + b) = 2 ^ a * 2 ^ b
<1> DEFINE p == 2 ^ a
           S == {b \in Nat : 2 ^ (a + b) = p * 2 ^ b}
<1>1. p \in Nat
  BY PowersPositive
<1>2. 0 \in S
  BY <1>1
<1>3. ASSUME NEW b \in Nat, 2 ^ (a + b) = p * 2 ^ b PROVE 2 ^ (a + (b + 1)) = p * 2 ^ (b + 1)
  <2>1. 2 ^ ((a + b) + 1) = 2 * 2 ^ (a + b) /\ 2 ^ (b + 1) = 2 * 2 ^ b /\ 2 ^ b \in Nat
    BY TwoPower
  <2>2. a + (b + 1) = (a + b) + 1
    OBVIOUS
  <2>3. PICK q \in Nat : q = 2 ^ b
    BY <2>1
  <2> HIDE DEF p
  <2>4. 2 * (p * q) = p * (2 * q)
    BY <1>1
  <2> QED BY <1>3, <2>1, <2>2, <2>3, <2>4, Zenon
<1>4. \A b \in Nat : b \in S => b + 1 \in S
  BY <1>3
<1> HIDE DEF S
<1>5. \A b \in Nat : b \in S
  BY <1>2, <1>4, Induction
<1> QED BY <1>5 DEF S, p

(***************************************************************************)
(* A power of two halved d times.                                          *)
(***************************************************************************)
LEMMA PowersDivide ==
  ASSUME NEW b \in Nat, NEW d \in Nat, d <= b
  PROVE  2 ^ b \div 2 ^ d = 2 ^ (b - d)
<1>1. PICK c \in Nat : c = b - d /\ c + d = b
  <2>1. b - d \in Nat /\ b - d + d = b
    OBVIOUS
  <2> QED BY <2>1
<1>2. 2 ^ c \in Nat /\ 2 ^ d \in Nat \ {0}
  BY PowersPositive
<1>3. 2 ^ b = 2 ^ c * 2 ^ d
  BY <1>1, PowersMultiply, Zenon
<1>4. (2 ^ c * 2 ^ d) \div 2 ^ d = 2 ^ c
  BY <1>2, DivOfProduct, Zenon
<1> QED BY <1>1, <1>3, <1>4, Zenon

LEMMA PowersRise ==
  ASSUME NEW a \in Nat, NEW b \in Nat, a < b
  PROVE  2 * 2 ^ a <= 2 ^ b
<1>1. PICK c \in Nat : (a + 1) + c = b
  <2>1. b - (a + 1) \in Nat /\ (a + 1) + (b - (a + 1)) = b
    OBVIOUS
  <2> QED BY <2>1
<1>2. PICK p \in Nat, q \in Nat \ {0} : p = 2 ^ (a + 1) /\ q = 2 ^ c /\ p = 2 * 2 ^ a
  <2>1. 2 ^ (a + 1) \in Nat /\ 2 ^ c \in Nat \ {0}
    BY PowersPositive
  <2> QED BY <2>1, TwoPower
<1>3. 2 ^ b = p * q
  <2>1. a + 1 \in Nat
    OBVIOUS
  <2> QED BY <1>1, <1>2, <2>1, PowersMultiply, Zenon
<1>4. p <= p * q
  <2>1. 1 <= q /\ 1 * p <= q * p
    BY <1>2, MulMono
  <2> QED BY <2>1, <1>2
<1> QED BY <1>2, <1>3, <1>4
-----------------------------------------------------------------------------
(***************************************************************************)
(* Fixed-point products.                                                   *)
(***************************************************************************)
times(a, b) == (a * b) \div One

LEMMA OneType == One \in Nat \ {0}
BY PowAssumption

LEMMA TimesType == ASSUME NEW a \in Nat, NEW b \in Nat PROVE times(a, b) \in Nat
<1>1. a * b \in Nat
  OBVIOUS
<1> QED  BY <1>1, OneType, DivDef DEF times

LEMMA TimesMono ==
  ASSUME NEW a \in Nat, NEW b \in Nat, NEW c \in Nat, a <= b
  PROVE  times(a, c) <= times(b, c)
<1>1. a * c \in Nat /\ b * c \in Nat /\ a * c <= b * c
  BY MulMono
<1> QED  BY <1>1, OneType, DivMono DEF times

LEMMA TimesOne == ASSUME NEW a \in Nat PROVE times(One, a) = a
<1>1. One * a = a * One
  BY OneType
<1> QED  BY <1>1, OneType, DivOfProduct DEF times

LEMMA TimesBound ==
  ASSUME NEW a \in Nat, NEW b \in Nat, a <= One
  PROVE  times(a, b) <= b
BY OneType, TimesMono, TimesOne
-----------------------------------------------------------------------------
(***************************************************************************)
(* The loop of pow(), one iteration at a time.                             *)
(***************************************************************************)
state(k, b, w) == [n |-> k, base |-> b, v |-> w]

LEMMA IterationType ==
  ASSUME NEW s \in PowState
  PROVE  /\ iteration(s) \in PowState
         /\ s.n # 0 => iteration(s).n < s.n
<1>1. s.n \in Nat /\ s.base \in Nat /\ s.v \in Nat
  BY DEF PowState
<1>2. s.n \div 2 \in Nat /\ (s.n # 0 => s.n \div 2 < s.n)
  BY <1>1
<1>3. (s.base * s.base) \div One \in Nat /\ (s.v * s.base) \div One \in Nat
  BY <1>1, TimesType DEF times
<1> QED BY <1>1, <1>2, <1>3 DEF iteration, PowState

LEMMA PowLoopDef ==
  ASSUME NEW s \in PowState
  PROVE  powLoop[s] = IF s.n = 0 THEN s.v ELSE powLoop[iteration(s)]
<1> DEFINE m == [t \in PowState |-> t.n]
           next == [t \in PowState |-> iteration(t)]
           out == [t \in PowState |-> t.v]
<1>1. m \in [PowState -> Nat] /\ next \in [PowState -> PowState] /\ out \in [PowState -> Nat]
  BY IterationType DEF PowState
<1>2. Decreases(PowState, m, next)
  BY IterationType DEF Decreases
<1>3. PICK f \in [PowState -> Nat] : TailRecursive(f, PowState, m, next, out)
  <2> HIDE DEF m, next, out
  <2> QED BY <1>1, <1>2, TailRecursion, Zenon
<1>4. f = [t \in PowState |-> IF t.n = 0 THEN t.v ELSE f[iteration(t)]]
  BY <1>3 DEF TailRecursive
<1>5. powLoop = [t \in PowState |-> IF t.n = 0 THEN t.v ELSE powLoop[iteration(t)]]
  BY <1>4, Zenon DEF powLoop
<1> QED BY <1>5

LEMMA PowLoopType ==
  ASSUME NEW s \in PowState PROVE powLoop[s] \in Nat
<1> DEFINE T == {s0.n : s0 \in {t \in PowState : powLoop[t] \notin Nat}}
<1>1. SUFFICES ASSUME powLoop[s] \notin Nat PROVE FALSE
  OBVIOUS
<1>2. s.n \in T /\ T \subseteq Nat
  BY <1>1 DEF PowState
<1>3. PICK x \in T : \A y \in T : x <= y
  BY <1>2, LeastElement
<1>4. PICK t \in PowState : x = t.n /\ powLoop[t] \notin Nat
  BY <1>3
<1>5. t.n \in Nat /\ t.v \in Nat
  BY DEF PowState
<1>6. t.n # 0 /\ powLoop[iteration(t)] \notin Nat
  BY <1>4, <1>5, PowLoopDef
<1>7. iteration(t).n \in T /\ iteration(t).n < t.n
  BY <1>4, <1>6, IterationType
<1> QED BY <1>2, <1>3, <1>4, <1>7

LEMMA FitsLoopDef ==
  ASSUME NEW s \in PowState
  PROVE  powFitsLoop[s] = (s.n = 0 \/ (iterationFits(s) /\ powFitsLoop[iteration(s)]))
<1> DEFINE m == [t \in PowState |-> IF iterationFits(t) THEN t.n ELSE 0]
           next == [t \in PowState |-> iteration(t)]
           out == [t \in PowState |-> t.n = 0]
<1>1. m \in [PowState -> Nat] /\ next \in [PowState -> PowState] /\ out \in [PowState -> BOOLEAN]
  BY IterationType DEF PowState
<1>2. Decreases(PowState, m, next)
  <2>1. \A t \in PowState : m[t] # 0 => m[t] = t.n /\ t.n # 0
    OBVIOUS
  <2>2. \A t \in PowState : t.n \in Nat /\ m[next[t]] <= iteration(t).n /\ iteration(t).n \in Nat /\ m[next[t]] \in Nat
    BY IterationType DEF PowState
  <2> HIDE DEF m, next
  <2> QED BY <1>1, <2>1, <2>2, IterationType DEF Decreases
<1>3. PICK f \in [PowState -> BOOLEAN] : TailRecursive(f, PowState, m, next, out)
  <2> HIDE DEF m, next, out
  <2> QED BY <1>1, <1>2, TailRecursion, Zenon
<1>4. \A t \in PowState : f[t] = (t.n = 0 \/ (iterationFits(t) /\ f[iteration(t)]))
  <2> SUFFICES ASSUME NEW t \in PowState
               PROVE  f[t] = (t.n = 0 \/ (iterationFits(t) /\ f[iteration(t)]))
    OBVIOUS
  <2>1. f[t] = IF m[t] = 0 THEN t.n = 0 ELSE f[iteration(t)]
    BY <1>3 DEF TailRecursive
  <2>2. m[t] = 0 <=> t.n = 0 \/ ~iterationFits(t)
    BY DEF PowState
  <2>3. f[t] \in BOOLEAN /\ f[iteration(t)] \in BOOLEAN
    BY <1>3, IterationType
  <2> HIDE DEF m
  <2> QED BY <2>1, <2>2, <2>3
<1>5. f = [t \in PowState |-> t.n = 0 \/ (iterationFits(t) /\ f[iteration(t)])]
  BY <1>4, Zenon
<1>6. powFitsLoop = [t \in PowState |-> t.n = 0 \/ (iterationFits(t) /\ powFitsLoop[iteration(t)])]
  BY <1>5, Zenon DEF powFitsLoop
<1> QED BY <1>6, Zenon

(***************************************************************************)
(* The same for a state that is spelled out.                               *)
(***************************************************************************)
LEMMA PowStep ==
  ASSUME NEW k \in Nat, NEW b \in Nat, NEW w \in Nat
  PROVE  /\ powLoop[state(k, b, w)] \in Nat
         /\ powLoop[state(0, b, w)] = w
         /\ k % 2 = 1 => powLoop[state(k, b, w)] = powLoop[state(k \div 2, times(b, b), times(w, b))]
         /\ k % 2 = 0 => powLoop[state(k, b, w)] = powLoop[state(k \div 2, times(b, b), w)]
<1>1. state(k, b, w) \in PowState /\ state(0, b, w) \in PowState
  BY DEF state, PowState
<1>2. powLoop[state(0, b, w)] = w
  BY <1>1, PowLoopDef DEF state
<1>3. k # 0 => powLoop[state(k, b, w)] = powLoop[iteration(state(k, b, w))]
  BY <1>1, PowLoopDef DEF state
<1>4. iteration(state(k, b, w))
        = state(k \div 2, times(b, b), IF k % 2 = 1 THEN times(w, b) ELSE w)
  BY DEF iteration, state, times
<1>5. k = 0 => powLoop[state(k \div 2, times(b, b), w)] = w
  <2>1. state(0, times(b, b), w) \in PowState
    BY TimesType DEF state, PowState
  <2> QED  BY <2>1, PowLoopDef DEF state
<1> QED  BY <1>1, <1>2, <1>3, <1>4, <1>5, PowLoopType

LEMMA PowOdd ==
  ASSUME NEW k \in Nat, NEW b \in Nat, NEW w \in Nat, k % 2 = 1
  PROVE  powLoop[state(k, b, w)] = powLoop[state(k \div 2, times(b, b), times(w, b))]
BY PowStep

LEMMA PowEven ==
  ASSUME NEW k \in Nat, NEW b \in Nat, NEW w \in Nat, k % 2 = 0
  PROVE  powLoop[state(k, b, w)] = powLoop[state(k \div 2, times(b, b), w)]
BY PowStep

(***************************************************************************)
(* What is left of the loop is monotone in the value so far.               *)
(***************************************************************************)
LEMMA PowLoopMonotone ==
  ASSUME NEW k \in Nat, NEW b \in Nat, NEW w \in Nat, NEW u \in Nat, w <= u
  PROVE  powLoop[state(k, b, w)] <= powLoop[state(k, b, u)]
<1> DEFINE Holds(i) == \A c, x, y \in Nat :
                         x <= y => powLoop[state(i, c, x)] <= powLoop[state(i, c, y)]
           T == {i \in Nat : ~Holds(i)}
<1>1. SUFFICES ASSUME T # {} PROVE FALSE
  OBVIOUS
<1>2. PICK i \in T : \A j \in T : i <= j
  BY <1>1, LeastElement
<1>3. PICK c \in Nat, x \in Nat, y \in Nat :
        x <= y /\ ~(powLoop[state(i, c, x)] <= powLoop[state(i, c, y)])
  BY <1>2
<1>4. i # 0
  BY <1>3, PowStep
<1>5. i \div 2 \in Nat /\ i \div 2 < i /\ i % 2 \in {0, 1}
  BY <1>2, <1>4
<1>6. Holds(i \div 2)
  <2> HIDE DEF Holds
  <2> QED  BY <1>2, <1>5
<1>7. times(c, c) \in Nat /\ times(x, c) \in Nat /\ times(y, c) \in Nat
        /\ times(x, c) <= times(y, c)
  BY <1>3, TimesType, TimesMono
<1>8. i \in Nat
  BY <1>2
<1>9. CASE i % 2 = 0
  <2>1. powLoop[state(i \div 2, times(c, c), x)] <= powLoop[state(i \div 2, times(c, c), y)]
    BY <1>3, <1>6, <1>7
  <2> QED  BY <2>1, <1>3, <1>8, <1>9, PowStep
<1>10. CASE i % 2 = 1
  <2>1. powLoop[state(i \div 2, times(c, c), times(x, c))]
          <= powLoop[state(i \div 2, times(c, c), times(y, c))]
    BY <1>6, <1>7
  <2> QED  BY <2>1, <1>3, <1>8, <1>10, PowStep
<1> QED  BY <1>5, <1>9, <1>10

(***************************************************************************)
(* One more second against a value that has the base as a factor already:  *)
(* an even exponent becomes odd, and the two loops differ in the value     *)
(* only; an odd one carries, and they differ by one second again.          *)
(***************************************************************************)
LEMMA PowLoopFalls ==
  ASSUME NEW k \in Nat, NEW b \in Nat, NEW w \in Nat, b <= One, b <= w
  PROVE  powLoop[state(k + 1, b, One)] <= powLoop[state(k, b, w)]
<1> DEFINE Holds(i) == \A c, x \in Nat : c <= One /\ c <= x =>
                         powLoop[state(i + 1, c, One)] <= powLoop[state(i, c, x)]
           T == {i \in Nat : ~Holds(i)}
<1>1. SUFFICES ASSUME T # {} PROVE FALSE
  OBVIOUS
<1>2. PICK i \in T : \A j \in T : i <= j
  BY <1>1, LeastElement
<1>3. PICK c \in Nat, x \in Nat :
        /\ c <= One /\ c <= x
        /\ ~(powLoop[state(i + 1, c, One)] <= powLoop[state(i, c, x)])
  BY <1>2
<1>4. i \in Nat /\ i + 1 \in Nat /\ i \div 2 \in Nat /\ One \in Nat
  BY <1>2, OneType
<1>5. times(One, c) = c /\ times(c, c) \in Nat /\ times(x, c) \in Nat
        /\ times(c, c) <= times(x, c)
        /\ times(c, c) <= One
  BY <1>3, <1>4, TimesType, TimesOne, TimesMono, TimesBound
<1>6. CASE i % 2 = 0
  <2>1. (i + 1) % 2 = 1 /\ (i + 1) \div 2 = i \div 2
    BY <1>4, <1>6
  <2>2. powLoop[state(i + 1, c, One)] = powLoop[state(i \div 2, times(c, c), c)]
    <3>1. powLoop[state(i + 1, c, One)] = powLoop[state((i + 1) \div 2, times(c, c), times(One, c))]
      BY <2>1, <1>4, PowOdd
    <3> QED  BY <3>1, <2>1, <1>5
  <2>3. powLoop[state(i, c, x)] = powLoop[state(i \div 2, times(c, c), x)]
    BY <1>4, <1>6, PowStep
  <2>4. powLoop[state(i \div 2, times(c, c), c)] <= powLoop[state(i \div 2, times(c, c), x)]
    BY <1>3, <1>4, <1>5, PowLoopMonotone
  <2> QED  BY <2>2, <2>3, <2>4, <1>3
<1>7. CASE i % 2 = 1
  <2>1. (i + 1) % 2 = 0 /\ (i + 1) \div 2 = i \div 2 + 1 /\ i \div 2 < i
    BY <1>4, <1>7
  <2>2. powLoop[state(i + 1, c, One)] = powLoop[state(i \div 2 + 1, times(c, c), One)]
    <3>1. powLoop[state(i + 1, c, One)] = powLoop[state((i + 1) \div 2, times(c, c), One)]
      BY <2>1, <1>4, PowEven
    <3> QED  BY <3>1, <2>1
  <2>3. powLoop[state(i, c, x)] = powLoop[state(i \div 2, times(c, c), times(x, c))]
    BY <1>4, <1>7, PowStep
  <2>4. Holds(i \div 2)
    <3> HIDE DEF Holds
    <3> QED  BY <1>2, <1>4, <2>1
  <2>5. powLoop[state(i \div 2 + 1, times(c, c), One)]
          <= powLoop[state(i \div 2, times(c, c), times(x, c))]
    BY <2>4, <1>5
  <2> QED  BY <2>2, <2>3, <2>5, <1>3
<1>8. i % 2 \in {0, 1}
  BY <1>4
<1> QED  BY <1>6, <1>7, <1>8

(***************************************************************************)
(* No product of the loop overflows: the base stays below 1.0, the value   *)
(* does not exceed it.                                                     *)
(***************************************************************************)
LEMMA ProductFits ==
  ASSUME NEW a \in Nat, NEW b \in Nat, a <= One, b < One
  PROVE  a * b < Word
<1>1. a * b <= One * b
  BY OneType, MulMono
<1>2. b * One <= (One - 1) * One
  BY OneType, MulMono
<1>3. (One - 1) * One = One * One - One /\ b * One = One * b
  BY OneType
<1>4. a * b \in Nat /\ One * b \in Nat /\ One * One \in Nat
  BY OneType
<1> QED  BY <1>1, <1>2, <1>3, <1>4, OneType, PowAssumption

LEMMA FitsLoop ==
  ASSUME NEW s \in PowState, s.base < One, s.v <= One
  PROVE  powFitsLoop[s]
<1> DEFINE T == {t.n : t \in {t \in PowState : t.base < One /\ t.v <= One /\ ~powFitsLoop[t]}}
<1>1. SUFFICES ASSUME ~powFitsLoop[s] PROVE FALSE
  OBVIOUS
<1>2. s.n \in T /\ T \subseteq Nat
  BY <1>1 DEF PowState
<1>3. PICK x \in T : \A y \in T : x <= y
  BY <1>2, LeastElement
<1>4. PICK t \in PowState : x = t.n /\ t.base < One /\ t.v <= One /\ ~powFitsLoop[t]
  BY <1>3
<1>5. t.n \in Nat /\ t.base \in Nat /\ t.v \in Nat /\ One \in Nat /\ t.base <= One
  BY <1>4, OneType DEF PowState
<1>6. iterationFits(t)
  BY <1>4, <1>5, ProductFits DEF iterationFits
<1>7. t.n # 0 /\ ~powFitsLoop[iteration(t)]
  BY <1>4, <1>6, FitsLoopDef
<1>8. iteration(t).base < One /\ iteration(t).v <= One
  <2>1. /\ times(t.base, t.base) \in Nat /\ times(t.v, t.base) \in Nat
        /\ times(t.base, t.base) <= t.base /\ times(t.v, t.base) <= t.base
    BY <1>4, <1>5, TimesType, TimesBound
  <2>2. /\ iteration(t).base = times(t.base, t.base)
        /\ iteration(t).v \in {times(t.v, t.base), t.v}
    BY DEF iteration, times
  <2> QED  BY <2>1, <2>2, <1>4, <1>5
<1>9. iteration(t).n \in T /\ iteration(t).n < t.n
  BY <1>7, <1>8, IterationType
<1> QED  BY <1>2, <1>3, <1>4, <1>9
-----------------------------------------------------------------------------
LEMMA PowType == ASSUME NEW x \in Nat, NEW k \in Nat PROVE pow(x, k) \in Nat
BY OneType, PowStep DEF pow, state

(***************************************************************************)
(* A discount below 1.0 never overflows a word, whatever the exponent:     *)
(* upfrontPayment() does not start to revert as time passes.               *)
(***************************************************************************)
THEOREM PowFits ==
  ASSUME NEW x \in Nat, NEW k \in Nat, x < One
  PROVE  powFits(x, k)
<1>1. state(k, x, One) \in PowState /\ One <= One
  BY OneType DEF state, PowState
<1> QED  BY <1>1, FitsLoop DEF powFits, state

(***************************************************************************)
(* The power does not rise with the exponent, in spite of the rounding:    *)
(* storage does not get dearer from one second to the next.                *)
(***************************************************************************)
THEOREM PowFalls ==
  ASSUME NEW x \in Nat, NEW k \in Nat, x <= One
  PROVE  pow(x, k + 1) <= pow(x, k)
BY OneType, PowLoopFalls DEF pow, state

(***************************************************************************)
(* So it is at most 1.0, and falls from any second to any later one: the   *)
(* subtraction in _paymentInInterval() does not underflow.                 *)
(***************************************************************************)
THEOREM PowAntitone ==
  ASSUME NEW x \in Nat, x <= One, NEW i \in Nat, NEW j \in Nat, i <= j
  PROVE  pow(x, j) <= pow(x, i)
<1> DEFINE T == {k \in Nat : i <= k /\ ~(pow(x, k) <= pow(x, i))}
<1>1. SUFFICES ASSUME T # {} PROVE FALSE
  OBVIOUS
<1>2. PICK k \in T : \A l \in T : k <= l
  BY <1>1, LeastElement
<1>3. k # i /\ k \in Nat /\ i <= k /\ ~(pow(x, k) <= pow(x, i))
  BY <1>2, PowType
<1>4. k - 1 \in Nat /\ i <= k - 1 /\ k - 1 + 1 = k /\ k - 1 < k
  BY <1>3
<1>5. pow(x, k - 1) <= pow(x, i)
  BY <1>2, <1>4
<1>6. pow(x, k) <= pow(x, k - 1)
  BY <1>4, PowFalls
<1> QED  BY <1>3, <1>4, <1>5, <1>6, PowType

LEMMA PowAtMostOne ==
  ASSUME NEW x \in Nat, NEW k \in Nat, x <= One
  PROVE  pow(x, k) <= One
<1>1. pow(x, 0) = One
  BY OneType, PowStep DEF pow, state
<1> QED  BY <1>1, PowAntitone
-----------------------------------------------------------------------------
(***************************************************************************)
(* findNextPowerOf2(): n & (n - 1) by halves, and what is left when it is  *)
(* zero.                                                                   *)
(***************************************************************************)
Positive == Nat \ {0}

LEMMA LowestBitDef ==
  ASSUME NEW k \in Positive
  PROVE  /\ lowestBit[k] = IF k % 2 = 1 THEN 1 ELSE 2 * lowestBit[k \div 2]
         /\ lowestBit[k] \in Nat
<1> DEFINE D == Positive
           m == [n \in D |-> IF n % 2 = 1 THEN 0 ELSE n]
           next == [n \in D |-> IF n % 2 = 1 THEN n ELSE n \div 2]
           out == [n \in D |-> 1]
           step == [n \in D |-> [r \in Nat |-> 2 * r]]
<1>1. /\ m \in [D -> Nat] /\ next \in [D -> D] /\ out \in [D -> Nat]
      /\ step \in [D -> [Nat -> Nat]]
  BY DEF Positive
<1>2. Decreases(D, m, next)
  BY DEF Decreases, Positive
<1>3. PICK f \in [D -> Nat] : Recursive(f, D, m, next, out, step)
  <2> HIDE DEF D, m, next, out, step
  <2> QED BY <1>1, <1>2, Recursion, Zenon
<1>4. \A n \in D : f[n] = IF n % 2 = 1 THEN 1 ELSE 2 * f[n \div 2]
  <2> SUFFICES ASSUME NEW n \in D PROVE f[n] = IF n % 2 = 1 THEN 1 ELSE 2 * f[n \div 2]
    OBVIOUS
  <2>1. f[n] = IF m[n] = 0 THEN out[n] ELSE step[n][f[next[n]]]
    BY <1>3 DEF Recursive
  <2>2. (m[n] = 0 <=> n % 2 = 1) /\ (n % 2 # 1 => next[n] = n \div 2 /\ n \div 2 \in D)
    BY DEF Positive
  <2>3. out[n] = 1 /\ (n \div 2 \in D => step[n][f[n \div 2]] = 2 * f[n \div 2])
    BY <1>3
  <2> HIDE DEF m, next, out, step
  <2> QED BY <2>1, <2>2, <2>3
<1>5. f = [n \in Nat \ {0} |-> IF n % 2 = 1 THEN 1 ELSE 2 * f[n \div 2]]
  BY <1>4 DEF Positive
<1>6. lowestBit = [n \in Nat \ {0} |-> IF n % 2 = 1 THEN 1 ELSE 2 * lowestBit[n \div 2]]
  <2> HIDE DEF D
  <2> QED BY <1>5, Zenon DEF lowestBit
<1> DEFINE S == {n \in Nat : n # 0 => lowestBit[n] \in Nat}
<1>7. ASSUME NEW n \in Nat, \A i \in Nat : i < n => i \in S PROVE n \in S
  <2> SUFFICES ASSUME n # 0 PROVE lowestBit[n] \in Nat
    OBVIOUS
  <2>1. CASE n % 2 = 1
    BY <2>1, <1>6
  <2>2. CASE n % 2 # 1
    <3>1. n \div 2 \in S /\ n \div 2 \in Nat /\ n \div 2 # 0
      BY <1>7, <2>2
    <3> QED BY <3>1, <2>2, <1>6
  <2> QED BY <2>1, <2>2
<1>8. \A n \in Nat : n \in S
  <2> HIDE DEF S
  <2> QED BY <1>7, StrongInduction
<1> QED BY <1>6, <1>8 DEF Positive

LEMMA LowestBitRange ==
  ASSUME NEW k \in Positive
  PROVE  lowestBit[k] \in 1..k
<1> DEFINE S == {n \in Nat : n # 0 => lowestBit[n] \in 1..n}
<1>1. ASSUME NEW n \in Nat, \A i \in Nat : i < n => i \in S PROVE n \in S
  <2> SUFFICES ASSUME n # 0 PROVE lowestBit[n] \in 1..n
    OBVIOUS
  <2>1. CASE n % 2 = 1
    BY <2>1, LowestBitDef DEF Positive
  <2>2. CASE n % 2 # 1
    <3>1. n \div 2 \in S /\ n \div 2 \in Nat /\ n \div 2 # 0
      BY <1>1, <2>2
    <3>2. lowestBit[n] = 2 * lowestBit[n \div 2] /\ lowestBit[n \div 2] \in 1..(n \div 2)
      BY <3>1, <2>2, LowestBitDef DEF Positive
    <3> QED BY <3>2, <2>2
  <2> QED BY <2>1, <2>2
<1>2. \A n \in Nat : n \in S
  <2> HIDE DEF S
  <2> QED BY <1>1, StrongInduction
<1> QED BY <1>2 DEF Positive

LEMMA AndPred ==
  ASSUME NEW k \in Positive
  PROVE  /\ andPred(k) \in 0..(k - 1)
         /\ k % 2 = 1 => andPred(k) = k - 1
         /\ k % 2 = 0 => k \div 2 \in Positive /\ k = 2 * (k \div 2)
                           /\ andPred(k) = 2 * andPred(k \div 2)
<1>1. lowestBit[k] \in 1..k
  BY LowestBitRange
<1>2. CASE k % 2 = 1
  BY <1>1, <1>2, LowestBitDef DEF andPred, Positive
<1>3. CASE k % 2 = 0
  <2>1. k \div 2 \in Positive /\ k = 2 * (k \div 2)
    BY <1>3 DEF Positive
  <2>2. lowestBit[k \div 2] \in 1..(k \div 2) /\ lowestBit[k] = 2 * lowestBit[k \div 2]
    BY <1>3, <2>1, LowestBitRange, LowestBitDef
  <2> QED BY <1>1, <1>3, <2>1, <2>2 DEF andPred, Positive
<1> QED BY <1>2, <1>3 DEF Positive

(***************************************************************************)
(* Taking the lowest bit away does not take away a power of two that is    *)
(* under the number; and when nothing is left, the number was one.         *)
(***************************************************************************)
LEMMA AndPredKeepsPowers ==
  ASSUME NEW k \in Positive
  PROVE  /\ andPred(k) = 0 => \E e \in Nat : k = 2 ^ e
         /\ andPred(k) # 0 => \A e \in Nat : 2 ^ e <= k => 2 ^ e <= andPred(k)
<1> DEFINE Holds(n) == /\ andPred(n) = 0 => \E e \in Nat : n = 2 ^ e
                       /\ andPred(n) # 0 => \A e \in Nat : 2 ^ e <= n => 2 ^ e <= andPred(n)
           S == {n \in Nat : n # 0 => Holds(n)}
<1>1. ASSUME NEW n \in Nat, \A i \in Nat : i < n => i \in S PROVE n \in S
  <2> SUFFICES ASSUME n # 0 PROVE Holds(n)
    OBVIOUS
  <2>1. n \in Positive /\ andPred(n) \in Nat
    BY AndPred DEF Positive
  <2>2. \A e \in Nat : 2 ^ e \in Positive /\ (e = 0 => 2 ^ e = 1)
          /\ (e # 0 => e - 1 \in Nat /\ 2 ^ e = 2 * 2 ^ (e - 1))
    <3>1. 2 ^ 0 = 1
      OBVIOUS
    <3>2. ASSUME NEW e \in Nat, e # 0 PROVE e - 1 \in Nat /\ 2 ^ e = 2 * 2 ^ (e - 1)
      <4>1. e - 1 \in Nat /\ e - 1 + 1 = e
        BY <3>2
      <4>2. 2 ^ (e - 1 + 1) = 2 * 2 ^ (e - 1)
        BY <4>1, TwoPower, Zenon
      <4> QED BY <4>1, <4>2, Zenon
    <3> QED BY <3>1, <3>2, PowersPositive, Zenon DEF Positive
  <2>3. CASE n % 2 = 1
    <3>1. andPred(n) = n - 1
      BY <2>1, <2>3, AndPred
    <3>2. andPred(n) = 0 => n = 2 ^ 0
      BY <3>1
    <3>3. ASSUME andPred(n) # 0, NEW e \in Nat, 2 ^ e <= n PROVE 2 ^ e <= andPred(n)
      <4>1. 2 ^ e # n
        BY <2>2, <2>3, <3>1, <3>3 DEF Positive
      <4> QED BY <2>2, <3>1, <3>3, <4>1 DEF Positive
    <3> QED BY <3>2, <3>3
  <2>4. CASE n % 2 = 0
    <3> DEFINE h == n \div 2
    <3>1. h \in Positive /\ n = 2 * h /\ andPred(n) = 2 * andPred(h)
      BY <2>1, <2>4, AndPred
    <3>2. h \in Nat /\ h < n /\ h # 0
      BY <3>1, <2>1 DEF Positive
    <3>3. Holds(h)
      <4> HIDE DEF Holds, h
      <4> QED BY <1>1, <3>2
    <3>4. andPred(h) \in Nat
      BY <3>1, AndPred DEF Positive
    <3> HIDE DEF h
    <3>5. ASSUME andPred(n) = 0 PROVE \E e \in Nat : n = 2 ^ e
      <4>1. andPred(h) = 0
        BY <3>1, <3>4, <3>5
      <4>2. PICK e \in Nat : h = 2 ^ e
        BY <4>1, <3>3
      <4>3. n = 2 ^ (e + 1) /\ e + 1 \in Nat
        BY <4>2, <3>1, TwoPower
      <4> QED BY <4>3
    <3>6. ASSUME andPred(n) # 0, NEW e \in Nat, 2 ^ e <= n PROVE 2 ^ e <= andPred(n)
      <4>1. andPred(h) # 0
        BY <3>1, <3>4, <3>6
      <4>2. CASE e = 0
        BY <4>1, <4>2, <3>1, <3>4, <2>2
      <4>3. CASE e # 0
        <5>1. PICK q \in Nat : q = 2 ^ (e - 1) /\ 2 ^ e = 2 * q /\ e - 1 \in Nat
          BY <4>3, <2>2 DEF Positive
        <5>2. q <= h
          BY <5>1, <3>1, <3>2, <3>6
        <5>3. q <= andPred(h)
          BY <5>1, <5>2, <4>1, <3>3
        <5> QED BY <5>1, <5>3, <3>1, <3>4
      <4> QED BY <4>2, <4>3
    <3> QED BY <3>5, <3>6
  <2> QED BY <2>1, <2>3, <2>4 DEF Positive
<1>2. \A n \in Nat : n \in S
  <2> HIDE DEF S
  <2> QED BY <1>1, StrongInduction
<1> QED BY <1>2 DEF Positive

(***************************************************************************)
(* findNextPowerOf2() is the first power of two that is not under n.       *)
(***************************************************************************)
LEMMA NextPower ==
  ASSUME NEW n \in Nat, n >= 2
  PROVE  \E e \in Nat : findNextPowerOf2(n) = 2 ^ (e + 1) /\ 2 ^ e < n /\ n <= 2 ^ (e + 1)
<1> DEFINE D == Positive
           highestBit[m \in Nat \ {0}] == IF andPred(m) = 0 THEN m ELSE highestBit[andPred(m)]
           m == [k \in D |-> andPred(k)]
           next == [k \in D |-> IF andPred(k) = 0 THEN k ELSE andPred(k)]
           out == [k \in D |-> k]
<1>1. m \in [D -> Nat] /\ next \in [D -> D] /\ out \in [D -> Nat]
  BY AndPred DEF Positive
<1>2. Decreases(D, m, next)
  <2> SUFFICES ASSUME NEW k \in D, andPred(k) # 0 PROVE andPred(andPred(k)) < andPred(k)
    BY <1>1 DEF Decreases
  <2>1. andPred(k) \in Positive
    BY AndPred DEF Positive
  <2> QED BY <2>1, AndPred DEF Positive
<1>3. PICK f \in [D -> Nat] : TailRecursive(f, D, m, next, out)
  <2> HIDE DEF D, m, next, out
  <2> QED BY <1>1, <1>2, TailRecursion, Zenon
<1>4. f = [k \in Nat \ {0} |-> IF andPred(k) = 0 THEN k ELSE f[andPred(k)]]
  BY <1>3 DEF TailRecursive, Positive
<1>5. highestBit = [k \in Nat \ {0} |-> IF andPred(k) = 0 THEN k ELSE highestBit[andPred(k)]]
  <2> HIDE DEF D
  <2> QED BY <1>4, Zenon
<1> HIDE DEF highestBit
<1> DEFINE Highest(k) == \E e \in Nat : highestBit[k] = 2 ^ e /\ 2 ^ e <= k /\ k < 2 ^ (e + 1)
           S == {k \in Nat : k # 0 => Highest(k)}
<1>6. ASSUME NEW k \in Nat, \A i \in Nat : i < k => i \in S PROVE k \in S
  <2> SUFFICES ASSUME k # 0 PROVE Highest(k)
    OBVIOUS
  <2>1. k \in Positive /\ andPred(k) \in Nat /\ andPred(k) < k
    BY AndPred DEF Positive
  <2>2. CASE andPred(k) = 0
    <3>1. PICK e \in Nat : k = 2 ^ e
      BY <2>1, <2>2, AndPredKeepsPowers
    <3>2. highestBit[k] = k
      BY <2>1, <2>2, <1>5 DEF Positive
    <3>3. 2 ^ (e + 1) = 2 * k
      BY <3>1, TwoPower
    <3> QED BY <2>1, <3>1, <3>2, <3>3 DEF Positive
  <2>3. CASE andPred(k) # 0
    <3>1. highestBit[k] = highestBit[andPred(k)]
      BY <2>1, <2>3, <1>5 DEF Positive
    <3>2. Highest(andPred(k))
      <4> HIDE DEF Highest
      <4> QED BY <1>6, <2>1, <2>3
    <3>3. PICK e \in Nat : highestBit[k] = 2 ^ e /\ 2 ^ e <= andPred(k) /\ andPred(k) < 2 ^ (e + 1)
      BY <3>1, <3>2
    <3>4. 2 ^ (e + 1) \in Nat /\ 2 ^ e \in Nat /\ e + 1 \in Nat
      BY PowersPositive
    <3>5. ~(2 ^ (e + 1) <= k)
      BY <2>1, <2>3, <3>3, <3>4, AndPredKeepsPowers
    <3> QED BY <2>1, <3>3, <3>4, <3>5
  <2> QED BY <2>2, <2>3
<1>7. n - 1 \in S
  <2>1. \A k \in Nat : k \in S
    <3> HIDE DEF S
    <3> QED BY <1>6, StrongInduction
  <2> QED BY <2>1
<1>8. PICK e \in Nat : highestBit[n - 1] = 2 ^ e /\ 2 ^ e <= n - 1 /\ n - 1 < 2 ^ (e + 1)
  BY <1>7
<1>9. findNextPowerOf2(n) = 2 * highestBit[n - 1]
  BY Zenon DEF findNextPowerOf2, highestBit
<1>10. 2 ^ (e + 1) = 2 * 2 ^ e /\ 2 ^ e \in Nat
  BY TwoPower
<1> QED BY <1>8, <1>9, <1>10
-----------------------------------------------------------------------------
(***************************************************************************)
(* There is a set of hashes that has the hash of every pair in it.         *)
(***************************************************************************)
Closed(H) == \A l, r \in H : hashPair(l, r) \in H

WithPairs(X) == X \cup {hashPair(l, r) : l \in X, r \in X}

Generations(f, n, Base) ==
  /\ f[0] = Base
  /\ \A i \in 0..(n - 1) : f[i + 1] = WithPairs(f[i])

LEMMA GenerationsExist ==
  ASSUME NEW Base
  PROVE  \A n \in Nat : \E f : Generations(f, n, Base)
<1> DEFINE S == {n \in Nat : \E f : Generations(f, n, Base)}
<1>1. 0 \in S
  <2> DEFINE f == [i \in 0..0 |-> Base]
  <2>1. f[0] = Base /\ 0..(0 - 1) = {}
    OBVIOUS
  <2> HIDE DEF f
  <2>2. Generations(f, 0, Base)
    BY <2>1 DEF Generations
  <2> QED BY <2>2
<1>2. ASSUME NEW n \in Nat, n \in S PROVE n + 1 \in S
  <2>1. PICK f : Generations(f, n, Base)
    BY <1>2
  <2> DEFINE g == [i \in 0..(n + 1) |-> IF i = n + 1 THEN WithPairs(f[n]) ELSE f[i]]
  <2>2. g[0] = f[0] /\ g[n + 1] = WithPairs(g[n])
    OBVIOUS
  <2>3. \A i \in 0..(n - 1) : g[i] = f[i] /\ g[i + 1] = f[i + 1]
    OBVIOUS
  <2>4. \A i \in 0..((n + 1) - 1) : i = n \/ i \in 0..(n - 1)
    OBVIOUS
  <2> HIDE DEF g
  <2>5. \A i \in 0..(n - 1) : g[i + 1] = WithPairs(g[i])
    BY <2>1, <2>3, Zenon DEF Generations
  <2>6. \A i \in 0..((n + 1) - 1) : g[i + 1] = WithPairs(g[i])
    BY <2>2, <2>4, <2>5, Zenon
  <2>7. g[0] = Base
    BY <2>1, <2>2, Zenon DEF Generations
  <2>8. Generations(g, n + 1, Base)
    BY <2>6, <2>7, Zenon DEF Generations
  <2>9. n + 1 \in Nat
    OBVIOUS
  <2> QED BY <2>8, <2>9
<1> HIDE DEF S
<1>3. \A n \in Nat : n \in S
  BY <1>1, <1>2, Induction
<1> QED BY <1>3, Zenon DEF S

LEMMA GenerationsAgree ==
  ASSUME NEW Base, NEW n \in Nat, NEW f, NEW g,
         Generations(f, n, Base), Generations(g, n + 1, Base)
  PROVE  f[n] = g[n]
<1> DEFINE S == {i \in Nat : i <= n => f[i] = g[i]}
<1>1. 0 \in S
  BY DEF Generations
<1>2. ASSUME NEW i \in Nat, i \in S PROVE i + 1 \in S
  <2> SUFFICES ASSUME i + 1 <= n PROVE f[i + 1] = g[i + 1]
    OBVIOUS
  <2>1. f[i] = g[i] /\ i \in 0..(n - 1) /\ i \in 0..((n + 1) - 1)
    BY <1>2
  <2>2. f[i + 1] = WithPairs(f[i]) /\ g[i + 1] = WithPairs(g[i])
    BY <2>1, Zenon DEF Generations
  <2> QED BY <2>1, <2>2, Zenon
<1> HIDE DEF S
<1>3. \A i \in Nat : i \in S
  BY <1>1, <1>2, Induction
<1> QED BY <1>3 DEF S

LEMMA HashesExist == ASSUME NEW Base PROVE \E H : Base \subseteq H /\ Closed(H)
<1> DEFINE approx(n) == CHOOSE f : Generations(f, n, Base)
           h == [n \in Nat |-> approx(n)[n]]
<1>1. \A n \in Nat : Generations(approx(n), n, Base)
  BY GenerationsExist, Zenon
<1>2. \A n \in Nat : h[n] = approx(n)[n]
  OBVIOUS
<1> HIDE DEF approx, h
<1>3. h[0] = Base
  BY <1>1, <1>2 DEF Generations
<1>4. ASSUME NEW n \in Nat PROVE h[n + 1] = WithPairs(h[n])
  <2>1. n + 1 \in Nat /\ n \in 0..((n + 1) - 1)
    OBVIOUS
  <2>2. Generations(approx(n), n, Base) /\ Generations(approx(n + 1), n + 1, Base)
    BY <1>1, <2>1
  <2>3. approx(n + 1)[n + 1] = WithPairs(approx(n + 1)[n])
    BY <2>1, <2>2, Zenon DEF Generations
  <2>4. approx(n)[n] = approx(n + 1)[n]
    BY <2>2, GenerationsAgree, Zenon
  <2> QED BY <1>2, <2>1, <2>3, <2>4, Zenon
<1>5. ASSUME NEW n \in Nat PROVE \A k \in Nat : h[n] \subseteq h[n + k]
  <2> DEFINE S == {k \in Nat : h[n] \subseteq h[n + k]}
  <2>1. 0 \in S
    OBVIOUS
  <2>2. ASSUME NEW k \in Nat, k \in S PROVE k + 1 \in S
    <3>1. n + (k + 1) = (n + k) + 1 /\ n + k \in Nat
      OBVIOUS
    <3>2. h[(n + k) + 1] = WithPairs(h[n + k])
      BY <3>1, <1>4
    <3>3. h[n] \subseteq h[(n + k) + 1]
      BY <2>2, <3>2 DEF WithPairs
    <3> QED BY <3>1, <3>3
  <2> HIDE DEF S
  <2>3. \A k \in Nat : k \in S
    BY <2>1, <2>2, Induction
  <2> QED BY <2>3 DEF S
<1> DEFINE H == UNION {h[n] : n \in Nat}
<1>6. Base \subseteq H
  BY <1>3
<1>7. ASSUME NEW l \in H, NEW r \in H PROVE hashPair(l, r) \in H
  <2>1. PICK n \in Nat, k \in Nat : l \in h[n] /\ r \in h[k]
    OBVIOUS
  <2>2. PICK m \in Nat : m = n + k /\ m = k + n /\ m + 1 \in Nat
    <3>1. n + k \in Nat /\ n + k = k + n /\ n + k + 1 \in Nat
      OBVIOUS
    <3> QED BY <3>1
  <2>3. l \in h[m] /\ r \in h[m]
    BY <2>1, <2>2, <1>5
  <2>4. hashPair(l, r) \in h[m + 1]
    <3>1. hashPair(l, r) \in WithPairs(h[m])
      BY <2>3 DEF WithPairs
    <3> QED BY <3>1, <1>4
  <2> QED BY <2>2, <2>4
<1> QED BY <1>6, <1>7 DEF Closed
-----------------------------------------------------------------------------
(***************************************************************************)
(* One pass, in place: a node is read before it is overwritten.            *)
(***************************************************************************)
written(nodes, N, i) ==
  [j \in 0..(N - 1) |-> IF j < i THEN hashPair(nodes[2 * j], nodes[2 * j + 1]) ELSE nodes[j]]

wrote(ns, i) == [ns EXCEPT ![i] = hashPair(ns[2 * i], ns[2 * i + 1])]

LEMMA WriteNode ==
  ASSUME NEW H, NEW N \in Nat, NEW nodes \in [0..(N - 1) -> H], NEW i \in Nat, 2 * i + 1 < N
  PROVE  written(nodes, N, i + 1) = wrote(written(nodes, N, i), i)
<1> DEFINE ns == written(nodes, N, i)
<1>1. ns[2 * i] = nodes[2 * i] /\ ns[2 * i + 1] = nodes[2 * i + 1]
  BY DEF written
<1>2. \A j \in 0..(N - 1) :
        written(nodes, N, i + 1)[j] = IF j = i THEN hashPair(ns[2 * i], ns[2 * i + 1]) ELSE ns[j]
  <2> SUFFICES ASSUME NEW j \in 0..(N - 1)
               PROVE  written(nodes, N, i + 1)[j]
                        = IF j = i THEN hashPair(ns[2 * i], ns[2 * i + 1]) ELSE ns[j]
    OBVIOUS
  <2>1. CASE j = i
    <3>1. written(nodes, N, i + 1)[i] = hashPair(nodes[2 * i], nodes[2 * i + 1])
      BY DEF written
    <3> QED BY <2>1, <3>1, <1>1, Zenon
  <2>2. CASE j # i
    BY <2>2 DEF written
  <2> QED BY <2>1, <2>2
<1>3. written(nodes, N, i + 1) = [j \in 0..(N - 1) |-> written(nodes, N, i + 1)[j]]
  BY DEF written
<1>4. ns = [j \in 0..(N - 1) |-> ns[j]]
  BY DEF written
<1>5. i \in 0..(N - 1)
  OBVIOUS
<1> DEFINE x == hashPair(ns[2 * i], ns[2 * i + 1])
<1>6. [ns EXCEPT ![i] = x] = [j \in 0..(N - 1) |-> IF j = i THEN x ELSE ns[j]]
  <2> HIDE DEF x, ns
  <2> QED BY <1>4, <1>5
<1>7. written(nodes, N, i + 1) = [j \in 0..(N - 1) |-> IF j = i THEN x ELSE ns[j]]
  <2>1. [j \in 0..(N - 1) |-> written(nodes, N, i + 1)[j]]
          = [j \in 0..(N - 1) |-> IF j = i THEN x ELSE ns[j]]
    <3> HIDE DEF ns
    <3> QED BY <1>2
  <2> QED BY <1>3, <2>1, Zenon
<1> QED BY <1>6, <1>7, Zenon DEF x, wrote

LEMMA HashLevel ==
  ASSUME NEW H, NEW N \in Nat, NEW nodes \in [0..(N - 1) -> H], NEW n \in 0..N
  PROVE  hashLevel(nodes, n) = written(nodes, N, n \div 2)
<1> DEFINE h == n \div 2
<1>1. h \in Nat /\ 2 * h <= N
  OBVIOUS
<1> HIDE DEF h
<1> DEFINE loop[i \in 0..h] ==
             IF i = 0 THEN nodes
             ELSE LET ns == loop[i - 1]
                  IN  [ns EXCEPT ![i - 1] = hashPair(ns[2 * i - 2], ns[2 * i - 1])]
           f == [i \in 0..h |-> written(nodes, N, i)]
           overwrite(ns, i) == [ns EXCEPT ![i - 1] = hashPair(ns[2 * i - 2], ns[2 * i - 1])]
<1>2. written(nodes, N, 0) = nodes
  BY DEF written
<1>3. ASSUME NEW i \in 0..h, i # 0
      PROVE  written(nodes, N, i) = overwrite(written(nodes, N, i - 1), i)
  <2>1. PICK k \in Nat : /\ k = i - 1 /\ i = k + 1 /\ 2 * i - 2 = 2 * k /\ 2 * i - 1 = 2 * k + 1
                         /\ 2 * k + 1 < N
    <3>1. i - 1 \in Nat /\ i = i - 1 + 1 /\ 2 * i - 2 = 2 * (i - 1)
            /\ 2 * i - 1 = 2 * (i - 1) + 1 /\ 2 * (i - 1) + 1 < N
      BY <1>1, <1>3
    <3> QED BY <3>1
  <2>2. written(nodes, N, k + 1) = wrote(written(nodes, N, k), k)
    <3> HIDE DEF loop, f, overwrite
    <3> QED BY <2>1, WriteNode
  <2> QED BY <2>1, <2>2, Zenon DEF wrote
<1>4. f = [i \in 0..h |-> IF i = 0 THEN nodes ELSE overwrite(f[i - 1], i)]
  <2>1. \A i \in 0..h : i # 0 => i - 1 \in 0..h
    BY <1>1
  <2>2. \A i \in 0..h : f[i] = written(nodes, N, i)
    OBVIOUS
  <2>3. f = [i \in 0..h |-> f[i]]
    OBVIOUS
  <2> HIDE DEF f, overwrite
  <2>4. \A i \in 0..h : f[i] = IF i = 0 THEN nodes ELSE overwrite(f[i - 1], i)
    BY <1>2, <1>3, <2>1, <2>2, Zenon
  <2> QED BY <2>3, <2>4, Zenon
<1>5. loop = [i \in 0..h |-> IF i = 0 THEN nodes ELSE overwrite(loop[i - 1], i)]
  <2> HIDE DEF f
  <2> QED BY <1>4
<1> HIDE DEF loop, overwrite
<1> DEFINE S == {i \in Nat : i <= h => loop[i] = written(nodes, N, i)}
<1>6. 0 \in S
  BY <1>1, <1>2, <1>5
<1>7. ASSUME NEW i \in Nat, i \in S PROVE i + 1 \in S
  <2> SUFFICES ASSUME i + 1 <= h PROVE loop[i + 1] = written(nodes, N, i + 1)
    OBVIOUS
  <2>1. i + 1 \in 0..h /\ i + 1 # 0 /\ i + 1 - 1 = i /\ i <= h
    BY <1>1
  <2>2. loop[i + 1] = overwrite(loop[i + 1 - 1], i + 1)
    BY <2>1, <1>5
  <2>3. loop[i] = written(nodes, N, i)
    BY <1>7, <2>1
  <2>4. written(nodes, N, i + 1) = overwrite(written(nodes, N, i + 1 - 1), i + 1)
    BY <2>1, <1>3
  <2> QED BY <2>1, <2>2, <2>3, <2>4, Zenon
<1>8. loop[h] = written(nodes, N, h)
  <2> HIDE DEF S
  <2>1. \A i \in Nat : i \in S
    BY <1>6, <1>7, Induction
  <2> QED BY <2>1, <1>1 DEF S
<1> QED BY <1>8, Zenon DEF hashLevel, loop, h

LEMMA LevelType ==
  ASSUME NEW H, Closed(H), NEW N \in Nat, NEW nodes \in [0..(N - 1) -> H], NEW n \in 0..N
  PROVE  hashLevel(nodes, n) \in [0..(N - 1) -> H]
<1>1. hashLevel(nodes, n) = written(nodes, N, n \div 2)
  BY HashLevel
<1>2. \A j \in 0..(N - 1) : j < n \div 2 => 2 * j \in 0..(N - 1) /\ 2 * j + 1 \in 0..(N - 1)
  OBVIOUS
<1>3. \A j \in 0..(N - 1) : j < n \div 2 => hashPair(nodes[2 * j], nodes[2 * j + 1]) \in H
  BY <1>2 DEF Closed
<1> QED BY <1>1, <1>3 DEF written
-----------------------------------------------------------------------------
(***************************************************************************)
(* All passes: the arrays, and how many there are.                         *)
(***************************************************************************)
Halving(a, leafNodes, N, H) ==
  /\ a \in [Nat -> [0..(N - 1) -> H]]
  /\ a[0] = leafNodes
  /\ \A d \in Nat : a[d + 1] = written(a[d], N, (N \div 2 ^ d) \div 2)

LEMMA PassesDef ==
  ASSUME NEW Base, NEW N \in Nat, NEW leafNodes \in [0..(N - 1) -> Base]
  PROVE  \E H : Halving(passes(leafNodes, N), leafNodes, N, H)
<1>1. PICK H : Base \subseteq H /\ Closed(H)
  BY HashesExist
<1> DEFINE A == [0..(N - 1) -> H]
           pass(nodes, d) == hashLevel(nodes, N \div 2 ^ (d - 1))
           m == [d \in Nat |-> d]
           next == [d \in Nat |-> IF d = 0 THEN 0 ELSE d - 1]
           out == [d \in Nat |-> leafNodes]
           step == [d \in Nat |-> [nodes \in A |-> IF d = 0 THEN nodes ELSE pass(nodes, d)]]
           after[d \in Nat] ==
             IF d = 0 THEN leafNodes ELSE hashLevel(after[d - 1], N \div 2 ^ (d - 1))
<1>2. \A d \in Nat : N \div 2 ^ d \in 0..N
  <2> SUFFICES ASSUME NEW d \in Nat PROVE N \div 2 ^ d \in 0..N
    OBVIOUS
  <2>1. PICK p \in Nat \ {0} : p = 2 ^ d
    BY PowersPositive
  <2> DEFINE q == N \div p
  <2>2. q \in Nat /\ q * p <= N
    BY DivDef
  <2> HIDE DEF q
  <2>3. 1 * q <= p * q
    BY <2>1, <2>2, MulMono
  <2>4. q * p = p * q /\ q * p \in Nat
    BY <2>2
  <2>5. q \in 0..N
    BY <2>2, <2>3, <2>4
  <2> QED BY <2>1, <2>5 DEF q
<1>3. leafNodes \in A
  BY <1>1
<1>4. \A d \in Nat, nodes \in A : d # 0 => pass(nodes, d) \in A
  <2> SUFFICES ASSUME NEW d \in Nat, NEW nodes \in A, d # 0
               PROVE  hashLevel(nodes, N \div 2 ^ (d - 1)) \in A
    OBVIOUS
  <2>1. N \div 2 ^ (d - 1) \in 0..N
    <3>1. d - 1 \in Nat
      OBVIOUS
    <3> QED BY <1>2, <3>1
  <2> QED BY <1>1, <2>1, LevelType
<1>5. /\ m \in [Nat -> Nat] /\ next \in [Nat -> Nat] /\ out \in [Nat -> A]
      /\ step \in [Nat -> [A -> A]]
  <2>1. m \in [Nat -> Nat] /\ next \in [Nat -> Nat]
    OBVIOUS
  <2> HIDE DEF A, pass
  <2> QED BY <1>3, <1>4, <2>1
<1>6. Decreases(Nat, m, next)
  BY DEF Decreases
<1>7. PICK f \in [Nat -> A] : Recursive(f, Nat, m, next, out, step)
  <2> HIDE DEF A, m, next, out, step
  <2> QED BY <1>5, <1>6, Recursion, Zenon
<1>8. \A d \in Nat : f[d] = IF d = 0 THEN leafNodes ELSE pass(f[d - 1], d)
  <2> SUFFICES ASSUME NEW d \in Nat
               PROVE  f[d] = IF d = 0 THEN leafNodes ELSE pass(f[d - 1], d)
    OBVIOUS
  <2>1. f[d] = IF m[d] = 0 THEN out[d] ELSE step[d][f[next[d]]]
    BY <1>7, Zenon DEF Recursive
  <2>2. m[d] = d /\ out[d] = leafNodes /\ (d # 0 => next[d] = d - 1 /\ d - 1 \in Nat)
    OBVIOUS
  <2>3. \A nodes \in A : d # 0 => step[d][nodes] = pass(nodes, d)
    <3> HIDE DEF pass, A
    <3> QED OBVIOUS
  <2>4. d # 0 => f[d - 1] \in A
    BY <2>2, <1>7
  <2> HIDE DEF m, next, out, step, pass, A
  <2> QED BY <2>1, <2>2, <2>3, <2>4
<1>9. f = [d \in Nat |-> IF d = 0 THEN leafNodes ELSE pass(f[d - 1], d)]
  <2>1. f = [d \in Nat |-> f[d]]
    BY <1>7
  <2> HIDE DEF pass, A
  <2> QED BY <1>8, <2>1, Zenon
<1>10. after = [d \in Nat |-> IF d = 0 THEN leafNodes ELSE pass(after[d - 1], d)]
  BY <1>9, Zenon
<1>11. passes(leafNodes, N) = after
  BY Zenon DEF passes
<1> HIDE DEF after
<1>12. after[0] = leafNodes /\ \A d \in Nat : after[d + 1] = pass(after[d], d + 1)
  <2> HIDE DEF pass
  <2>1. after[0] = leafNodes
    BY <1>10
  <2>2. ASSUME NEW d \in Nat PROVE after[d + 1] = pass(after[d], d + 1)
    <3>1. d + 1 \in Nat /\ d + 1 # 0 /\ d + 1 - 1 = d
      OBVIOUS
    <3>2. after[d + 1] = pass(after[d + 1 - 1], d + 1)
      BY <1>10, <3>1
    <3> QED BY <3>1, <3>2, Zenon
  <2> QED BY <2>1, <2>2
<1>13. \A d \in Nat : after[d] \in A
  <2> DEFINE S == {d \in Nat : after[d] \in A}
  <2>1. 0 \in S
    BY <1>3, <1>12
  <2>2. ASSUME NEW d \in Nat, d \in S PROVE d + 1 \in S
    <3> HIDE DEF A, pass
    <3>1. pass(after[d], d + 1) \in A
      BY <2>2, <1>4
    <3> QED BY <3>1, <1>12
  <2> HIDE DEF S
  <2>3. \A d \in Nat : d \in S
    BY <2>1, <2>2, Induction
  <2> QED BY <2>3 DEF S
<1>14. after \in [Nat -> A]
  <2> HIDE DEF A, pass
  <2> QED BY <1>10, <1>13
<1>15. ASSUME NEW d \in Nat
       PROVE  after[d + 1] = written(after[d], N, (N \div 2 ^ d) \div 2)
  <2>1. after[d] \in [0..(N - 1) -> H] /\ N \div 2 ^ d \in 0..N
    BY <1>13, <1>2
  <2>2. hashLevel(after[d], N \div 2 ^ d) = written(after[d], N, (N \div 2 ^ d) \div 2)
    BY <2>1, HashLevel
  <2>3. pass(after[d], d + 1) = hashLevel(after[d], N \div 2 ^ d)
    <3>1. d + 1 - 1 = d
      OBVIOUS
    <3> QED BY <3>1
  <2>4. after[d + 1] = pass(after[d], d + 1)
    <3> HIDE DEF pass
    <3> QED BY <1>12
  <2> HIDE DEF pass
  <2> QED BY <2>2, <2>3, <2>4
<1> QED BY <1>11, <1>12, <1>14, <1>15, Zenon DEF A, Halving

LEMMA PassCountDef ==
  ASSUME NEW n \in Positive
  PROVE  /\ passCount[n] = IF n = 1 THEN 0 ELSE 1 + passCount[n \div 2]
         /\ n # 1 => n \div 2 \in Positive
<1> DEFINE D == Positive
           m == [k \in D |-> k - 1]
           next == [k \in D |-> IF k = 1 THEN k ELSE k \div 2]
           out == [k \in D |-> 0]
           step == [k \in D |-> [r \in Nat |-> 1 + r]]
<1>1. /\ m \in [D -> Nat] /\ next \in [D -> D] /\ out \in [D -> Nat]
      /\ step \in [D -> [Nat -> Nat]]
  BY DEF Positive
<1>2. Decreases(D, m, next)
  BY DEF Decreases, Positive
<1>3. PICK f \in [D -> Nat] : Recursive(f, D, m, next, out, step)
  <2> HIDE DEF D, m, next, out, step
  <2> QED BY <1>1, <1>2, Recursion, Zenon
<1>4. \A k \in D : k # 1 => k \div 2 \in D
  BY DEF Positive
<1>5. \A k \in D : f[k] = IF k = 1 THEN 0 ELSE 1 + f[k \div 2]
  <2> SUFFICES ASSUME NEW k \in D PROVE f[k] = IF k = 1 THEN 0 ELSE 1 + f[k \div 2]
    OBVIOUS
  <2>1. f[k] = IF m[k] = 0 THEN out[k] ELSE step[k][f[next[k]]]
    BY <1>3 DEF Recursive
  <2>2. (m[k] = 0 <=> k = 1) /\ (k # 1 => next[k] = k \div 2)
    BY DEF Positive
  <2>3. out[k] = 0 /\ (k # 1 => step[k][f[k \div 2]] = 1 + f[k \div 2])
    BY <1>3, <1>4
  <2> HIDE DEF m, next, out, step
  <2> QED BY <2>1, <2>2, <2>3
<1>6. f = [k \in Nat \ {0} |-> IF k = 1 THEN 0 ELSE 1 + f[k \div 2]]
  BY <1>5 DEF Positive
<1>7. passCount = [k \in Nat \ {0} |-> IF k = 1 THEN 0 ELSE 1 + passCount[k \div 2]]
  <2> HIDE DEF D
  <2> QED BY <1>6, Zenon DEF passCount
<1> QED BY <1>4, <1>7 DEF Positive

LEMMA PassCount == \A b \in Nat : passCount[2 ^ b] = b
<1> DEFINE S == {b \in Nat : passCount[2 ^ b] = b}
<1>1. 0 \in S
  <2>1. 2 ^ 0 = 1 /\ 1 \in Positive
    BY DEF Positive
  <2>2. passCount[1] = 0
    BY <2>1, PassCountDef
  <2> QED BY <2>1, <2>2
<1>2. ASSUME NEW b \in Nat, b \in S PROVE b + 1 \in S
  <2>1. PICK p \in Positive : p = 2 ^ b /\ 2 ^ (b + 1) = 2 * p /\ 2 * p \in Positive
    <3>1. 2 ^ b \in Positive /\ 2 ^ (b + 1) = 2 * 2 ^ b /\ 2 ^ (b + 1) \in Positive
      BY PowersPositive, TwoPower DEF Positive
    <3> QED BY <3>1
  <2>2. (2 * p) \div 2 = p /\ 2 * p # 1
    BY DEF Positive
  <2>3. passCount[2 * p] = 1 + passCount[p]
    BY <2>1, <2>2, PassCountDef
  <2>4. passCount[p] = b
    BY <1>2, <2>1
  <2> QED BY <2>1, <2>3, <2>4
<1> HIDE DEF S
<1>3. \A b \in Nat : b \in S
  BY <1>1, <1>2, Induction
<1> QED BY <1>3 DEF S
-----------------------------------------------------------------------------
(***************************************************************************)
(* A tree of depth B, from the root (level 0) to the leaves (level B).     *)
(***************************************************************************)
levels(leafNodes, B) == [k \in 0..B |-> passes(leafNodes, 2 ^ B)[B - k]]

Tree(T, B) ==
  \A k \in 0..(B - 1) : \A j \in 0..(2 ^ k - 1) :
    T[k][j] = hashPair(T[k + 1][2 * j], T[k + 1][2 * j + 1])

LEMMA LevelsAreTree ==
  ASSUME NEW Base, NEW B \in Nat, NEW leafNodes \in [0..(2 ^ B - 1) -> Base]
  PROVE  /\ Tree(levels(leafNodes, B), B)
         /\ levels(leafNodes, B)[B] = leafNodes
         /\ levels(leafNodes, B)[0][0] = rootOf(leafNodes, 2 ^ B)
<1> DEFINE T == levels(leafNodes, B)
<1>1. PICK N \in Nat \ {0} : N = 2 ^ B
  BY PowersPositive
<1>2. leafNodes \in [0..(N - 1) -> Base] /\ N \in Nat
  BY <1>1
<1> DEFINE a == passes(leafNodes, N)
<1>3. PICK H : Halving(a, leafNodes, N, H)
  BY <1>2, PassesDef
<1>4. \A k \in 0..B : T[k] = a[B - k]
  BY <1>1, Zenon DEF levels
<1> HIDE DEF a, T
<1>5. T[B] = leafNodes
  <2>1. B \in 0..B /\ B - B = 0
    OBVIOUS
  <2> QED BY <2>1, <1>3, <1>4, Zenon DEF Halving
<1>6. T[0][0] = rootOf(leafNodes, 2 ^ B)
  <2>1. T[0] = a[B]
    BY <1>4
  <2>2. rootOf(leafNodes, 2 ^ B) = passes(leafNodes, N)[B][0]
    BY <1>1, PassCount, Zenon DEF rootOf
  <2> QED BY <2>1, <2>2, Zenon DEF a
<1>7. ASSUME NEW k \in 0..(B - 1), NEW j \in 0..(2 ^ k - 1)
      PROVE  T[k][j] = hashPair(T[k + 1][2 * j], T[k + 1][2 * j + 1])
  <2>1. PICK d \in Nat : d = B - (k + 1) /\ B - k = d + 1 /\ B - d = k + 1 /\ d <= B
    <3>1. B - (k + 1) \in Nat /\ B - k = B - (k + 1) + 1 /\ B - (B - (k + 1)) = k + 1
            /\ B - (k + 1) <= B
      OBVIOUS
    <3> QED BY <3>1
  <2>2. T[k] = a[d + 1] /\ T[k + 1] = a[d]
    <3>1. k \in 0..B /\ k + 1 \in 0..B
      OBVIOUS
    <3> QED BY <2>1, <3>1, <1>4
  <2>3. PICK q \in Nat \ {0} : q = 2 ^ k
    BY PowersPositive
  <2>4. N \div 2 ^ d = 2 * q
    <3>1. 2 ^ B \div 2 ^ d = 2 ^ (B - d)
      BY <2>1, PowersDivide
    <3>2. 2 ^ (k + 1) = 2 * 2 ^ k
      BY TwoPower
    <3> QED BY <1>1, <2>1, <2>3, <3>1, <3>2, Zenon
  <2>5. (N \div 2 ^ d) \div 2 = q
    <3>1. (2 * q) \div 2 = q
      OBVIOUS
    <3> QED BY <3>1, <2>4, Zenon
  <2>6. q <= N
    <3>1. 2 * 2 ^ k <= 2 ^ B
      BY PowersRise
    <3> QED BY <3>1, <1>1, <2>3
  <2>7. a[d + 1] = written(a[d], N, q)
    BY <1>3, <2>5, Zenon DEF Halving
  <2>8. j \in 0..(N - 1) /\ j < q
    BY <2>3, <2>6
  <2>9. a[d + 1][j] = hashPair(a[d][2 * j], a[d][2 * j + 1])
    BY <2>7, <2>8 DEF written
  <2> QED BY <2>2, <2>9, Zenon
<1>8. Tree(T, B)
  BY <1>7 DEF Tree
<1> QED BY <1>5, <1>6, <1>8 DEF T

(***************************************************************************)
(* Trees with the same root are the same as far down as both go.           *)
(***************************************************************************)
LEMMA PairsAreFree ==
  ASSUME NEW a, NEW b, NEW c, NEW d, hashPair(a, b) = hashPair(c, d)
  PROVE  a = c /\ b = d
BY DEF hashPair

LEMMA ParentOf ==
  ASSUME NEW k \in Nat, NEW j \in 0..(2 ^ (k + 1) - 1)
  PROVE  /\ j \div 2 \in 0..(2 ^ k - 1)
         /\ j = 2 * (j \div 2) \/ j = 2 * (j \div 2) + 1
<1>1. PICK p \in Nat : p = 2 ^ k /\ 2 ^ (k + 1) = 2 * p
  BY TwoPower
<1>2. j \in Nat /\ j < 2 * p
  BY <1>1
<1>3. j \div 2 \in 0..(p - 1) /\ (j = 2 * (j \div 2) \/ j = 2 * (j \div 2) + 1)
  BY <1>2
<1> QED BY <1>1, <1>3, Zenon

LEMMA TreesAgree ==
  ASSUME NEW T, NEW B \in Nat, NEW U, NEW C \in Nat, Tree(T, B), Tree(U, C), T[0][0] = U[0][0]
  PROVE  \A k \in Nat : k <= B /\ k <= C => \A j \in 0..(2 ^ k - 1) : T[k][j] = U[k][j]
<1> DEFINE Same(k) == k <= B /\ k <= C => \A j \in 0..(2 ^ k - 1) : T[k][j] = U[k][j]
           S == {k \in Nat : Same(k)}
<1>1. 0 \in S
  <2>1. 2 ^ 0 = 1
    OBVIOUS
  <2>2. \A j \in 0..(2 ^ 0 - 1) : j = 0
    BY <2>1
  <2> QED BY <2>2
<1>2. ASSUME NEW k \in Nat, k \in S PROVE k + 1 \in S
  <2> SUFFICES ASSUME k + 1 <= B, k + 1 <= C, NEW j \in 0..(2 ^ (k + 1) - 1)
               PROVE  T[k + 1][j] = U[k + 1][j]
    OBVIOUS
  <2>1. k \in 0..(B - 1) /\ k \in 0..(C - 1) /\ k <= B /\ k <= C
    OBVIOUS
  <2>2. PICK h \in 0..(2 ^ k - 1) : j = 2 * h \/ j = 2 * h + 1
    BY ParentOf
  <2>3. T[k][h] = U[k][h]
    BY <1>2, <2>1
  <2>4. /\ T[k][h] = hashPair(T[k + 1][2 * h], T[k + 1][2 * h + 1])
        /\ U[k][h] = hashPair(U[k + 1][2 * h], U[k + 1][2 * h + 1])
    BY <2>1, Zenon DEF Tree
  <2>5. T[k + 1][2 * h] = U[k + 1][2 * h] /\ T[k + 1][2 * h + 1] = U[k + 1][2 * h + 1]
    <3>1. hashPair(T[k + 1][2 * h], T[k + 1][2 * h + 1])
            = hashPair(U[k + 1][2 * h], U[k + 1][2 * h + 1])
      BY <2>3, <2>4, Zenon
    <3> QED BY <3>1, PairsAreFree
  <2> QED BY <2>2, <2>5, Zenon
<1> HIDE DEF S
<1>3. \A k \in Nat : k \in S
  BY <1>1, <1>2, Induction
<1> QED BY <1>3 DEF S
-----------------------------------------------------------------------------
(***************************************************************************)
(* Where a climb of K steps from leaf i is when it is k steps from its     *)
(* end, the root.                                                          *)
(***************************************************************************)
place(i, K, k) == i \div 2 ^ (K - k)

LEMMA DivBelow ==
  ASSUME NEW a \in Nat, NEW b \in Nat, NEW m \in Nat \ {0}, a < b * m
  PROVE  a \div m < b
<1> DEFINE q == a \div m
<1>1. q \in Nat /\ q * m <= a
  BY DivDef
<1> HIDE DEF q
<1>2. SUFFICES ASSUME b <= q PROVE FALSE
  BY <1>1 DEF q
<1>3. b * m <= q * m
  BY <1>1, <1>2, MulMono
<1>4. b * m \in Nat /\ q * m \in Nat
  BY <1>1
<1> QED BY <1>1, <1>3, <1>4

LEMMA DivTwice ==
  ASSUME NEW a \in Nat, NEW m \in Nat \ {0}
  PROVE  a \div (2 * m) = (a \div m) \div 2
<1> DEFINE q == a \div m
           r == q \div 2
           s == a \div (2 * m)
<1>1. q \in Nat /\ q * m <= a /\ a < q * m + m
  BY DivDef
<1>2. 2 * m \in Nat \ {0}
  OBVIOUS
<1>3. s \in Nat /\ s * (2 * m) <= a /\ a < s * (2 * m) + 2 * m
  BY <1>2, DivDef
<1> HIDE DEF q, s
<1>4. r \in Nat /\ 2 * r <= q /\ q < 2 * r + 2
  BY <1>1
<1> HIDE DEF r
<1>5. r * (2 * m) <= a /\ a < r * (2 * m) + 2 * m
  <2>1. (2 * r) * m <= q * m
    BY <1>1, <1>4, MulMono
  <2>2. (q + 1) * m <= (2 * r + 2) * m
    BY <1>1, <1>4, MulMono
  <2>3. (2 * r) * m = r * (2 * m) /\ (q + 1) * m = q * m + m
          /\ (2 * r + 2) * m = r * (2 * m) + 2 * m
    BY <1>1, <1>4
  <2>4. r * (2 * m) \in Nat /\ q * m \in Nat
    BY <1>1, <1>4
  <2> QED BY <1>1, <2>1, <2>2, <2>3, <2>4
<1>6. PICK w \in Nat \ {0} : w = 2 * m
  BY <1>2
<1>7. r = s
  <2>1. r * w <= a /\ a < r * w + w /\ s * w <= a /\ a < s * w + w
    BY <1>3, <1>5, <1>6
  <2>2. r * w \in Nat /\ s * w \in Nat
    BY <1>3, <1>4
  <2>3. ~(r < s)
    <3> SUFFICES ASSUME r + 1 <= s PROVE FALSE
      BY <1>3, <1>4
    <3>1. (r + 1) * w <= s * w
      BY <1>3, <1>4, MulMono
    <3>2. (r + 1) * w = r * w + w
      BY <1>4
    <3> QED BY <2>1, <2>2, <3>1, <3>2
  <2>4. ~(s < r)
    <3> SUFFICES ASSUME s + 1 <= r PROVE FALSE
      BY <1>3, <1>4
    <3>1. (s + 1) * w <= r * w
      BY <1>3, <1>4, MulMono
    <3>2. (s + 1) * w = s * w + w
      BY <1>3
    <3> QED BY <2>1, <2>2, <3>1, <3>2
  <2> QED BY <1>3, <1>4, <2>3, <2>4
<1> QED BY <1>7 DEF q, r, s

LEMMA Places ==
  ASSUME NEW K \in Nat, NEW i \in 0..(2 ^ K - 1)
  PROVE  /\ place(i, K, 0) = 0
         /\ place(i, K, K) = i
         /\ \A k \in 0..K : place(i, K, k) \in 0..(2 ^ k - 1)
         /\ \A k \in 0..(K - 1) : place(i, K, k) = place(i, K, k + 1) \div 2
<1>1. i \in Nat /\ 2 ^ K \in Nat \ {0} /\ i < 2 ^ K
  BY PowersPositive
<1>2. ASSUME NEW k \in 0..K PROVE place(i, K, k) \in 0..(2 ^ k - 1)
  <2>1. PICK d \in Nat : d = K - k /\ k + d = K /\ k \in Nat
    <3>1. K - k \in Nat /\ k + (K - k) = K /\ k \in Nat
      OBVIOUS
    <3> QED BY <3>1
  <2>2. PICK p \in Nat \ {0}, q \in Nat \ {0} : p = 2 ^ k /\ q = 2 ^ d
    BY <2>1, PowersPositive
  <2>3. 2 ^ K = p * q
    BY <2>1, <2>2, PowersMultiply, Zenon
  <2>4. i < p * q
    BY <1>1, <2>3
  <2>5. i \div q \in Nat /\ i \div q < p
    BY <1>1, <2>4, DivBelow, DivDef
  <2>6. i \div q \in 0..(p - 1)
    BY <2>5
  <2> QED BY <2>1, <2>2, <2>6, Zenon DEF place
<1>3. place(i, K, 0) = 0
  <2>1. 0 \in 0..K /\ 2 ^ 0 - 1 = 0
    OBVIOUS
  <2>2. place(i, K, 0) \in 0..0
    BY <1>2, <2>1, Zenon
  <2> QED BY <2>2
<1>4. place(i, K, K) = i
  <2>1. K - K = 0 /\ 2 ^ 0 = 1 /\ i \div 1 = i
    BY <1>1
  <2> QED BY <2>1, Zenon DEF place
<1>5. ASSUME NEW k \in 0..(K - 1) PROVE place(i, K, k) = place(i, K, k + 1) \div 2
  <2>1. PICK d \in Nat : d = K - (k + 1) /\ d + 1 = K - k
    <3>1. K - (k + 1) \in Nat /\ K - (k + 1) + 1 = K - k
      OBVIOUS
    <3> QED BY <3>1
  <2>2. PICK q \in Nat \ {0} : q = 2 ^ d /\ 2 ^ (d + 1) = 2 * q
    BY PowersPositive, TwoPower
  <2>3. i \div (2 * q) = (i \div q) \div 2
    BY <1>1, DivTwice
  <2> QED BY <2>1, <2>2, <2>3, Zenon DEF place
<1> QED BY <1>2, <1>3, <1>4, <1>5

(***************************************************************************)
(* The climb of calculateRootWithProof(), k steps from its end.            *)
(***************************************************************************)
isClimb(c, K, dataHash, i, proofs) ==
  /\ c[K] = dataHash
  /\ \A k \in 0..(K - 1) :
       c[k] = IF place(i, K, k + 1) % 2 = 0 THEN hashPair(c[k + 1], proofs[K - k])
                                            ELSE hashPair(proofs[K - k], c[k + 1])

LEMMA ClimbDef ==
  ASSUME NEW dataHash, NEW i, NEW Sibling, NEW proofs \in Seq(Sibling)
  PROVE  \E c : /\ isClimb(c, Len(proofs), dataHash, i, proofs)
                /\ c[0] = calculateRootWithProof(dataHash, i, proofs)
<1> DEFINE K == Len(proofs)
           D == 0..K
           climb[d \in 0..Len(proofs)] ==
             IF d = 0
             THEN dataHash
             ELSE IF (i \div 2 ^ (d - 1)) % 2 = 0
                  THEN hashPair(climb[d - 1], proofs[d])
                  ELSE hashPair(proofs[d], climb[d - 1])
           up(h, d) == IF (i \div 2 ^ (d - 1)) % 2 = 0 THEN hashPair(h, proofs[d])
                                                        ELSE hashPair(proofs[d], h)
<1>1. PICK H : {dataHash} \cup Sibling \subseteq H /\ Closed(H)
  BY HashesExist
<1> DEFINE m == [d \in D |-> d]
           next == [d \in D |-> IF d = 0 THEN 0 ELSE d - 1]
           out == [d \in D |-> dataHash]
           step == [d \in D |-> [h \in H |-> IF d = 0 THEN h ELSE up(h, d)]]
<1>2. K \in Nat /\ \A d \in D : d # 0 => proofs[d] \in H
  BY <1>1
<1>3. \A d \in D, h \in H : d # 0 => up(h, d) \in H
  <2> HIDE DEF D
  <2> QED BY <1>1, <1>2 DEF Closed
<1>4. /\ m \in [D -> Nat] /\ next \in [D -> D] /\ out \in [D -> H]
      /\ step \in [D -> [H -> H]]
  <2>1. m \in [D -> Nat] /\ next \in [D -> D]
    BY <1>2
  <2> HIDE DEF D, up
  <2> QED BY <1>1, <1>3, <2>1
<1>5. Decreases(D, m, next)
  BY <1>2 DEF Decreases
<1>6. PICK f \in [D -> H] : Recursive(f, D, m, next, out, step)
  <2> HIDE DEF D, m, next, out, step
  <2> QED BY <1>4, <1>5, Recursion, Zenon
<1>7. \A d \in D : f[d] = IF d = 0 THEN dataHash ELSE up(f[d - 1], d)
  <2> SUFFICES ASSUME NEW d \in D PROVE f[d] = IF d = 0 THEN dataHash ELSE up(f[d - 1], d)
    OBVIOUS
  <2>1. f[d] = IF m[d] = 0 THEN out[d] ELSE step[d][f[next[d]]]
    BY <1>6, Zenon DEF Recursive
  <2>2. m[d] = d /\ out[d] = dataHash /\ (d # 0 => next[d] = d - 1 /\ d - 1 \in D)
    BY <1>2
  <2>3. \A h \in H : d # 0 => step[d][h] = up(h, d)
    <3> HIDE DEF up, D
    <3> QED OBVIOUS
  <2>4. d # 0 => f[d - 1] \in H
    <3> HIDE DEF D
    <3> QED BY <2>2, <1>6
  <2> HIDE DEF m, next, out, step, up, D
  <2> QED BY <2>1, <2>2, <2>3, <2>4
<1>8. f = [d \in 0..Len(proofs) |-> IF d = 0 THEN dataHash ELSE up(f[d - 1], d)]
  <2>1. f = [d \in D |-> f[d]]
    BY <1>6
  <2> HIDE DEF up
  <2> QED BY <1>7, <2>1, Zenon
<1>9. climb = [d \in 0..Len(proofs) |-> IF d = 0 THEN dataHash ELSE up(climb[d - 1], d)]
  BY <1>8, Zenon
<1> HIDE DEF climb
<1> DEFINE c == [k \in D |-> climb[K - k]]
<1>10. \A k \in D : c[k] = climb[K - k]
  OBVIOUS
<1>11. c[K] = dataHash
  <2>1. K \in D /\ K - K = 0 /\ 0 \in D
    BY <1>2
  <2> QED BY <2>1, <1>9, <1>10
<1>12. c[0] = calculateRootWithProof(dataHash, i, proofs)
  <2>1. 0 \in D /\ K - 0 = K
    BY <1>2
  <2>2. calculateRootWithProof(dataHash, i, proofs) = climb[Len(proofs)]
    BY Zenon DEF calculateRootWithProof, climb
  <2> QED BY <2>1, <2>2, <1>10, Zenon
<1>13. ASSUME NEW k \in 0..(K - 1)
       PROVE  c[k] = IF place(i, K, k + 1) % 2 = 0 THEN hashPair(c[k + 1], proofs[K - k])
                                                   ELSE hashPair(proofs[K - k], c[k + 1])
  <2>1. PICK d \in D : /\ d = K - k /\ d # 0 /\ d - 1 = K - (k + 1)
                       /\ k \in D /\ k + 1 \in D
    <3>1. K - k \in D /\ K - k # 0 /\ K - k - 1 = K - (k + 1) /\ k \in D /\ k + 1 \in D
      BY <1>2
    <3> QED BY <3>1
  <2>2. c[k] = climb[d] /\ c[k + 1] = climb[d - 1]
    BY <2>1, <1>10
  <2>3. climb[d] = up(climb[d - 1], d)
    <3> HIDE DEF up
    <3> QED BY <2>1, <1>9
  <2>4. 2 ^ (d - 1) = 2 ^ (K - (k + 1))
    BY <2>1, Zenon
  <2> HIDE DEF c
  <2> QED BY <2>1, <2>2, <2>3, <2>4, Zenon DEF place
<1> HIDE DEF c
<1> QED BY <1>11, <1>12, <1>13, Zenon DEF isClimb

follows(c, T, bits, K, i) ==
  \A k \in Nat : k <= bits /\ k <= K => c[k] = T[k][place(i, K, k)]

(***************************************************************************)
(* A climb that ends at the root of a tree was at nodes of the tree all    *)
(* the way; and one from a leaf, past the siblings there, ends at the      *)
(* root.                                                                   *)
(***************************************************************************)
LEMMA ClimbDescends ==
  ASSUME NEW c, NEW K \in Nat, NEW dataHash, NEW i \in 0..(2 ^ K - 1), NEW proofs,
         NEW T, NEW B \in Nat,
         isClimb(c, K, dataHash, i, proofs), Tree(T, B), c[0] = T[0][0]
  PROVE  follows(c, T, B, K, i)
<1> DEFINE S == {k \in Nat : k <= B /\ k <= K => c[k] = T[k][place(i, K, k)]}
<1>1. 0 \in S
  BY Places
<1>2. ASSUME NEW k \in Nat, k \in S PROVE k + 1 \in S
  <2> SUFFICES ASSUME k + 1 <= B, k + 1 <= K
               PROVE  c[k + 1] = T[k + 1][place(i, K, k + 1)]
    OBVIOUS
  <2> DEFINE p == place(i, K, k + 1)
  <2>1. k \in 0..(B - 1) /\ k \in 0..(K - 1) /\ k <= B /\ k <= K
          /\ k \in 0..K /\ k + 1 \in 0..K
    OBVIOUS
  <2>2. place(i, K, k) \in 0..(2 ^ k - 1) /\ place(i, K, k) = p \div 2
    BY <2>1, Places
  <2>3. p \in Nat
    <3>1. p \in 0..(2 ^ (k + 1) - 1)
      BY <2>1, Places
    <3> QED BY <3>1
  <2>4. c[k] = T[k][p \div 2]
    BY <1>2, <2>1, <2>2
  <2>5. T[k][p \div 2] = hashPair(T[k + 1][2 * (p \div 2)], T[k + 1][2 * (p \div 2) + 1])
    BY <2>1, <2>2, Zenon DEF Tree
  <2>6. c[k] = IF p % 2 = 0 THEN hashPair(c[k + 1], proofs[K - k])
                            ELSE hashPair(proofs[K - k], c[k + 1])
    BY <2>1, Zenon DEF isClimb
  <2> HIDE DEF p
  <2>7. CASE p % 2 = 0
    <3>1. 2 * (p \div 2) = p
      BY <2>3, <2>7
    <3>2. hashPair(c[k + 1], proofs[K - k]) = hashPair(T[k + 1][p], T[k + 1][2 * (p \div 2) + 1])
      BY <2>4, <2>5, <2>6, <2>7, <3>1, Zenon
    <3> QED BY <3>2, PairsAreFree DEF p
  <2>8. CASE p % 2 # 0
    <3>1. 2 * (p \div 2) + 1 = p
      BY <2>3, <2>8
    <3>2. hashPair(proofs[K - k], c[k + 1]) = hashPair(T[k + 1][2 * (p \div 2)], T[k + 1][p])
      BY <2>4, <2>5, <2>6, <2>8, <3>1, Zenon
    <3> QED BY <3>2, PairsAreFree DEF p
  <2> QED BY <2>7, <2>8
<1> HIDE DEF S
<1>3. \A k \in Nat : k \in S
  BY <1>1, <1>2, Induction
<1>4. \A k \in Nat : k <= B /\ k <= K => c[k] = T[k][place(i, K, k)]
  BY <1>3 DEF S
<1> QED BY <1>4, Zenon DEF follows

sibling(p) == ((p \div 2) * 2 + 1) - (p % 2)

LEMMA ClimbAscends ==
  ASSUME NEW c, NEW K \in Nat, NEW i \in 0..(2 ^ K - 1), NEW proofs, NEW T,
         isClimb(c, K, T[K][i], i, proofs), Tree(T, K),
         \A k \in 0..(K - 1) : proofs[K - k] = T[k + 1][sibling(place(i, K, k + 1))]
  PROVE  c[0] = T[0][0]
<1> DEFINE S == {n \in Nat : n <= K => c[K - n] = T[K - n][place(i, K, K - n)]}
<1>1. 0 \in S
  <2>1. K - 0 = K /\ c[K] = T[K][i] /\ place(i, K, K) = i
    BY Places DEF isClimb
  <2> QED BY <2>1
<1>2. ASSUME NEW n \in Nat, n \in S PROVE n + 1 \in S
  <2> SUFFICES ASSUME n + 1 <= K
               PROVE  c[K - (n + 1)] = T[K - (n + 1)][place(i, K, K - (n + 1))]
    OBVIOUS
  <2>1. PICK k \in Nat : k = K - (n + 1) /\ k + 1 = K - n /\ k \in 0..(K - 1)
                         /\ k \in 0..K /\ k + 1 \in 0..K
    <3>1. K - (n + 1) \in Nat /\ K - (n + 1) + 1 = K - n /\ K - (n + 1) \in 0..(K - 1)
            /\ K - (n + 1) \in 0..K /\ K - (n + 1) + 1 \in 0..K
      OBVIOUS
    <3> QED BY <3>1
  <2> DEFINE p == place(i, K, k + 1)
  <2>2. place(i, K, k) \in 0..(2 ^ k - 1) /\ place(i, K, k) = p \div 2
    BY <2>1, Places
  <2>3. p \in Nat
    <3>1. p \in 0..(2 ^ (k + 1) - 1)
      BY <2>1, Places
    <3> QED BY <3>1
  <2>4. c[k + 1] = T[k + 1][p]
    <3>1. n <= K
      OBVIOUS
    <3> QED BY <1>2, <2>1, <3>1
  <2>5. T[k][p \div 2] = hashPair(T[k + 1][2 * (p \div 2)], T[k + 1][2 * (p \div 2) + 1])
    BY <2>1, <2>2, Zenon DEF Tree
  <2>6. c[k] = IF p % 2 = 0 THEN hashPair(c[k + 1], proofs[K - k])
                            ELSE hashPair(proofs[K - k], c[k + 1])
    BY <2>1, Zenon DEF isClimb
  <2>7. proofs[K - k] = T[k + 1][sibling(p)]
    BY <2>1
  <2> HIDE DEF p
  <2>8. c[k] = T[k][p \div 2]
    <3>1. CASE p % 2 = 0
      <4>1. 2 * (p \div 2) = p /\ sibling(p) = 2 * (p \div 2) + 1
        BY <2>3, <3>1 DEF sibling
      <4> QED BY <2>4, <2>5, <2>6, <2>7, <3>1, <4>1, Zenon
    <3>2. CASE p % 2 # 0
      <4>1. 2 * (p \div 2) + 1 = p /\ sibling(p) = 2 * (p \div 2)
        BY <2>3, <3>2 DEF sibling
      <4> QED BY <2>4, <2>5, <2>6, <2>7, <3>2, <4>1, Zenon
    <3> QED BY <3>1, <3>2
  <2> QED BY <2>1, <2>2, <2>8, Zenon
<1> HIDE DEF S
<1>3. K \in S
  BY <1>1, <1>2, Induction
<1>4. K <= K /\ K - K = 0
  OBVIOUS
<1>5. c[K - K] = T[K - K][place(i, K, K - K)]
  BY <1>3, <1>4 DEF S
<1>6. place(i, K, 0) = 0
  BY Places
<1> QED BY <1>4, <1>5, <1>6, Zenon
-----------------------------------------------------------------------------
(***************************************************************************)
(* The leaves of a value, and what they say of it.                         *)
(***************************************************************************)
chunkAt(data, chunkSize, i) ==
  SubSeq(data, i * chunkSize + 1,
         IF Len(data) - i * chunkSize >= chunkSize THEN i * chunkSize + chunkSize ELSE Len(data))

leafAt(data, chunkSize, i) ==
  IF i * chunkSize >= Len(data) THEN ZeroHash ELSE hashChunk(chunkAt(data, chunkSize, i))

Depth(data, chunkSize, b) ==
  /\ Len(data) <= 2 ^ b * chunkSize
  /\ \A a \in Nat : a < b => 2 ^ a * chunkSize < Len(data)

LEMMA LeavesDef ==
  ASSUME NEW data, NEW chunkSize, NEW N
  PROVE  /\ leaves(data, chunkSize, N) = [i \in 0..(N - 1) |-> leafAt(data, chunkSize, i)]
         /\ leaves(data, chunkSize, N)
              \in [0..(N - 1) -> {leafAt(data, chunkSize, i) : i \in 0..(N - 1)}]
<1>1. leaves(data, chunkSize, N) = [i \in 0..(N - 1) |-> leafAt(data, chunkSize, i)]
  BY Zenon DEF leaves, leafAt, chunkAt
<1> QED BY <1>1

LEMMA HashesDiffer ==
  ASSUME NEW l, NEW r, NEW chunk
  PROVE  /\ hashPair(l, r) # ZeroHash
         /\ hashPair(l, r) # hashChunk(chunk)
         /\ hashChunk(chunk) # ZeroHash
<1>1. Len(hashPair(l, r)) = 2 /\ Len(hashChunk(chunk)) = 1 /\ Len(ZeroHash) = 0
  BY DEF hashPair, hashChunk, ZeroHash
<1> QED BY <1>1

LEMMA ChunksAreFree ==
  ASSUME NEW x, NEW y, hashChunk(x) = hashChunk(y)
  PROVE  x = y
BY DEF hashChunk

LEMMA LeafIsNoPair ==
  ASSUME NEW data, NEW chunkSize, NEW i, NEW l, NEW r
  PROVE  leafAt(data, chunkSize, i) # hashPair(l, r)
BY HashesDiffer, Zenon DEF leafAt

(***************************************************************************)
(* The values and their trees.                                             *)
(***************************************************************************)
LEMMA RootOfValue ==
  ASSUME NEW data, NEW chunkSize, NEW bits \in Nat
  PROVE  \E T : /\ T = levels(leaves(data, chunkSize, 2 ^ bits), bits)
                /\ Tree(T, bits)
                /\ T[0][0] = merkleRoot(data, chunkSize, bits)
                /\ \A i \in 0..(2 ^ bits - 1) : T[bits][i] = leafAt(data, chunkSize, i)
<1> DEFINE N == 2 ^ bits
           L == leaves(data, chunkSize, N)
           T == levels(L, bits)
           Base == {leafAt(data, chunkSize, i) : i \in 0..(N - 1)}
<1>1. /\ L = [i \in 0..(N - 1) |-> leafAt(data, chunkSize, i)]
      /\ L \in [0..(N - 1) -> Base]
  BY LeavesDef
<1>2. Tree(T, bits) /\ T[bits] = L /\ T[0][0] = rootOf(L, N)
  <2> HIDE DEF L, Base
  <2> QED BY <1>1, LevelsAreTree
<1>3. rootOf(L, N) = merkleRoot(data, chunkSize, bits)
  BY Zenon DEF merkleRoot
<1>4. \A i \in 0..(N - 1) : T[bits][i] = leafAt(data, chunkSize, i)
  <2> HIDE DEF L, T, N
  <2> QED BY <1>1, <1>2
<1> QED BY <1>2, <1>3, <1>4, Zenon

(***************************************************************************)
(* The smallest tree is that of the least depth with room for the value.   *)
(***************************************************************************)
LEMMA MinTree ==
  ASSUME NEW S, NEW data \in Seq(S), NEW chunkSize \in Nat \ {0}, Len(data) # 0
  PROVE  \E b \in Nat : /\ minTreeSize(data, chunkSize) = 2 ^ b
                         /\ Depth(data, chunkSize, b)
                         /\ merkleRootWithMinTree(data, chunkSize) = merkleRoot(data, chunkSize, b)
<1>1. PICK len \in Nat \ {0} : len = Len(data)
  OBVIOUS
<1> DEFINE n == (len + chunkSize - 1) \div chunkSize
<1>2. n \in Nat /\ n * chunkSize <= len + chunkSize - 1 /\ len + chunkSize - 1 < n * chunkSize + chunkSize
  <2>1. len + chunkSize - 1 \in Nat
    OBVIOUS
  <2> QED BY <2>1, DivDef
<1>3. minTreeSize(data, chunkSize) = IF n <= 1 THEN 1 ELSE findNextPowerOf2(n)
  BY <1>1, Zenon DEF minTreeSize
<1> HIDE DEF n
<1>4. n # 0
  <2>1. n = 0 => n * chunkSize = 0
    OBVIOUS
  <2> QED BY <1>2, <2>1
<1>5. len <= n * chunkSize /\ (n - 1) * chunkSize < len /\ n - 1 \in Nat
  <2>1. (n - 1) * chunkSize = n * chunkSize - chunkSize /\ n * chunkSize \in Nat
    BY <1>2
  <2> QED BY <1>2, <1>4, <2>1
<1>6. \E b \in Nat : /\ minTreeSize(data, chunkSize) = 2 ^ b
                     /\ n <= 2 ^ b
                     /\ \A a \in Nat : a < b => 2 ^ a <= n - 1
  <2>1. CASE n <= 1
    <3>1. 2 ^ 0 = 1
      OBVIOUS
    <3>2. minTreeSize(data, chunkSize) = 2 ^ 0 /\ n <= 2 ^ 0
      BY <1>3, <2>1, <3>1
    <3>3. \A a \in Nat : ~(a < 0)
      OBVIOUS
    <3> QED BY <3>2, <3>3
  <2>2. CASE ~(n <= 1)
    <3>1. PICK e \in Nat : findNextPowerOf2(n) = 2 ^ (e + 1) /\ 2 ^ e < n /\ n <= 2 ^ (e + 1)
      BY <1>2, <2>2, NextPower
    <3>2. \A a \in Nat : a < e + 1 => 2 ^ a <= n - 1
      <4> SUFFICES ASSUME NEW a \in Nat, a < e + 1 PROVE 2 ^ a <= n - 1
        OBVIOUS
      <4>1. 2 ^ a \in Nat /\ 2 ^ e \in Nat
        BY PowersPositive
      <4>2. CASE a = e
        BY <4>1, <4>2, <3>1, <1>2
      <4>3. CASE a < e
        <5>1. 2 * 2 ^ a <= 2 ^ e
          BY <4>3, PowersRise
        <5> QED BY <4>1, <5>1, <3>1, <1>2
      <4> QED BY <4>2, <4>3
    <3>3. e + 1 \in Nat
      OBVIOUS
    <3>4. minTreeSize(data, chunkSize) = 2 ^ (e + 1)
      BY <1>3, <2>2, <3>1
    <3> QED BY <3>1, <3>2, <3>3, <3>4
  <2> QED BY <2>1, <2>2
<1>7. PICK b \in Nat : /\ minTreeSize(data, chunkSize) = 2 ^ b
                      /\ n <= 2 ^ b
                      /\ \A a \in Nat : a < b => 2 ^ a <= n - 1
  BY <1>6
<1>8. Len(data) <= 2 ^ b * chunkSize
  <2>1. PICK p \in Nat : p = 2 ^ b
    BY PowersPositive
  <2>2. n * chunkSize <= p * chunkSize
    BY <1>2, <1>7, <2>1, MulMono
  <2>3. n * chunkSize \in Nat /\ p * chunkSize \in Nat
    BY <1>2
  <2> QED BY <1>1, <1>5, <2>1, <2>2, <2>3
<1>9. ASSUME NEW a \in Nat, a < b PROVE 2 ^ a * chunkSize < Len(data)
  <2>1. PICK p \in Nat : p = 2 ^ a /\ p <= n - 1
    BY <1>7, <1>9, PowersPositive
  <2>2. p * chunkSize <= (n - 1) * chunkSize
    BY <1>5, <2>1, MulMono
  <2>3. (n - 1) * chunkSize \in Nat /\ p * chunkSize \in Nat
    BY <1>5
  <2> QED BY <1>1, <1>5, <2>1, <2>2, <2>3
<1>10. merkleRootWithMinTree(data, chunkSize) = merkleRoot(data, chunkSize, b)
  BY <1>7, Zenon DEF merkleRootWithMinTree, merkleRoot
<1> QED BY <1>7, <1>8, <1>9, <1>10 DEF Depth

LEMMA DepthIsUnique ==
  ASSUME NEW data, NEW chunkSize, NEW a \in Nat, NEW b \in Nat, Len(data) \in Nat,
         chunkSize \in Nat,
         Depth(data, chunkSize, a), Depth(data, chunkSize, b)
  PROVE  a = b
<1>1. \A x, y \in Nat : Depth(data, chunkSize, x) /\ Depth(data, chunkSize, y) => ~(x < y)
  <2> SUFFICES ASSUME NEW x \in Nat, NEW y \in Nat, x < y,
                      Len(data) <= 2 ^ x * chunkSize, 2 ^ x * chunkSize < Len(data)
               PROVE  FALSE
    BY DEF Depth
  <2>1. PICK p \in Nat : p = 2 ^ x * chunkSize
    BY PowersPositive
  <2> QED BY <2>1
<1> QED BY <1>1

(***************************************************************************)
(* The leaves of a value hold all of it: a byte that one value has, and    *)
(* another with the same leaves has, too.                                  *)
(***************************************************************************)
isChunkAt(chunk, data, chunkSize, off) ==
  /\ Len(chunk) = IF Len(data) - off >= chunkSize THEN chunkSize ELSE Len(data) - off
  /\ \A k \in 1..Len(chunk) : chunk[k] = data[off + k]

LEMMA ChunkBytes ==
  ASSUME NEW S, NEW data \in Seq(S), NEW chunkSize \in Nat \ {0}, NEW i \in Nat,
         NEW off \in Nat, off = i * chunkSize, off < Len(data)
  PROVE  isChunkAt(chunkAt(data, chunkSize, i), data, chunkSize, off)
<1> DEFINE last == IF Len(data) - off >= chunkSize THEN off + chunkSize ELSE Len(data)
<1>2. off < Len(data) /\ Len(data) \in Nat /\ last \in Nat /\ off + 1 <= last /\ last <= Len(data)
  OBVIOUS
<1>3. \A j \in (off + 1)..last : data[j] \in S
  BY <1>2
<1>4. chunkAt(data, chunkSize, i) = SubSeq(data, off + 1, last)
  BY Zenon DEF chunkAt
<1>5. last = IF Len(data) - off >= chunkSize THEN off + chunkSize ELSE Len(data)
  OBVIOUS
<1> HIDE DEF last
<1>6. /\ Len(SubSeq(data, off + 1, last)) = last - off
      /\ \A k \in 1..(last - off) : SubSeq(data, off + 1, last)[k] = data[off + k]
  BY <1>2
<1>7. last - off = IF Len(data) - off >= chunkSize THEN chunkSize ELSE Len(data) - off
  <2>1. CASE Len(data) - off >= chunkSize
    BY <1>2, <1>5, <2>1
  <2>2. CASE ~(Len(data) - off >= chunkSize)
    BY <1>2, <1>5, <2>2
  <2> QED BY <2>1, <2>2
<1> QED BY <1>4, <1>6, <1>7, Zenon DEF isChunkAt

LEMMA LeavesHoldBytes ==
  ASSUME NEW S, NEW data \in Seq(S), NEW other \in Seq(S), NEW chunkSize \in Nat \ {0},
         NEW N \in Nat, Len(data) <= N * chunkSize,
         \A i \in 0..(N - 1) : leafAt(data, chunkSize, i) = leafAt(other, chunkSize, i),
         NEW p \in 1..Len(data)
  PROVE  p <= Len(other) /\ data[p] = other[p]
<1> DEFINE i == (p - 1) \div chunkSize
<1>1. i \in Nat /\ i * chunkSize <= p - 1 /\ p - 1 < i * chunkSize + chunkSize
  BY DivDef
<1>2. i < N
  <2>1. PICK q \in Nat : q = N * chunkSize
    OBVIOUS
  <2>2. p - 1 \in Nat /\ p - 1 < N * chunkSize
    BY <2>1
  <2> QED BY <2>2, DivBelow, Zenon
<1> HIDE DEF i
<1>3. PICK off \in Nat : off = i * chunkSize
  BY <1>1
<1>4. off < Len(data) /\ off <= p - 1 /\ p - 1 < off + chunkSize /\ p \in Nat /\ Len(data) \in Nat
  BY <1>1, <1>3
<1>5. leafAt(data, chunkSize, i) = hashChunk(chunkAt(data, chunkSize, i))
  BY <1>3, <1>4 DEF leafAt
<1>6. leafAt(data, chunkSize, i) = leafAt(other, chunkSize, i)
  BY <1>1, <1>2
<1>7. off < Len(other)
  BY <1>3, <1>5, <1>6, HashesDiffer DEF leafAt
<1>8. chunkAt(data, chunkSize, i) = chunkAt(other, chunkSize, i)
  <2>1. leafAt(other, chunkSize, i) = hashChunk(chunkAt(other, chunkSize, i))
    BY <1>3, <1>7 DEF leafAt
  <2> QED BY <1>5, <1>6, <2>1, ChunksAreFree
<1>9. PICK chunk : chunk = chunkAt(data, chunkSize, i)
  OBVIOUS
<1>10. isChunkAt(chunk, data, chunkSize, off)
  BY <1>1, <1>3, <1>4, <1>9, ChunkBytes
<1>11. isChunkAt(chunk, other, chunkSize, off)
  BY <1>1, <1>3, <1>7, <1>8, <1>9, ChunkBytes
<1>12. p - off \in 1..Len(chunk) /\ off + (p - off) = p /\ p <= Len(other)
  <2>1. Len(other) \in Nat
    OBVIOUS
  <2> QED BY <1>4, <1>7, <1>10, <1>11, <2>1 DEF isChunkAt
<1> QED BY <1>10, <1>11, <1>12, Zenon DEF isChunkAt

(***************************************************************************)
(* Values with the same leaves are the same.                               *)
(***************************************************************************)
LEMMA LeavesBind ==
  ASSUME NEW S, NEW data \in Seq(S), NEW other \in Seq(S), NEW chunkSize \in Nat \ {0},
         NEW N \in Nat, Len(data) <= N * chunkSize, Len(other) <= N * chunkSize,
         \A i \in 0..(N - 1) : leafAt(data, chunkSize, i) = leafAt(other, chunkSize, i)
  PROVE  data = other
<1>1. \A p \in 1..Len(data) : p <= Len(other) /\ data[p] = other[p]
  BY LeavesHoldBytes
<1>2. \A p \in 1..Len(other) : p <= Len(data)
  BY LeavesHoldBytes
<1>3. Len(data) \in Nat /\ Len(other) \in Nat
  OBVIOUS
<1>4. Len(data) = Len(other)
  <2>1. Len(data) # 0 => Len(data) <= Len(other)
    BY <1>1, <1>3
  <2>2. Len(other) # 0 => Len(other) <= Len(data)
    BY <1>2, <1>3
  <2> QED BY <1>3, <2>1, <2>2
<1> QED BY <1>1, <1>4

(***************************************************************************)
(* The tree of a value: its root and its leaves.                           *)
(***************************************************************************)
TreeOf(T, data, chunkSize, bits) ==
  /\ Tree(T, bits)
  /\ T[0][0] = merkleRoot(data, chunkSize, bits)
  /\ \A i \in 0..(2 ^ bits - 1) : T[bits][i] = leafAt(data, chunkSize, i)

LEMMA TreeExists ==
  ASSUME NEW data, NEW chunkSize, NEW bits \in Nat
  PROVE  \E T : TreeOf(T, data, chunkSize, bits)
<1> SUFFICES ASSUME \A T : ~TreeOf(T, data, chunkSize, bits)
             PROVE  FALSE
  OBVIOUS
<1> DEFINE T == levels(leaves(data, chunkSize, 2 ^ bits), bits)
<1>1. TreeOf(T, data, chunkSize, bits)
  BY RootOfValue DEF TreeOf
<1> QED BY <1>1

(***************************************************************************)
(* Equal roots come from trees of the same depth, with the same leaves: a  *)
(* leaf, which hashes a chunk, is not the hash of a pair.                  *)
(***************************************************************************)
LEMMA NotDeeper ==
  ASSUME NEW data, NEW other, NEW chunkSize, NEW b \in Nat, NEW c \in Nat,
         merkleRoot(data, chunkSize, b) = merkleRoot(other, chunkSize, c)
  PROVE  ~(b < c)
<1> SUFFICES ASSUME b < c PROVE FALSE
  OBVIOUS
<1>1. PICK T : TreeOf(T, data, chunkSize, b)
  BY TreeExists
<1>2. PICK U : TreeOf(U, other, chunkSize, c)
  BY TreeExists
<1>3. PICK p \in Nat \ {0} : p = 2 ^ b
  BY PowersPositive
<1>4. 0 \in 0..(2 ^ b - 1) /\ b \in 0..(c - 1) /\ b <= b /\ b <= c
  BY <1>3
<1>5. T[b][0] = U[b][0]
  <2>1. \A k \in Nat : k <= b /\ k <= c => \A j \in 0..(2 ^ k - 1) : T[k][j] = U[k][j]
    BY <1>1, <1>2, TreesAgree DEF TreeOf
  <2> QED BY <2>1, <1>4, Zenon
<1>6. U[b][0] = hashPair(U[b + 1][2 * 0], U[b + 1][2 * 0 + 1])
  BY <1>2, <1>4, Zenon DEF Tree, TreeOf
<1>7. T[b][0] = leafAt(data, chunkSize, 0)
  BY <1>1, <1>4, Zenon DEF TreeOf
<1> QED BY <1>5, <1>6, <1>7, LeafIsNoPair, Zenon

LEMMA RootsAgree ==
  ASSUME NEW data, NEW other, NEW chunkSize, NEW b \in Nat, NEW c \in Nat,
         merkleRoot(data, chunkSize, b) = merkleRoot(other, chunkSize, c)
  PROVE  /\ b = c
         /\ \A i \in 0..(2 ^ b - 1) : leafAt(data, chunkSize, i) = leafAt(other, chunkSize, i)
<1>1. b = c
  <2>1. ~(b < c) /\ ~(c < b)
    BY NotDeeper, Zenon
  <2> QED BY <2>1
<1>2. PICK T : TreeOf(T, data, chunkSize, b)
  BY TreeExists
<1>3. PICK U : TreeOf(U, other, chunkSize, b)
  BY TreeExists
<1>4. T[0][0] = U[0][0]
  BY <1>1, <1>2, <1>3 DEF TreeOf
<1>5. \A j \in 0..(2 ^ b - 1) : T[b][j] = U[b][j]
  <2>1. \A k \in Nat : k <= b /\ k <= b => \A j \in 0..(2 ^ k - 1) : T[k][j] = U[k][j]
    BY <1>2, <1>3, <1>4, TreesAgree DEF TreeOf
  <2>2. b <= b
    OBVIOUS
  <2> QED BY <2>1, <2>2, Zenon
<1> QED BY <1>1, <1>2, <1>3, <1>5, Zenon DEF TreeOf

(***************************************************************************)
(* A value that has bytes has a commitment, which is not the zero word.    *)
(***************************************************************************)
LEMMA CommitmentNotZero ==
  ASSUME NEW S, NEW data \in Seq(S), NEW chunkSize \in Nat \ {0}, Len(data) # 0
  PROVE  merkleRootWithMinTree(data, chunkSize) # ZeroHash
<1>1. PICK b \in Nat : merkleRootWithMinTree(data, chunkSize) = merkleRoot(data, chunkSize, b)
  BY MinTree
<1>2. PICK T : TreeOf(T, data, chunkSize, b)
  BY TreeExists
<1>3. CASE b = 0
  <2>1. 2 ^ 0 = 1
    OBVIOUS
  <2>2. T[0][0] = leafAt(data, chunkSize, 0)
    BY <1>2, <1>3, <2>1 DEF TreeOf
  <2>3. ~(0 * chunkSize >= Len(data))
    OBVIOUS
  <2>4. leafAt(data, chunkSize, 0) = hashChunk(chunkAt(data, chunkSize, 0))
    BY <2>3, Zenon DEF leafAt
  <2> QED BY <1>1, <1>2, <2>2, <2>4, HashesDiffer, Zenon DEF TreeOf
<1>4. CASE b # 0
  <2>1. 0 \in 0..(b - 1) /\ 0 \in 0..(2 ^ 0 - 1)
    <3>1. 2 ^ 0 = 1
      OBVIOUS
    <3> QED BY <1>4, <3>1
  <2>2. T[0][0] = hashPair(T[0 + 1][2 * 0], T[0 + 1][2 * 0 + 1])
    BY <1>2, <2>1, Zenon DEF Tree, TreeOf
  <2> QED BY <1>1, <1>2, <2>2, HashesDiffer, Zenon DEF TreeOf
<1> QED BY <1>3, <1>4

(***************************************************************************)
(* Values with the same commitment are the same.                           *)
(***************************************************************************)
THEOREM CommitmentsBind ==
  ASSUME NEW S, NEW data \in Seq(S), NEW other \in Seq(S), NEW chunkSize \in Nat \ {0},
         merkleRootWithMinTree(data, chunkSize) = merkleRootWithMinTree(other, chunkSize)
  PROVE  data = other
<1>1. Len(data) = 0 <=> Len(other) = 0
  <2>1. Len(data) = 0 => merkleRootWithMinTree(data, chunkSize) = ZeroHash
    BY Zenon DEF merkleRootWithMinTree
  <2>2. Len(other) = 0 => merkleRootWithMinTree(other, chunkSize) = ZeroHash
    BY Zenon DEF merkleRootWithMinTree
  <2> QED BY <2>1, <2>2, CommitmentNotZero
<1>2. CASE Len(data) = 0
  BY <1>1, <1>2
<1>3. CASE Len(data) # 0
  <2>1. PICK b \in Nat : /\ Depth(data, chunkSize, b)
                         /\ merkleRootWithMinTree(data, chunkSize) = merkleRoot(data, chunkSize, b)
    BY <1>3, MinTree
  <2>2. PICK c \in Nat : /\ Depth(other, chunkSize, c)
                         /\ merkleRootWithMinTree(other, chunkSize) = merkleRoot(other, chunkSize, c)
    BY <1>1, <1>3, MinTree
  <2>3. merkleRoot(data, chunkSize, b) = merkleRoot(other, chunkSize, c)
    BY <2>1, <2>2
  <2>4. /\ b = c
        /\ \A i \in 0..(2 ^ b - 1) : leafAt(data, chunkSize, i) = leafAt(other, chunkSize, i)
    BY <2>3, RootsAgree
  <2>5. PICK N \in Nat : N = 2 ^ b
    BY PowersPositive
  <2>6. Len(data) <= N * chunkSize /\ Len(other) <= N * chunkSize
    BY <2>1, <2>2, <2>4, <2>5, Zenon DEF Depth
  <2>7. \A i \in 0..(N - 1) : leafAt(data, chunkSize, i) = leafAt(other, chunkSize, i)
    BY <2>4, <2>5, Zenon
  <2> QED BY <2>6, <2>7, LeavesBind
<1> QED BY <1>2, <1>3

(***************************************************************************)
(* getProof() gives the siblings on the way up from leaf i.                *)
(***************************************************************************)
isPath(proofs, T, bits, i) ==
  \A k \in 0..(bits - 1) : proofs[bits - k] = T[k + 1][sibling(place(i, bits, k + 1))]

LEMMA ProofIsPath ==
  ASSUME NEW data, NEW chunkSize, NEW bits \in Nat, NEW i \in 0..(2 ^ bits - 1)
  PROVE  \E T : /\ TreeOf(T, data, chunkSize, bits)
                /\ isPath(getProof(data, chunkSize, bits, i), T, bits, i)
<1> DEFINE L == leaves(data, chunkSize, 2 ^ bits)
           T == levels(L, bits)
           proofs == getProof(data, chunkSize, bits, i)
           level == passes(L, 2 ^ bits)
<1>1. TreeOf(T, data, chunkSize, bits)
  BY RootOfValue DEF TreeOf
<1>2. ASSUME NEW k \in 0..(bits - 1)
      PROVE  proofs[bits - k] = T[k + 1][sibling(place(i, bits, k + 1))]
  <2>1. /\ bits - k \in 1..bits /\ k + 1 \in 0..bits /\ bits - k - 1 = bits - (k + 1)
    OBVIOUS
  <2>2. proofs = [d \in 1..bits |-> level[d - 1][sibling(i \div 2 ^ (d - 1))]]
    BY Zenon DEF getProof, sibling
  <2>3. T = [j \in 0..bits |-> level[bits - j]]
    BY Zenon DEF levels
  <2> HIDE DEF proofs, T, level
  <2>4. proofs[bits - k] = level[bits - k - 1][sibling(i \div 2 ^ (bits - k - 1))]
    BY <2>1, <2>2, Zenon
  <2>5. T[k + 1] = level[bits - (k + 1)]
    BY <2>1, <2>3, Zenon
  <2>6. place(i, bits, k + 1) = i \div 2 ^ (bits - k - 1)
    BY <2>1, Zenon DEF place
  <2> QED BY <2>1, <2>4, <2>5, <2>6, Zenon
<1>3. isPath(proofs, T, bits, i)
  BY <1>2, Zenon DEF isPath
<1> QED BY <1>1, <1>3, Zenon

LEMMA ProofIsSequence ==
  ASSUME NEW data, NEW chunkSize, NEW bits \in Nat, NEW i
  PROVE  /\ Len(getProof(data, chunkSize, bits, i)) = bits
         /\ \E Sibling : getProof(data, chunkSize, bits, i) \in Seq(Sibling)
<1> DEFINE level == passes(leaves(data, chunkSize, 2 ^ bits), 2 ^ bits)
           proofs == getProof(data, chunkSize, bits, i)
           Sibling == {level[d - 1][sibling(i \div 2 ^ (d - 1))] : d \in 1..bits}
<1>1. proofs = [d \in 1..bits |-> level[d - 1][sibling(i \div 2 ^ (d - 1))]]
  BY Zenon DEF getProof, sibling
<1>2. proofs \in [1..bits -> Sibling]
  BY <1>1, Zenon
<1> HIDE DEF proofs, Sibling
<1>3. proofs \in Seq(Sibling) /\ Len(proofs) = bits
  BY <1>2
<1> QED BY <1>3 DEF proofs

(***************************************************************************)
(* The proof of every chunk is accepted.                                   *)
(***************************************************************************)
THEOREM ProofsAccept ==
  ASSUME NEW data, NEW chunkSize, NEW bits \in Nat, NEW i \in 0..(2 ^ bits - 1)
  PROVE  verify(leafAt(data, chunkSize, i), i, merkleRoot(data, chunkSize, bits),
                getProof(data, chunkSize, bits, i))
<1>1. PICK proofs : proofs = getProof(data, chunkSize, bits, i)
  OBVIOUS
<1>2. PICK Sibling : proofs \in Seq(Sibling)
  BY <1>1, ProofIsSequence
<1>3. Len(proofs) = bits
  BY <1>1, ProofIsSequence
<1>4. PICK T : TreeOf(T, data, chunkSize, bits) /\ isPath(proofs, T, bits, i)
  BY <1>1, ProofIsPath
<1>5. T[bits][i] = leafAt(data, chunkSize, i)
  BY <1>4, Zenon DEF TreeOf
<1>6. PICK c : /\ isClimb(c, Len(proofs), T[bits][i], i, proofs)
               /\ c[0] = calculateRootWithProof(T[bits][i], i, proofs)
  BY <1>2, ClimbDef
<1>7. c[0] = T[0][0]
  <2>1. isClimb(c, bits, T[bits][i], i, proofs)
    BY <1>3, <1>6, Zenon
  <2>2. Tree(T, bits)
    BY <1>4, Zenon DEF TreeOf
  <2>3. \A k \in 0..(bits - 1) : proofs[bits - k] = T[k + 1][sibling(place(i, bits, k + 1))]
    BY <1>4, Zenon DEF isPath
  <2> QED BY <2>1, <2>2, <2>3, ClimbAscends
<1> QED BY <1>1, <1>4, <1>5, <1>6, <1>7, Zenon DEF TreeOf, verify

(***************************************************************************)
(* And whatever climbs to the root of a value, from the hash of a chunk,   *)
(* has climbed from the leaf that it says, past as many siblings as the    *)
(* tree has levels.                                                        *)
(***************************************************************************)
LEMMA ClimbOf ==
  ASSUME NEW data, NEW chunkSize, NEW bits \in Nat, NEW Sibling, NEW proofs \in Seq(Sibling),
         NEW i \in 0..(2 ^ Len(proofs) - 1), NEW dataHash,
         verify(dataHash, i, merkleRoot(data, chunkSize, bits), proofs)
  PROVE  \E c, T : /\ TreeOf(T, data, chunkSize, bits)
                   /\ isClimb(c, Len(proofs), dataHash, i, proofs)
                   /\ follows(c, T, bits, Len(proofs), i)
<1>1. PICK K \in Nat : K = Len(proofs)
  OBVIOUS
<1>2. PICK T : TreeOf(T, data, chunkSize, bits)
  BY TreeExists
<1>3. PICK c : /\ isClimb(c, K, dataHash, i, proofs)
               /\ c[0] = calculateRootWithProof(dataHash, i, proofs)
  BY <1>1, ClimbDef
<1>4. c[0] = T[0][0] /\ Tree(T, bits)
  BY <1>2, <1>3, Zenon DEF TreeOf, verify
<1>5. i \in 0..(2 ^ K - 1)
  BY <1>1
<1>6. follows(c, T, bits, K, i)
  <2>1. isClimb(c, K, dataHash, i, proofs) /\ Tree(T, bits) /\ c[0] = T[0][0]
    BY <1>3, <1>4
  <2> QED BY <1>5, <2>1, ClimbDescends, Zenon
<1> QED BY <1>1, <1>2, <1>3, <1>6, Zenon

(***************************************************************************)
(* verify() binds a leaf to its place: with as many siblings as the tree   *)
(* has levels, the only hash that it accepts at place i is that of leaf i. *)
(***************************************************************************)
THEOREM ProofsBindLeaves ==
  ASSUME NEW data, NEW chunkSize, NEW bits \in Nat, NEW Sibling, NEW proofs \in Seq(Sibling),
         NEW i \in 0..(2 ^ Len(proofs) - 1), NEW dataHash,
         verify(dataHash, i, merkleRoot(data, chunkSize, bits), proofs),
         Len(proofs) = bits
  PROVE  dataHash = leafAt(data, chunkSize, i)
<1>1. PICK c, T : /\ TreeOf(T, data, chunkSize, bits)
                  /\ isClimb(c, bits, dataHash, i, proofs)
                  /\ follows(c, T, bits, bits, i)
  BY ClimbOf
<1>2. i \in 0..(2 ^ bits - 1)
  OBVIOUS
<1>3. c[bits] = T[bits][i]
  <2>1. place(i, bits, bits) = i /\ bits <= bits
    BY <1>2, Places
  <2> QED BY <1>1, <2>1, Zenon DEF follows
<1> QED BY <1>1, <1>2, <1>3, Zenon DEF TreeOf, isClimb

(***************************************************************************)
(* And a chunk's hash it accepts with no other number of siblings: the     *)
(* length of a proof, which verify() does not check, cannot be wrong.      *)
(***************************************************************************)
THEOREM ProofsBindChunks ==
  ASSUME NEW data, NEW chunkSize, NEW bits \in Nat, NEW Sibling, NEW proofs \in Seq(Sibling),
         NEW i \in 0..(2 ^ Len(proofs) - 1), NEW chunk,
         verify(hashChunk(chunk), i, merkleRoot(data, chunkSize, bits), proofs)
  PROVE  Len(proofs) = bits /\ hashChunk(chunk) = leafAt(data, chunkSize, i)
<1>1. PICK K \in Nat : K = Len(proofs)
  OBVIOUS
<1>2. PICK c, T : /\ TreeOf(T, data, chunkSize, bits)
                  /\ isClimb(c, K, hashChunk(chunk), i, proofs)
                  /\ follows(c, T, bits, K, i)
  BY <1>1, ClimbOf
<1>3. /\ place(i, K, K) = i
      /\ \A k \in 0..K : place(i, K, k) \in 0..(2 ^ k - 1)
  BY <1>1, Places
<1>4. ~(K < bits)
  <2> SUFFICES ASSUME K < bits PROVE FALSE
    OBVIOUS
  <2>1. K <= bits /\ K <= K /\ K \in 0..(bits - 1) /\ i \in 0..(2 ^ K - 1)
    BY <1>1
  <2>2. T[K][i] = hashPair(T[K + 1][2 * i], T[K + 1][2 * i + 1])
    BY <1>2, <2>1, Zenon DEF TreeOf, Tree
  <2>3. c[K] = T[K][i] /\ c[K] = hashChunk(chunk)
    BY <1>2, <1>3, <2>1, Zenon DEF isClimb, follows
  <2> QED BY <2>2, <2>3, HashesDiffer, Zenon
<1>5. ~(bits < K)
  <2> SUFFICES ASSUME bits < K PROVE FALSE
    OBVIOUS
  <2>1. bits <= bits /\ bits <= K /\ bits \in 0..(K - 1) /\ bits \in 0..K
    OBVIOUS
  <2>2. PICK p \in 0..(2 ^ bits - 1) : p = place(i, K, bits)
    BY <1>3, <2>1
  <2>3. c[bits] = leafAt(data, chunkSize, p)
    BY <1>2, <2>1, <2>2, Zenon DEF TreeOf, follows
  <2>4. \E l, r : c[bits] = hashPair(l, r)
    BY <1>2, <2>1, Zenon DEF isClimb
  <2> QED BY <2>3, <2>4, LeafIsNoPair, Zenon
<1>6. Len(proofs) = bits
  BY <1>1, <1>4, <1>5
<1> QED BY <1>6, ProofsBindLeaves

(***************************************************************************)
(* A climb from a chunk never ends at the zero word.                       *)
(***************************************************************************)
LEMMA ClimbNotZero ==
  ASSUME NEW i, NEW Sibling, NEW proofs \in Seq(Sibling), NEW chunk
  PROVE  calculateRootWithProof(hashChunk(chunk), i, proofs) # ZeroHash
<1>1. PICK K \in Nat : K = Len(proofs)
  OBVIOUS
<1>2. PICK c : /\ isClimb(c, K, hashChunk(chunk), i, proofs)
               /\ c[0] = calculateRootWithProof(hashChunk(chunk), i, proofs)
  BY <1>1, ClimbDef
<1>3. CASE K = 0
  BY <1>2, <1>3, HashesDiffer DEF isClimb
<1>4. CASE K # 0
  <2>1. 0 \in 0..(K - 1)
    BY <1>4
  <2>2. \E l, r : c[0] = hashPair(l, r)
    BY <1>2, <2>1, Zenon DEF isClimb
  <2> QED BY <1>2, <2>2, HashesDiffer, Zenon
<1> QED BY <1>3, <1>4
=============================================================================

-------------------------- MODULE Algorithms_proofs -------------------------
(***************************************************************************)
(* The algorithms around mining, for words of any width, hashes of any     *)
(* number of words, any hash function, caches and datasets of any size.    *)
(*                                                                         *)
(* First the xor of numbers and what the loops compute turn by turn.  Then *)
(* C against Go: parents mixed in place, hashes over a dataset in memory   *)
(* against hashes that look items up, registers against memory, and the    *)
(* cache, of which generateCache() has made as much after each step as the *)
(* loops of the program in C after as many turns.  At last the percentages *)
(* that the goroutine beside it reports.                                   *)
(***************************************************************************)
EXTENDS Algorithms, MerkleLib_proofs

(***************************************************************************)
(* The xor: from its last bit upwards, what it is, and that it keeps the   *)
(* width, commutes and associates.                                         *)
(***************************************************************************)
LEMMA XorDef ==
  ASSUME NEW a \in Nat, NEW b \in Nat
  PROVE  xor(a, b) = IF a + b = 0 THEN 0 ELSE ((a + b) % 2) + 2 * xor(a \div 2, b \div 2)
<1> DEFINE D    == Nat \X Nat
           m    == [d \in D |-> d[1] + d[2]]
           next == [d \in D |-> <<d[1] \div 2, d[2] \div 2>>]
           out  == [d \in D |-> 0]
           step == [d \in D |-> [r \in Nat |-> ((d[1] + d[2]) % 2) + 2 * r]]
<1>1. \A d \in D : d[1] \in Nat /\ d[2] \in Nat /\ d = <<d[1], d[2]>>
  OBVIOUS
<1>2. m \in [D -> Nat] /\ out \in [D -> Nat]
  BY <1>1
<1>3. next \in [D -> D]
  BY <1>1
<1>4. step \in [D -> [Nat -> Nat]]
  <2>1. \A d \in D, r \in Nat : ((d[1] + d[2]) % 2) + 2 * r \in Nat
    BY <1>1
  <2> QED BY <2>1
<1>5. Decreases(D, m, next)
  <2> SUFFICES ASSUME NEW d \in D, m[d] # 0 PROVE m[next[d]] < m[d]
    BY DEF Decreases
  <2>1. PICK x, y \in Nat : d = <<x, y>>
    BY <1>1
  <2>2. m[d] = x + y /\ next[d] = <<x \div 2, y \div 2>>
    BY <2>1
  <2>3. m[next[d]] = (x \div 2) + (y \div 2)
    BY <2>2
  <2> HIDE DEF m, next
  <2> QED BY <2>2, <2>3
<1>6. PICK f \in [D -> Nat] : Recursive(f, D, m, next, out, step)
  <2> HIDE DEF D, m, next, out, step
  <2> QED BY <1>2, <1>3, <1>4, <1>5, Recursion
<1>7. \A p \in D : f[p] = IF p[1] + p[2] = 0 THEN 0
                          ELSE ((p[1] + p[2]) % 2) + 2 * f[<<p[1] \div 2, p[2] \div 2>>]
  <2> TAKE p \in D
  <2>1. f[p] = IF m[p] = 0 THEN out[p] ELSE step[p][f[next[p]]]
    BY <1>6 DEF Recursive
  <2>2. /\ m[p] = p[1] + p[2] /\ out[p] = 0
        /\ next[p] = <<p[1] \div 2, p[2] \div 2>>
        /\ \A r \in Nat : step[p][r] = ((p[1] + p[2]) % 2) + 2 * r
    OBVIOUS
  <2>3. f[next[p]] \in Nat
    BY <1>3, <1>6
  <2> HIDE DEF D, m, next, out, step
  <2> QED BY <2>1, <2>2, <2>3
<1>8. f = [p \in D |-> IF p[1] + p[2] = 0 THEN 0
                       ELSE ((p[1] + p[2]) % 2) + 2 * f[<<p[1] \div 2, p[2] \div 2>>]]
  <2> HIDE DEF D, m, next, out, step
  <2> QED BY <1>6, <1>7
<1>9. xorBits = [p \in D |-> IF p[1] + p[2] = 0 THEN 0
                       ELSE ((p[1] + p[2]) % 2) + 2 * xorBits[<<p[1] \div 2, p[2] \div 2>>]]
  <2> HIDE DEF m, next, out, step
  <2> QED BY <1>8, Zenon DEF xorBits
<1>10. <<a, b>> \in D /\ <<a, b>>[1] = a /\ <<a, b>>[2] = b
  OBVIOUS
<1>11. xorBits[<<a, b>>] = IF a + b = 0 THEN 0
                           ELSE ((a + b) % 2) + 2 * xorBits[<<a \div 2, b \div 2>>]
  <2> HIDE DEF D, m, next, out, step
  <2> QED BY <1>9, <1>10
<1> QED BY <1>11 DEF xor

\* The last bit, and the bits before it.
LEMMA XorStep ==
  ASSUME NEW a \in Nat, NEW b \in Nat
  PROVE  xor(a, b) = ((a + b) % 2) + 2 * xor(a \div 2, b \div 2)
<1>1. CASE a + b = 0
  <2>1. a = 0 /\ b = 0 /\ a \div 2 = 0 /\ b \div 2 = 0 /\ (a + b) % 2 = 0
    BY <1>1
  <2>2. xor(0, 0) = 0
    BY XorDef
  <2> QED BY <2>1, <2>2
<1>2. CASE a + b # 0
  BY <1>2, XorDef
<1> QED BY <1>1, <1>2

LEMMA XorOfBits ==
  ASSUME NEW k \in Nat
  PROVE  \A a, b, c \in 0..2 ^ k - 1 :
           /\ xor(a, b) \in 0..2 ^ k - 1
           /\ xor(a, b) = xor(b, a)
           /\ xor(xor(a, b), c) = xor(a, xor(b, c))
<1> DEFINE Below(t) == 0..2 ^ t - 1
           S == {t \in Nat : \A a, b, c \in Below(t) :
                               /\ xor(a, b) \in Below(t)
                               /\ xor(a, b) = xor(b, a)
                               /\ xor(xor(a, b), c) = xor(a, xor(b, c))}
<1>1. 0 \in S
  <2>1. xor(0, 0) = 0 /\ Below(0) = {0}
    BY XorDef
  <2> QED BY <2>1
<1>2. ASSUME NEW t \in Nat, t \in S PROVE t + 1 \in S
  <2>1. PICK p \in Nat : p = 2 ^ t /\ 2 ^ (t + 1) = 2 * p
    BY TwoPower
  <2>2. \A a \in Below(t + 1) : a \in Nat /\ a \div 2 \in Below(t)
    BY <2>1
  <2>3. ASSUME NEW a \in Below(t + 1), NEW b \in Below(t + 1)
        PROVE  /\ xor(a, b) = ((a + b) % 2) + 2 * xor(a \div 2, b \div 2)
               /\ xor(a, b) \in Below(t + 1)
               /\ xor(a, b) \div 2 = xor(a \div 2, b \div 2)
               /\ xor(a, b) % 2 = (a + b) % 2
    <3>1. xor(a, b) = ((a + b) % 2) + 2 * xor(a \div 2, b \div 2)
      BY <2>2, XorStep
    <3>2. PICK h \in Below(t) : h = xor(a \div 2, b \div 2)
      BY <1>2, <2>2
    <3>3. PICK r \in 0..1 : r = (a + b) % 2
      BY <2>2
    <3>4. xor(a, b) = r + 2 * h
      BY <3>1, <3>2, <3>3
    <3>5. r + 2 * h \in Below(t + 1) /\ (r + 2 * h) \div 2 = h /\ (r + 2 * h) % 2 = r
      BY <2>1, <3>2, <3>3
    <3> QED BY <3>1, <3>2, <3>3, <3>4, <3>5
  <2>4. ASSUME NEW a \in Below(t + 1), NEW b \in Below(t + 1) PROVE xor(a, b) = xor(b, a)
    <3>1. xor(a \div 2, b \div 2) = xor(b \div 2, a \div 2)
      BY <1>2, <2>2
    <3>2. a + b = b + a
      BY <2>2
    <3>3. xor(a, b) = ((a + b) % 2) + 2 * xor(a \div 2, b \div 2)
      BY <2>3
    <3>4. xor(b, a) = ((b + a) % 2) + 2 * xor(b \div 2, a \div 2)
      BY <2>3
    <3> QED BY <3>1, <3>2, <3>3, <3>4
  <2>5. ASSUME NEW a \in Below(t + 1), NEW b \in Below(t + 1), NEW c \in Below(t + 1)
        PROVE  xor(xor(a, b), c) = xor(a, xor(b, c))
    <3>1. PICK x \in Below(t + 1), y \in Below(t + 1) :
            /\ x = xor(a, b) /\ x \div 2 = xor(a \div 2, b \div 2) /\ x % 2 = (a + b) % 2
            /\ y = xor(b, c) /\ y \div 2 = xor(b \div 2, c \div 2) /\ y % 2 = (b + c) % 2
      <4>1. /\ xor(a, b) \in Below(t + 1) /\ xor(a, b) \div 2 = xor(a \div 2, b \div 2)
            /\ xor(a, b) % 2 = (a + b) % 2
        BY <2>3
      <4>2. /\ xor(b, c) \in Below(t + 1) /\ xor(b, c) \div 2 = xor(b \div 2, c \div 2)
            /\ xor(b, c) % 2 = (b + c) % 2
        BY <2>3
      <4> HIDE DEF Below
      <4> QED BY <4>1, <4>2
    <3>2. xor(x, c) = ((x + c) % 2) + 2 * xor(x \div 2, c \div 2)
      BY <2>3
    <3>3. xor(a, y) = ((a + y) % 2) + 2 * xor(a \div 2, y \div 2)
      BY <2>3
    <3>4. (x + c) % 2 = (a + y) % 2
      BY <2>2, <3>1
    <3>5. xor(x \div 2, c \div 2) = xor(a \div 2, y \div 2)
      BY <1>2, <2>2, <3>1
    <3> QED BY <3>1, <3>2, <3>3, <3>4, <3>5
  <2> HIDE DEF Below
  <2> QED BY <2>3, <2>4, <2>5
<1>3. k \in S
  <2> HIDE DEF S
  <2> QED BY <1>1, <1>2, Induction
<1> QED BY <1>3
-----------------------------------------------------------------------------
(***************************************************************************)
(* Words, hashes and what is made of them.                                 *)
(***************************************************************************)
LEMMA WordXor ==
  \A a, b, c \in Uint32 : /\ xor(a, b) \in Uint32
                          /\ xor(a, b) = xor(b, a)
                          /\ xor(xor(a, b), c) = xor(a, xor(b, c))
BY XorOfBits, EthashAssumption, Zenon DEF Uint32

LEMMA Truncated ==
  ASSUME NEW n \in Nat
  PROVE  uint32(n) \in Uint32 /\ (n < 2 ^ UintBits => uint32(n) = n)
<1>1. PICK p \in Nat \ {0} : p = 2 ^ UintBits
  BY EthashAssumption, PowersPositive
<1>2. n % p \in 0..p - 1 /\ (n < p => n % p = n)
  BY <1>1
<1> QED BY <1>1, <1>2 DEF uint32, Uint32

LEMMA WordIsNumber == Uint32 \subseteq Nat
<1>1. PICK p \in Nat \ {0} : p = 2 ^ UintBits
  BY EthashAssumption, PowersPositive
<1> QED BY <1>1 DEF Uint32

LEMMA FnvType == ASSUME NEW a \in Uint32, NEW b \in Uint32 PROVE fnv(a, b) \in Uint32
<1>1. a * FnvPrime \in Nat
  BY WordIsNumber, EthashAssumption
<1> QED BY <1>1, Truncated, WordXor DEF fnv

LEMMA ComputedIs ==
  ASSUME NEW n \in Nat, NEW T, NEW words \in [1..n -> T]
  PROVE  Computed(words) = words /\ Len(words) = n
<1>1. Len(words) = n /\ words \in Seq(T)
  OBVIOUS
<1>2. SubSeq(words, 1, n) = words
  BY <1>1
<1> QED BY <1>1, <1>2 DEF Computed

LEMMA FnvHashIs ==
  ASSUME NEW n \in Nat, NEW mix \in Words(n), NEW data \in Words(n)
  PROVE  /\ fnvHash(mix, data) = [i \in 1..n |-> fnv(mix[i], data[i])]
         /\ fnvHash(mix, data) \in Words(n)
<1> DEFINE words == [i \in 1..n |-> fnv(mix[i], data[i])]
<1>1. \A i \in 1..n : mix[i] \in Uint32 /\ data[i] \in Uint32
  BY DEF Words
<1>2. words \in [1..n -> Uint32]
  BY <1>1, FnvType
<1>3. Len(mix) = n
  BY DEF Words
<1>4. Computed(words) = words
  BY <1>2, ComputedIs
<1>5. fnvHash(mix, data) = words
  BY <1>3, <1>4 DEF fnvHash
<1> QED BY <1>2, <1>5 DEF Words

LEMMA XORBytesIs ==
  ASSUME NEW n \in Nat, NEW a \in Words(n), NEW b \in Words(n)
  PROVE  /\ XORBytes(a, b) = [i \in 1..n |-> xor(a[i], b[i])]
         /\ XORBytes(a, b) \in Words(n)
         /\ XORBytes(a, b) = XORBytes(b, a)
<1>1. \A x, y \in Words(n) : /\ XORBytes(x, y) = [i \in 1..n |-> xor(x[i], y[i])]
                             /\ XORBytes(x, y) \in Words(n)
  <2> TAKE x, y \in Words(n)
  <2> DEFINE words == [i \in 1..n |-> xor(x[i], y[i])]
  <2>1. \A i \in 1..n : x[i] \in Uint32 /\ y[i] \in Uint32
    BY DEF Words
  <2>2. words \in [1..n -> Uint32]
    BY <2>1, WordXor
  <2>3. Len(x) = n
    BY DEF Words
  <2>4. Computed(words) = words
    BY <2>2, ComputedIs
  <2>5. XORBytes(x, y) = words
    BY <2>3, <2>4 DEF XORBytes
  <2> QED BY <2>2, <2>5 DEF Words
<1>2. \A i \in 1..n : xor(a[i], b[i]) = xor(b[i], a[i])
  <2>1. \A i \in 1..n : a[i] \in Uint32 /\ b[i] \in Uint32
    BY DEF Words
  <2> QED BY <2>1, WordXor
<1> QED BY <1>1, <1>2

LEMMA WidthTypes ==
  /\ hashWords \in Nat \ {0} /\ mixWords \in Nat \ {0} /\ mixWords = hashWords + hashWords
  /\ hashBytes \in Nat \ {0} /\ mixBytes \in Nat \ {0} /\ mixBytes = 2 * hashBytes
  /\ datasetParents \in Nat /\ 0..datasetParents - 1 \subseteq Uint32
  /\ loopAccesses \in Nat /\ 0..loopAccesses - 1 \subseteq Uint32
<1>1. PICK p \in Nat \ {0} : p = 2 ^ UintBits
  BY EthashAssumption, PowersPositive
<1> QED BY <1>1, EthashAssumption DEF mixWords, hashBytes, mixBytes, Uint32

(***************************************************************************)
(* A cache of any number of rows.                                          *)
(***************************************************************************)
isCache(c) == \E n \in Nat \ {0} : c \in [1..n -> Hash]

LEMMA RowIs ==
  ASSUME NEW c, isCache(c), NEW n \in Nat
  PROVE  row(c, n) \in Hash /\ \A w \in 1..hashWords : row(c, n)[w] \in Uint32
<1>1. PICK r \in Nat \ {0} : c \in [1..r -> Hash]
  BY DEF isCache
<1>2. Len(c) = r
  BY <1>1
<1>3. (n % r) + 1 \in 1..r
  BY <1>1
<1>4. row(c, n) \in Hash
  BY <1>1, <1>2, <1>3 DEF row
<1> QED BY <1>4 DEF Hash, Words

LEMMA StartIs ==
  ASSUME NEW c, isCache(c), NEW index \in Uint32
  PROVE  startOf(c, index) \in Hash
<1>1. row(c, index) \in Hash /\ row(c, index)[1] \in Uint32
  BY RowIs, WordIsNumber, WidthTypes
<1>2. xor(row(c, index)[1], index) \in Uint32
  BY <1>1, WordXor
<1> QED BY <1>1, <1>2 DEF startOf, Hash, Words

LEMMA ParentIs ==
  ASSUME NEW c, isCache(c), NEW index \in Uint32, NEW mix \in Hash,
         NEW i \in 0..datasetParents - 1
  PROVE  /\ fnv(xor(index, i), mix[(i % hashWords) + 1]) \in Uint32
         /\ parentOf(c, index, mix, i) \in Hash
<1>1. i \in Uint32 /\ (i % hashWords) + 1 \in 1..hashWords
  BY WidthTypes
<1>2. mix[(i % hashWords) + 1] \in Uint32
  BY <1>1 DEF Hash, Words
<1>3. fnv(xor(index, i), mix[(i % hashWords) + 1]) \in Uint32
  BY <1>1, <1>2, WordXor, FnvType
<1> QED BY <1>3, RowIs, WordIsNumber DEF parentOf
-----------------------------------------------------------------------------
(***************************************************************************)
(* The loops, turn by turn.                                                *)
(***************************************************************************)
LEMMA MixLoopDef ==
  ASSUME NEW c, NEW index, NEW begin
  PROVE  LET loop == mixLoop(c, index, begin)
         IN  /\ loop[0] = begin
             /\ \A t \in 0..datasetParents - 1 :
                  loop[t + 1] = fnvHash(loop[t], parentOf(c, index, loop[t], t))
<1> DEFINE loop         == mixLoop(c, index, begin)
           start        == begin
           turn(mix, t) == fnvHash(mix, parentOf(c, index, mix, t))
           isLoop(f, n) == f = [t \in 0..n |-> IF t = 0 THEN start ELSE turn(f[t - 1], t - 1)]
           S            == {n \in Nat : \E f : isLoop(f, n)}
<1>1. 0 \in S
  <2>1. isLoop([t \in 0..0 |-> start], 0)
    OBVIOUS
  <2> QED BY <2>1
<1>2. ASSUME NEW n \in Nat, n \in S PROVE n + 1 \in S
  <2>1. PICK f : isLoop(f, n)
    BY <1>2
  <2> DEFINE g == [t \in 0..n + 1 |-> IF t = 0 THEN start ELSE turn(f[t - 1], t - 1)]
  <2> HIDE DEF turn, start
  <2>2. \A t \in 0..n : g[t] = f[t]
    BY <2>1
  <2>3. \A t \in 0..n + 1 :
          t # 0 => turn(f[t - 1], t - 1) = turn(g[t - 1], t - 1)
    <3> HIDE DEF g, isLoop
    <3>1. \A t \in 0..n + 1 : t # 0 => t - 1 \in 0..n
      OBVIOUS
    <3> QED BY <2>2, <3>1
  <2>4. isLoop(g, n + 1)
    BY <2>3
  <2> HIDE DEF isLoop
  <2> QED BY <2>4
<1>3. datasetParents \in S
  <2> HIDE DEF S
  <2> QED BY <1>1, <1>2, Induction, EthashAssumption
<1>4. isLoop(loop, datasetParents)
  BY <1>3, Zenon DEF mixLoop
<1> HIDE DEF turn, start, loop
<1>5. /\ loop[0] = start
      /\ \A t \in 0..datasetParents - 1 : loop[t + 1] = turn(loop[t], t)
  BY <1>4, EthashAssumption
<1> QED BY <1>5 DEF turn, start, loop

(***************************************************************************)
(* A turn of the loop over parents and words.                              *)
(***************************************************************************)
inPlace(c, index, st, t) ==
  LET j         == t \div hashWords
      k         == (t % hashWords) + 1
      cache_idx == IF k = 1 THEN fnv(xor(index, j), st.mix[(j % hashWords) + 1])
                            ELSE st.cache_idx
  IN  [mix       |-> [st.mix EXCEPT ![k] = fnv(@, row(c, cache_idx)[k])],
       cache_idx |-> cache_idx]

LEMMA ParentLoopDef ==
  ASSUME NEW c, NEW index, NEW begin
  PROVE  LET loop == parentLoop(c, index, begin)
         IN  /\ loop[0] = [mix |-> begin, cache_idx |-> 0]
             /\ \A t \in 0..datasetParents * hashWords - 1 :
                  loop[t + 1] = inPlace(c, index, loop[t], t)
<1> DEFINE loop         == parentLoop(c, index, begin)
           start        == [mix |-> begin, cache_idx |-> 0]
           turn(st, t) == inPlace(c, index, st, t)
           isLoop(f, n) == f = [t \in 0..n |-> IF t = 0 THEN start ELSE turn(f[t - 1], t - 1)]
           S            == {n \in Nat : \E f : isLoop(f, n)}
<1>1. 0 \in S
  <2>1. isLoop([t \in 0..0 |-> start], 0)
    OBVIOUS
  <2> QED BY <2>1
<1>2. ASSUME NEW n \in Nat, n \in S PROVE n + 1 \in S
  <2>1. PICK f : isLoop(f, n)
    BY <1>2
  <2> DEFINE g == [t \in 0..n + 1 |-> IF t = 0 THEN start ELSE turn(f[t - 1], t - 1)]
  <2> HIDE DEF turn, start
  <2>2. \A t \in 0..n : g[t] = f[t]
    BY <2>1
  <2>3. \A t \in 0..n + 1 :
          t # 0 => turn(f[t - 1], t - 1) = turn(g[t - 1], t - 1)
    <3> HIDE DEF g, isLoop
    <3>1. \A t \in 0..n + 1 : t # 0 => t - 1 \in 0..n
      OBVIOUS
    <3> QED BY <2>2, <3>1
  <2>4. isLoop(g, n + 1)
    BY <2>3
  <2> HIDE DEF isLoop
  <2> QED BY <2>4
<1>3. datasetParents * hashWords \in S
  <2> HIDE DEF S
  <2> QED BY <1>1, <1>2, Induction, EthashAssumption
<1>4. isLoop(loop, datasetParents * hashWords)
  BY <1>3, Zenon DEF parentLoop, inPlace
<1> HIDE DEF turn, start, loop
<1>5. /\ loop[0] = start
      /\ \A t \in 0..datasetParents * hashWords - 1 : loop[t + 1] = turn(loop[t], t)
  BY <1>4, EthashAssumption
<1> QED BY <1>5 DEF turn, start, loop

(***************************************************************************)
(* An access to pages of a dataset, plain, in registers, and by lookups.   *)
(***************************************************************************)
LEMMA PlainLoopDef ==
  ASSUME NEW hash, NEW pages, NEW dataset
  PROVE  LET loop == plainLoop(hash, pages, dataset)
         IN  /\ loop[0] = replicated(hash)
             /\ \A t \in 0..loopAccesses - 1 :
                  loop[t + 1] = fnvHash(loop[t], page(dataset, parentRow(hash, pages, loop[t], t)))
<1> DEFINE loop         == plainLoop(hash, pages, dataset)
           start        == replicated(hash)
           turn(mix, t) == fnvHash(mix, page(dataset, parentRow(hash, pages, mix, t)))
           isLoop(f, n) == f = [t \in 0..n |-> IF t = 0 THEN start ELSE turn(f[t - 1], t - 1)]
           S            == {n \in Nat : \E f : isLoop(f, n)}
<1>1. 0 \in S
  <2>1. isLoop([t \in 0..0 |-> start], 0)
    OBVIOUS
  <2> QED BY <2>1
<1>2. ASSUME NEW n \in Nat, n \in S PROVE n + 1 \in S
  <2>1. PICK f : isLoop(f, n)
    BY <1>2
  <2> DEFINE g == [t \in 0..n + 1 |-> IF t = 0 THEN start ELSE turn(f[t - 1], t - 1)]
  <2> HIDE DEF turn, start
  <2>2. \A t \in 0..n : g[t] = f[t]
    BY <2>1
  <2>3. \A t \in 0..n + 1 :
          t # 0 => turn(f[t - 1], t - 1) = turn(g[t - 1], t - 1)
    <3> HIDE DEF g, isLoop
    <3>1. \A t \in 0..n + 1 : t # 0 => t - 1 \in 0..n
      OBVIOUS
    <3> QED BY <2>2, <3>1
  <2>4. isLoop(g, n + 1)
    BY <2>3
  <2> HIDE DEF isLoop
  <2> QED BY <2>4
<1>3. loopAccesses \in S
  <2> HIDE DEF S
  <2> QED BY <1>1, <1>2, Induction, EthashAssumption
<1>4. isLoop(loop, loopAccesses)
  BY <1>3, Zenon DEF plainLoop
<1> HIDE DEF turn, start, loop
<1>5. /\ loop[0] = start
      /\ \A t \in 0..loopAccesses - 1 : loop[t + 1] = turn(loop[t], t)
  BY <1>4, EthashAssumption
<1> QED BY <1>5 DEF turn, start, loop

inRegisters(hash, pages, dataset, st, t) ==
  LET mem == stored(st.mem, st.regs, t)
  IN  [mem  |-> mem,
       regs |-> fnvHash(st.regs, page(dataset, parentRow(hash, pages, mem, t)))]

LEMMA VectorLoopDef ==
  ASSUME NEW hash, NEW pages, NEW dataset
  PROVE  LET loop == vectorLoop(hash, pages, dataset)
         IN  /\ loop[0] = [mem |-> replicated(hash), regs |-> replicated(hash)]
             /\ \A t \in 0..loopAccesses - 1 :
                  loop[t + 1] = inRegisters(hash, pages, dataset, loop[t], t)
<1> DEFINE loop         == vectorLoop(hash, pages, dataset)
           start        == [mem |-> replicated(hash), regs |-> replicated(hash)]
           turn(st, t) == inRegisters(hash, pages, dataset, st, t)
           isLoop(f, n) == f = [t \in 0..n |-> IF t = 0 THEN start ELSE turn(f[t - 1], t - 1)]
           S            == {n \in Nat : \E f : isLoop(f, n)}
<1>1. 0 \in S
  <2>1. isLoop([t \in 0..0 |-> start], 0)
    OBVIOUS
  <2> QED BY <2>1
<1>2. ASSUME NEW n \in Nat, n \in S PROVE n + 1 \in S
  <2>1. PICK f : isLoop(f, n)
    BY <1>2
  <2> DEFINE g == [t \in 0..n + 1 |-> IF t = 0 THEN start ELSE turn(f[t - 1], t - 1)]
  <2> HIDE DEF turn, start
  <2>2. \A t \in 0..n : g[t] = f[t]
    BY <2>1
  <2>3. \A t \in 0..n + 1 :
          t # 0 => turn(f[t - 1], t - 1) = turn(g[t - 1], t - 1)
    <3> HIDE DEF g, isLoop
    <3>1. \A t \in 0..n + 1 : t # 0 => t - 1 \in 0..n
      OBVIOUS
    <3> QED BY <2>2, <3>1
  <2>4. isLoop(g, n + 1)
    BY <2>3
  <2> HIDE DEF isLoop
  <2> QED BY <2>4
<1>3. loopAccesses \in S
  <2> HIDE DEF S
  <2> QED BY <1>1, <1>2, Induction, EthashAssumption
<1>4. isLoop(loop, loopAccesses)
  BY <1>3, Zenon DEF vectorLoop, inRegisters
<1> HIDE DEF turn, start, loop
<1>5. /\ loop[0] = start
      /\ \A t \in 0..loopAccesses - 1 : loop[t + 1] = turn(loop[t], t)
  BY <1>4, EthashAssumption
<1> QED BY <1>5 DEF turn, start, loop

looked(hash, pages, lookup, mix, t) ==
  IF mix = Panic THEN Panic
  ELSE LET p     == parentRow(hash, pages, mix, t)
           left  == lookup[2 * p]
           right == lookup[2 * p + 1]
       IN  IF Panic \in {left, right} THEN Panic ELSE fnvHash(mix, left \o right)

LEMMA AccessesDef ==
  ASSUME NEW hash, NEW pages, NEW lookup
  PROVE  LET loop == accessLoop(hash, pages, lookup)
         IN  /\ loop[0] = replicated(hash)
             /\ \A t \in 0..loopAccesses - 1 :
                  loop[t + 1] = looked(hash, pages, lookup, loop[t], t)
<1> DEFINE loop         == accessLoop(hash, pages, lookup)
           start        == replicated(hash)
           turn(mix, t) == looked(hash, pages, lookup, mix, t)
           isLoop(f, n) == f = [t \in 0..n |-> IF t = 0 THEN start ELSE turn(f[t - 1], t - 1)]
           S            == {n \in Nat : \E f : isLoop(f, n)}
<1>1. 0 \in S
  <2>1. isLoop([t \in 0..0 |-> start], 0)
    OBVIOUS
  <2> QED BY <2>1
<1>2. ASSUME NEW n \in Nat, n \in S PROVE n + 1 \in S
  <2>1. PICK f : isLoop(f, n)
    BY <1>2
  <2> DEFINE g == [t \in 0..n + 1 |-> IF t = 0 THEN start ELSE turn(f[t - 1], t - 1)]
  <2> HIDE DEF turn, start
  <2>2. \A t \in 0..n : g[t] = f[t]
    BY <2>1
  <2>3. \A t \in 0..n + 1 :
          t # 0 => turn(f[t - 1], t - 1) = turn(g[t - 1], t - 1)
    <3> HIDE DEF g, isLoop
    <3>1. \A t \in 0..n + 1 : t # 0 => t - 1 \in 0..n
      OBVIOUS
    <3> QED BY <2>2, <3>1
  <2>4. isLoop(g, n + 1)
    BY <2>3
  <2> HIDE DEF isLoop
  <2> QED BY <2>4
<1>3. loopAccesses \in S
  <2> HIDE DEF S
  <2> QED BY <1>1, <1>2, Induction, EthashAssumption
<1>4. isLoop(loop, loopAccesses)
  BY <1>3, Zenon DEF accessLoop, looked
<1> HIDE DEF turn, start, loop
<1>5. /\ loop[0] = start
      /\ \A t \in 0..loopAccesses - 1 : loop[t + 1] = turn(loop[t], t)
  BY <1>4, EthashAssumption
<1> QED BY <1>5 DEF turn, start, loop

(***************************************************************************)
(* The cache: rows are chained, and then rehashed in rounds.               *)
(***************************************************************************)
LEMMA ChainLoopDef ==
  ASSUME NEW m \in Nat, NEW first
  PROVE  LET loop == chainLoop(m, first)
         IN  /\ loop[0] = << >>
             /\ \A t \in 0..m - 1 :
                  loop[t + 1] = Append(loop[t], keccak512(IF t = 0 THEN first ELSE loop[t][t]))
<1> DEFINE loop         == chainLoop(m, first)
           start        == << >>
           turn(filled, t) == Append(filled, keccak512(IF t = 0 THEN first ELSE filled[t]))
           isLoop(f, n) == f = [t \in 0..n |-> IF t = 0 THEN start ELSE turn(f[t - 1], t - 1)]
           S            == {n \in Nat : \E f : isLoop(f, n)}
<1>1. 0 \in S
  <2>1. isLoop([t \in 0..0 |-> start], 0)
    OBVIOUS
  <2> QED BY <2>1
<1>2. ASSUME NEW n \in Nat, n \in S PROVE n + 1 \in S
  <2>1. PICK f : isLoop(f, n)
    BY <1>2
  <2> DEFINE g == [t \in 0..n + 1 |-> IF t = 0 THEN start ELSE turn(f[t - 1], t - 1)]
  <2> HIDE DEF turn, start
  <2>2. \A t \in 0..n : g[t] = f[t]
    BY <2>1
  <2>3. \A t \in 0..n + 1 :
          t # 0 => turn(f[t - 1], t - 1) = turn(g[t - 1], t - 1)
    <3> HIDE DEF g, isLoop
    <3>1. \A t \in 0..n + 1 : t # 0 => t - 1 \in 0..n
      OBVIOUS
    <3> QED BY <2>2, <3>1
  <2>4. isLoop(g, n + 1)
    BY <2>3
  <2> HIDE DEF isLoop
  <2> QED BY <2>4
<1>3. m \in S
  <2> HIDE DEF S
  <2> QED BY <1>1, <1>2, Induction
<1>4. isLoop(loop, m)
  BY <1>3, Zenon DEF chainLoop
<1> HIDE DEF turn, start, loop
<1>5. /\ loop[0] = start
      /\ \A t \in 0..m - 1 : loop[t + 1] = turn(loop[t], t)
  BY <1>4
<1> QED BY <1>5 DEF turn, start, loop

rehashedRow(m, c, t) ==
  LET i  == t % m
      p0 == c[xorRow(c[i + 1][1], m) + 1]
      p1 == c[((i - 1 + m) % m) + 1]
  IN  [c EXCEPT ![i + 1] = keccak512(XORBytes(p0, p1))]

LEMMA RoundLoopDef ==
  ASSUME NEW m \in Nat, NEW first
  PROVE  LET loop == roundLoop(m, first)
         IN  /\ loop[0] = chainLoop(m, first)[m]
             /\ \A t \in 0..cacheRounds * m - 1 :
                  loop[t + 1] = rehashedRow(m, loop[t], t)
<1> DEFINE loop         == roundLoop(m, first)
           start        == chainLoop(m, first)[m]
           turn(c, t) == rehashedRow(m, c, t)
           isLoop(f, n) == f = [t \in 0..n |-> IF t = 0 THEN start ELSE turn(f[t - 1], t - 1)]
           S            == {n \in Nat : \E f : isLoop(f, n)}
<1>1. 0 \in S
  <2>1. isLoop([t \in 0..0 |-> start], 0)
    OBVIOUS
  <2> QED BY <2>1
<1>2. ASSUME NEW n \in Nat, n \in S PROVE n + 1 \in S
  <2>1. PICK f : isLoop(f, n)
    BY <1>2
  <2> DEFINE g == [t \in 0..n + 1 |-> IF t = 0 THEN start ELSE turn(f[t - 1], t - 1)]
  <2> HIDE DEF turn, start
  <2>2. \A t \in 0..n : g[t] = f[t]
    BY <2>1
  <2>3. \A t \in 0..n + 1 :
          t # 0 => turn(f[t - 1], t - 1) = turn(g[t - 1], t - 1)
    <3> HIDE DEF g, isLoop
    <3>1. \A t \in 0..n + 1 : t # 0 => t - 1 \in 0..n
      OBVIOUS
    <3> QED BY <2>2, <3>1
  <2>4. isLoop(g, n + 1)
    BY <2>3
  <2> HIDE DEF isLoop
  <2> QED BY <2>4
<1>3. cacheRounds * m \in S
  <2> HIDE DEF S
  <2> QED BY <1>1, <1>2, Induction, CacheAssumption
<1>4. isLoop(loop, cacheRounds * m)
  BY <1>3, Zenon DEF roundLoop, rehashedRow
<1> HIDE DEF turn, start, loop
<1>5. /\ loop[0] = start
      /\ \A t \in 0..cacheRounds * m - 1 : loop[t + 1] = turn(loop[t], t)
  BY <1>4, CacheAssumption
<1> QED BY <1>5 DEF turn, start, loop

-----------------------------------------------------------------------------
(***************************************************************************)
(* Items and masks are hashes, whatever rows the parents are.              *)
(***************************************************************************)
LEMMA MixIsHash ==
  ASSUME NEW c, isCache(c), NEW index \in Uint32, NEW begin \in Hash
  PROVE  \A t \in 0..datasetParents : mixLoop(c, index, begin)[t] \in Hash
<1> DEFINE loop == mixLoop(c, index, begin)
           S == {t \in Nat : t <= datasetParents => loop[t] \in Hash}
<1>1. /\ loop[0] = begin
      /\ \A t \in 0..datasetParents - 1 :
           loop[t + 1] = fnvHash(loop[t], parentOf(c, index, loop[t], t))
  BY MixLoopDef
<1> HIDE DEF loop
<1>2. 0 \in S
  BY <1>1
<1>3. ASSUME NEW t \in Nat, t \in S PROVE t + 1 \in S
  <2>1. SUFFICES ASSUME t + 1 <= datasetParents PROVE loop[t + 1] \in Hash
    OBVIOUS
  <2>2. t \in 0..datasetParents - 1 /\ loop[t] \in Hash
    BY <1>3, <2>1, WidthTypes
  <2>3. parentOf(c, index, loop[t], t) \in Hash
    BY <2>2, ParentIs
  <2>4. fnvHash(loop[t], parentOf(c, index, loop[t], t)) \in Words(hashWords)
    BY <2>2, <2>3, FnvHashIs, WidthTypes DEF Hash
  <2> QED BY <1>1, <2>2, <2>4 DEF Hash
<1>4. \A t \in Nat : t \in S
  <2> HIDE DEF S
  <2> QED BY <1>2, <1>3, Induction
<1> QED BY <1>4, WidthTypes DEF loop

LEMMA ItemIsHash ==
  ASSUME NEW c, isCache(c), NEW index \in Uint32
  PROVE  generateDatasetItem(c, index) \in Hash
<1>1. keccak512(startOf(c, index)) \in Hash
  BY StartIs, KeccakAssumption
<1>2. mixParents(c, index, keccak512(startOf(c, index))) \in Hash
  BY <1>1, MixIsHash, WidthTypes DEF mixParents
<1> QED BY <1>2, KeccakAssumption DEF generateDatasetItem

(***************************************************************************)
(* In place: after k words of parent j, those k words are mixed and the    *)
(* others are not, while the index of the parent is the one that the mix   *)
(* before it chose.                                                        *)
(***************************************************************************)
partly(c, index, mix, j, k) ==
  LET p == parentOf(c, index, mix, j)
  IN  [w \in 1..hashWords |-> IF w <= k THEN fnv(mix[w], p[w]) ELSE mix[w]]

LEMMA WordInPlace ==
  ASSUME NEW c, isCache(c), NEW index \in Uint32, NEW mix \in Hash,
         NEW j \in 0..datasetParents - 1, NEW k \in 0..hashWords - 1, NEW st,
         st.mix = partly(c, index, mix, j, k),
         k # 0 => st.cache_idx = fnv(xor(index, j), mix[(j % hashWords) + 1])
  PROVE  LET next == inPlace(c, index, st, j * hashWords + k)
         IN  /\ next.mix = partly(c, index, mix, j, k + 1)
             /\ next.cache_idx = fnv(xor(index, j), mix[(j % hashWords) + 1])
<1> DEFINE idx  == fnv(xor(index, j), mix[(j % hashWords) + 1])
           p    == row(c, idx)
           next == inPlace(c, index, st, j * hashWords + k)
<1>1. (j * hashWords + k) \div hashWords = j /\ (j * hashWords + k) % hashWords = k
  <2>1. j \in Nat
    BY WidthTypes
  <2> QED BY <2>1, WidthTypes, QuotientIs
<1>2. (j % hashWords) + 1 \in 1..hashWords
  BY WidthTypes
<1>3. (IF k + 1 = 1 THEN fnv(xor(index, j), st.mix[(j % hashWords) + 1]) ELSE st.cache_idx) = idx
  <2>1. CASE k = 0
    <3>1. st.mix[(j % hashWords) + 1] = mix[(j % hashWords) + 1]
      BY <1>2, <2>1 DEF partly
    <3> QED BY <2>1, <3>1
  <2>2. CASE k # 0
    BY <2>2
  <2> QED BY <2>1, <2>2
<1>4. next = [mix |-> [st.mix EXCEPT ![k + 1] = fnv(@, p[k + 1])], cache_idx |-> idx]
  <2> HIDE DEF idx
  <2> QED BY <1>1, <1>3, Zenon DEF inPlace
<1>5. next.mix = [st.mix EXCEPT ![k + 1] = fnv(@, p[k + 1])] /\ next.cache_idx = idx
  <2> HIDE DEF next, idx, p
  <2> QED BY <1>4
<1>6. parentOf(c, index, mix, j) = p
  BY DEF parentOf
<1>7. [st.mix EXCEPT ![k + 1] = fnv(@, p[k + 1])]
        = [w \in 1..hashWords |-> IF w <= k + 1 THEN fnv(mix[w], p[w]) ELSE mix[w]]
  <2>1. st.mix = [w \in 1..hashWords |-> IF w <= k THEN fnv(mix[w], p[w]) ELSE mix[w]]
    BY <1>6 DEF partly
  <2> HIDE DEF p
  <2>2. k + 1 \in 1..hashWords /\ st.mix[k + 1] = mix[k + 1]
    BY <2>1, WidthTypes
  <2>3. [st.mix EXCEPT ![k + 1] = fnv(@, p[k + 1])]
          = [w \in 1..hashWords |-> IF w = k + 1 THEN fnv(mix[w], p[w]) ELSE st.mix[w]]
    <3>1. DOMAIN st.mix = 1..hashWords
      BY <2>1
    <3> QED BY <2>2, <3>1
  <2>4. \A w \in 1..hashWords :
          (IF w = k + 1 THEN fnv(mix[w], p[w]) ELSE st.mix[w])
            = IF w <= k + 1 THEN fnv(mix[w], p[w]) ELSE mix[w]
    <3> TAKE w \in 1..hashWords
    <3>1. w # k + 1 => (w <= k <=> w <= k + 1)
      BY WidthTypes
    <3>2. st.mix[w] = IF w <= k THEN fnv(mix[w], p[w]) ELSE mix[w]
      BY <2>1
    <3> QED BY <3>1, <3>2
  <2> QED BY <2>3, <2>4, Zenon
<1>8. partly(c, index, mix, j, k + 1)
        = [w \in 1..hashWords |-> IF w <= k + 1 THEN fnv(mix[w], p[w]) ELSE mix[w]]
  BY <1>6 DEF partly
<1> QED BY <1>5, <1>7, <1>8

LEMMA ParentInPlace ==
  ASSUME NEW c, isCache(c), NEW index \in Uint32, NEW begin, NEW mix \in Hash,
         NEW j \in 0..datasetParents - 1,
         parentLoop(c, index, begin)[j * hashWords].mix = mix
  PROVE  parentLoop(c, index, begin)[(j + 1) * hashWords].mix
           = fnvHash(mix, parentOf(c, index, mix, j))
<1> DEFINE loop == parentLoop(c, index, begin)
           idx  == fnv(xor(index, j), mix[(j % hashWords) + 1])
           S == {k \in Nat : k <= hashWords =>
                   /\ loop[j * hashWords + k].mix = partly(c, index, mix, j, k)
                   /\ k # 0 => loop[j * hashWords + k].cache_idx = idx}
<1>1. \A t \in 0..datasetParents * hashWords - 1 : loop[t + 1] = inPlace(c, index, loop[t], t)
  BY ParentLoopDef
<1>2. loop[j * hashWords].mix = mix
  OBVIOUS
<1>3. j \in Nat /\ j * hashWords \in Nat /\ (j + 1) * hashWords = j * hashWords + hashWords
  <2>1. j \in Nat
    BY WidthTypes
  <2> QED BY <2>1, WidthTypes
<1>4. (j + 1) * hashWords <= datasetParents * hashWords /\ datasetParents * hashWords \in Nat
  <2>1. j + 1 \in Nat /\ j + 1 <= datasetParents
    BY WidthTypes
  <2> QED BY <2>1, WidthTypes, MulMono
<1> HIDE DEF loop
<1>5. 0 \in S
  <2>1. partly(c, index, mix, j, 0) = mix
    <3>1. \A w \in 1..hashWords : ~(w <= 0)
      OBVIOUS
    <3>2. mix = [w \in 1..hashWords |-> mix[w]]
      BY DEF Hash, Words
    <3> QED BY <3>1, <3>2, Zenon DEF partly
  <2>2. j * hashWords + 0 = j * hashWords
    BY <1>3
  <2> QED BY <1>2, <2>1, <2>2
<1>6. ASSUME NEW k \in Nat, k \in S PROVE k + 1 \in S
  <2>1. SUFFICES ASSUME k + 1 <= hashWords
                 PROVE  /\ loop[j * hashWords + (k + 1)].mix = partly(c, index, mix, j, k + 1)
                        /\ loop[j * hashWords + (k + 1)].cache_idx = idx
    OBVIOUS
  <2>2. k \in 0..hashWords - 1
    BY <2>1, WidthTypes
  <2>3. /\ loop[j * hashWords + k].mix = partly(c, index, mix, j, k)
        /\ k # 0 => loop[j * hashWords + k].cache_idx = idx
    BY <1>6, <2>2, WidthTypes
  <2>4. PICK t \in Nat : t = j * hashWords + k
    BY <1>3
  <2>5. t \in 0..datasetParents * hashWords - 1 /\ j * hashWords + (k + 1) = t + 1
    BY <1>3, <1>4, <2>2, <2>4, WidthTypes
  <2>6. loop[j * hashWords + (k + 1)] = inPlace(c, index, loop[t], t)
    BY <1>1, <2>5
  <2>7. /\ inPlace(c, index, loop[t], t).mix = partly(c, index, mix, j, k + 1)
        /\ inPlace(c, index, loop[t], t).cache_idx = idx
    BY <2>2, <2>3, <2>4, WordInPlace
  <2> QED BY <2>6, <2>7
<1>7. hashWords \in S
  <2> HIDE DEF S
  <2> QED BY <1>5, <1>6, Induction, WidthTypes
<1>8. loop[(j + 1) * hashWords].mix = partly(c, index, mix, j, hashWords)
  BY <1>3, <1>7, WidthTypes
<1>9. partly(c, index, mix, j, hashWords) = fnvHash(mix, parentOf(c, index, mix, j))
  <2>1. parentOf(c, index, mix, j) \in Words(hashWords) /\ mix \in Words(hashWords)
    BY ParentIs DEF Hash
  <2>2. fnvHash(mix, parentOf(c, index, mix, j))
          = [w \in 1..hashWords |-> fnv(mix[w], parentOf(c, index, mix, j)[w])]
    BY <2>1, FnvHashIs, WidthTypes
  <2>3. \A w \in 1..hashWords : w <= hashWords
    BY WidthTypes
  <2> QED BY <2>2, <2>3, Zenon DEF partly
<1> QED BY <1>8, <1>9 DEF loop

LEMMA MixesInPlace ==
  ASSUME NEW c, isCache(c), NEW index \in Uint32, NEW begin \in Hash
  PROVE  mixInPlace(c, index, begin) = mixParents(c, index, begin)
<1> DEFINE loop == mixLoop(c, index, begin)
           S == {j \in Nat : j <= datasetParents =>
                   parentLoop(c, index, begin)[j * hashWords].mix = loop[j]}
<1>1. /\ loop[0] = begin
      /\ \A t \in 0..datasetParents - 1 :
           loop[t + 1] = fnvHash(loop[t], parentOf(c, index, loop[t], t))
  BY MixLoopDef
<1>2. \A t \in 0..datasetParents : loop[t] \in Hash
  BY MixIsHash
<1> HIDE DEF loop
<1>3. 0 \in S
  <2>1. parentLoop(c, index, begin)[0] = [mix |-> begin, cache_idx |-> 0]
    BY ParentLoopDef
  <2>2. 0 * hashWords = 0
    BY WidthTypes
  <2> QED BY <1>1, <2>1, <2>2
<1>4. ASSUME NEW j \in Nat, j \in S PROVE j + 1 \in S
  <2>1. SUFFICES ASSUME j + 1 <= datasetParents
                 PROVE  parentLoop(c, index, begin)[(j + 1) * hashWords].mix = loop[j + 1]
    OBVIOUS
  <2>2. /\ j \in 0..datasetParents - 1 /\ loop[j] \in Hash
        /\ parentLoop(c, index, begin)[j * hashWords].mix = loop[j]
    BY <1>2, <1>4, <2>1, WidthTypes
  <2>3. parentLoop(c, index, begin)[(j + 1) * hashWords].mix
          = fnvHash(loop[j], parentOf(c, index, loop[j], j))
    BY <2>2, ParentInPlace
  <2> QED BY <1>1, <2>2, <2>3
<1>5. datasetParents \in S
  <2> HIDE DEF S
  <2> QED BY <1>3, <1>4, Induction, WidthTypes
<1>6. parentLoop(c, index, begin)[datasetParents * hashWords].mix = loop[datasetParents]
  BY <1>5, WidthTypes
<1> QED BY <1>6 DEF mixInPlace, mixParents, loop
-----------------------------------------------------------------------------
(***************************************************************************)
(* C computes the items that Go computes, and the masks: for every cache,  *)
(* index and initial hash.                                                 *)
(***************************************************************************)
THEOREM ItemsAgree ==
  ASSUME NEW c, isCache(c), NEW index \in Uint32
  PROVE  calculate_dataset_item(c, index) = generateDatasetItem(c, index)
<1>1. keccak512(startOf(c, index)) \in Hash
  BY StartIs, KeccakAssumption
<1>2. mixInPlace(c, index, keccak512(startOf(c, index)))
        = mixParents(c, index, keccak512(startOf(c, index)))
  BY <1>1, MixesInPlace
<1> QED BY <1>2, Zenon DEF calculate_dataset_item, generateDatasetItem

\* The words of a mask are xored in another order.
THEOREM MasksAgree ==
  ASSUME NEW c, isCache(c), NEW index \in Uint32, NEW initHash \in Hash
  PROVE  calculate_mask_data(c, index, initHash) = generateMaskItem(c, index, initHash)
<1> DEFINE r      == row(c, index)
           begun  == XORBytes(startOf(c, index), initHash)
           masked == [k \in 1..hashWords |-> IF k = 1 THEN xor(xor(initHash[1], r[1]), index)
                                                      ELSE xor(initHash[k], r[k])]
<1>1. r \in Hash /\ startOf(c, index) \in Words(hashWords) /\ initHash \in Words(hashWords)
  BY RowIs, StartIs, WordIsNumber DEF Hash
<1>2. /\ begun = [k \in 1..hashWords |-> xor(startOf(c, index)[k], initHash[k])]
      /\ begun \in Hash
  BY <1>1, XORBytesIs, WidthTypes DEF Hash
<1>3. ASSUME NEW k \in 1..hashWords
      PROVE  xor(startOf(c, index)[k], initHash[k])
               = IF k = 1 THEN xor(xor(initHash[1], r[1]), index) ELSE xor(initHash[k], r[k])
  <2>1. r[k] \in Uint32 /\ initHash[k] \in Uint32 /\ DOMAIN r = 1..hashWords
    BY <1>1 DEF Hash, Words
  <2>2. startOf(c, index)[k] = IF k = 1 THEN xor(r[k], index) ELSE r[k]
    <3>1. startOf(c, index) = [r EXCEPT ![1] = xor(r[1], index)]
      BY DEF startOf
    <3> HIDE DEF r
    <3> QED BY <2>1, <3>1
  <2> HIDE DEF r
  <2>3. xor(xor(r[k], index), initHash[k]) = xor(xor(initHash[k], r[k]), index)
    <3>1. xor(xor(r[k], index), initHash[k]) = xor(initHash[k], xor(r[k], index))
      BY <2>1, WordXor
    <3> QED BY <2>1, <3>1, WordXor
  <2>4. xor(r[k], initHash[k]) = xor(initHash[k], r[k])
    BY <2>1, WordXor
  <2> QED BY <2>2, <2>3, <2>4
<1>4. begun = masked
  <2> HIDE DEF r, begun
  <2> QED BY <1>2, <1>3, Zenon
<1> HIDE DEF begun
<1>5. keccak512(begun) \in Hash
  BY <1>2, KeccakAssumption
<1>6. mixInPlace(c, index, keccak512(begun)) = mixParents(c, index, keccak512(begun))
  BY <1>5, MixesInPlace
<1>7. generateMaskItem(c, index, initHash) = keccak512(mixParents(c, index, keccak512(begun)))
  BY DEF generateMaskItem, begun
<1>8. calculate_mask_data(c, index, initHash) = keccak512(mixInPlace(c, index, keccak512(masked)))
  BY Zenon DEF calculate_mask_data
<1> HIDE DEF masked
<1> QED BY <1>4, <1>6, <1>7, <1>8
-----------------------------------------------------------------------------
(***************************************************************************)
(* In registers of any width: an access reads the one word of the mix in   *)
(* memory that has just been stored, so that it never reads a stale one.   *)
(***************************************************************************)
THEOREM VectorIsPlain ==
  ASSUME NEW hash, NEW size, NEW dataset
  PROVE  hashimoto_avx(hash, size, dataset) = hashimoto(hash, size, dataset)
<1> DEFINE pages  == size \div mixBytes
           plain  == plainLoop(hash, pages, dataset)
           vector == vectorLoop(hash, pages, dataset)
           S == {t \in Nat : t <= loopAccesses => vector[t].regs = plain[t]}
<1>1. /\ plain[0] = replicated(hash)
      /\ \A t \in 0..loopAccesses - 1 :
           plain[t + 1] = fnvHash(plain[t], page(dataset, parentRow(hash, pages, plain[t], t)))
  BY PlainLoopDef
<1>2. /\ vector[0] = [mem |-> replicated(hash), regs |-> replicated(hash)]
      /\ \A t \in 0..loopAccesses - 1 :
           vector[t + 1] = inRegisters(hash, pages, dataset, vector[t], t)
  BY VectorLoopDef
<1> HIDE DEF pages, plain, vector
<1>3. 0 \in S
  BY <1>1, <1>2
<1>4. ASSUME NEW t \in Nat, t \in S PROVE t + 1 \in S
  <2>1. SUFFICES ASSUME t + 1 <= loopAccesses PROVE vector[t + 1].regs = plain[t + 1]
    OBVIOUS
  <2>2. t \in 0..loopAccesses - 1 /\ vector[t].regs = plain[t]
    BY <1>4, <2>1, WidthTypes
  <2> DEFINE mem == stored(vector[t].mem, vector[t].regs, t)
  <2>3. mem[(t % mixWords) + 1] = plain[t][(t % mixWords) + 1]
    <3>1. (t % mixWords) + 1 \in 1..mixWords /\ ((t % mixWords) + 1) - 1 = t % mixWords
      BY WidthTypes
    <3> QED BY <2>2, <3>1 DEF stored
  <2>4. parentRow(hash, pages, mem, t) = parentRow(hash, pages, plain[t], t)
    <3> HIDE DEF mem
    <3> QED BY <2>3, Zenon DEF parentRow
  <2>5. vector[t + 1].regs = fnvHash(vector[t].regs, page(dataset, parentRow(hash, pages, mem, t)))
    <3>1. vector[t + 1] = inRegisters(hash, pages, dataset, vector[t], t)
      BY <1>2, <2>2
    <3>2. inRegisters(hash, pages, dataset, vector[t], t)
            = [mem |-> mem, regs |-> fnvHash(vector[t].regs,
                                             page(dataset, parentRow(hash, pages, mem, t)))]
      BY Zenon DEF inRegisters
    <3> HIDE DEF mem
    <3> QED BY <3>1, <3>2
  <2> HIDE DEF mem
  <2> QED BY <1>1, <2>2, <2>4, <2>5
<1>5. loopAccesses \in S
  <2> HIDE DEF S
  <2> QED BY <1>3, <1>4, Induction, WidthTypes
<1>6. vector[loopAccesses].regs = plain[loopAccesses]
  BY <1>5, WidthTypes
<1> QED BY <1>6, Zenon DEF hashimoto_avx, hashimoto, plain, vector, pages
-----------------------------------------------------------------------------
(***************************************************************************)
(* FlattenSeq() concatenates what has one length, and slices of the result *)
(* are what it was made of.                                                *)
(***************************************************************************)
LEMMA Flat ==
  ASSUME NEW T, NEW length \in Nat, NEW t \in Nat, NEW seqs \in [1..t -> [1..length -> T]]
  PROVE  isJoined(FlattenSeq(seqs), seqs, T, length, t)
<1>1. Len(seqs) = t
  OBVIOUS
<1>2. CASE t = 0
  <2>1. FlattenSeq(seqs) = seqs /\ t * length = 0
    BY <1>1, <1>2 DEF FlattenSeq
  <2>2. seqs \in [1..0 -> T]
    BY <1>2
  <2> QED BY <1>2, <2>1, <2>2 DEF isJoined
<1>3. CASE t # 0
  <2> DEFINE flatten[i \in 1..Len(seqs)] == IF i = 1 THEN seqs[i] ELSE flatten[i - 1] \o seqs[i]
  <2>1. FlattenSeq(seqs) = flatten[t]
    <3>1. Len(seqs) # 0
      BY <1>1, <1>3
    <3>2. FlattenSeq(seqs) = flatten[Len(seqs)]
      BY <3>1, Zenon DEF FlattenSeq
    <3> QED BY <1>1, <3>2
  <2>2. \E f : Joins(f, seqs, Len(seqs))
    BY <1>1, JoinExists
  <2>3. Joins(flatten, seqs, Len(seqs))
    BY <2>2, Zenon DEF Joins
  <2> HIDE DEF flatten
  <2>4. Joins(flatten, seqs, t) /\ t \in 1..t
    BY <1>1, <1>3, <2>3
  <2>5. isJoined(flatten[t], seqs, T, length, t)
    BY <2>4, JoinOf
  <2> QED BY <2>1, <2>5
<1> QED BY <1>2, <1>3

LEMMA SliceIs ==
  ASSUME NEW T, NEW m \in Nat, NEW n \in Nat, NEW s, \A i \in 1..n : s[m + i] \in T
  PROVE  SubSeq(s, m + 1, m + n) = [i \in 1..n |-> s[m + i]]
<1> DEFINE sub == SubSeq(s, m + 1, m + n)
<1>1. /\ sub \in Seq(T)
      /\ Len(sub) = IF m + 1 <= m + n THEN (m + n) - (m + 1) + 1 ELSE 0
      /\ \A i \in 1..(m + n) - (m + 1) + 1 : sub[i] = s[(m + 1) + i - 1]
  <2>1. \A i \in (m + 1)..(m + n) : s[i] \in T
    <3> TAKE i \in (m + 1)..(m + n)
    <3>1. i - m \in 1..n /\ m + (i - m) = i
      OBVIOUS
    <3> QED BY <3>1
  <2> QED BY <2>1, SubSeqProperties
<1>2. (m + n) - (m + 1) + 1 = n /\ \A i \in 1..n : (m + 1) + i - 1 = m + i
  OBVIOUS
<1> HIDE DEF sub
<1>3. Len(sub) = n
  BY <1>1, <1>2
<1>4. sub = [i \in 1..n |-> sub[i]]
  BY <1>1, <1>3
<1>5. \A i \in 1..n : sub[i] = s[m + i]
  BY <1>1, <1>2
<1> QED BY <1>4, <1>5, Zenon DEF sub

LEMMA ItemAt ==
  ASSUME NEW t \in Nat, NEW items \in [1..t -> Hash], NEW s,
         isJoined(s, items, Uint32, hashWords, t), NEW p \in 0..t - 1
  PROVE  SubSeq(s, p * hashWords + 1, p * hashWords + hashWords) = items[p + 1]
<1>1. items[p + 1] \in [1..hashWords -> Uint32]
  BY DEF Hash, Words
<1>2. PICK m \in Nat : m = p * hashWords
  BY WidthTypes
<1>3. \A i \in 1..hashWords : s[m + i] = items[p + 1][i] /\ s[m + i] \in Uint32
  BY <1>1, <1>2 DEF isJoined
<1>4. SubSeq(s, m + 1, m + hashWords) = [i \in 1..hashWords |-> s[m + i]]
  BY <1>3, SliceIs, WidthTypes
<1>5. items[p + 1] = [i \in 1..hashWords |-> items[p + 1][i]]
  BY <1>1
<1> QED BY <1>2, <1>3, <1>4, <1>5

LEMMA TwoHashes ==
  ASSUME NEW a \in Hash, NEW b \in Hash
  PROVE  /\ a \o b \in Words(mixWords)
         /\ a \o b = [i \in 1..mixWords |-> IF i <= hashWords THEN a[i] ELSE b[i - hashWords]]
<1>1. /\ a \in Seq(Uint32) /\ b \in Seq(Uint32) /\ Len(a) = hashWords /\ Len(b) = hashWords
  BY WidthTypes DEF Hash, Words
<1>2. /\ a \o b \in Seq(Uint32) /\ Len(a \o b) = mixWords
      /\ \A i \in 1..mixWords : (a \o b)[i] = IF i <= hashWords THEN a[i] ELSE b[i - hashWords]
  <2>1. /\ a \o b \in Seq(Uint32) /\ Len(a \o b) = Len(a) + Len(b)
        /\ \A i \in 1..Len(a) + Len(b) :
             (a \o b)[i] = IF i <= Len(a) THEN a[i] ELSE b[i - Len(a)]
    BY <1>1, ConcatProperties
  <2>2. Len(a) + Len(b) = mixWords
    BY <1>1, WidthTypes
  <2> QED BY <1>1, <2>1, <2>2
<1> DEFINE ab == a \o b
<1>3. ab \in [1..mixWords -> Uint32]
  <2>1. ab \in Seq(Uint32) /\ Len(ab) = mixWords
    BY <1>2
  <2> HIDE DEF ab
  <2>2. ab \in [1..Len(ab) -> Uint32]
    BY <2>1
  <2> QED BY <2>1, <2>2
<1> HIDE DEF ab
<1>4. ab = [i \in 1..mixWords |-> IF i <= hashWords THEN a[i] ELSE b[i - hashWords]]
  <2>1. ab = [i \in 1..mixWords |-> ab[i]]
    BY <1>3
  <2> QED BY <1>2, <2>1, Zenon DEF ab
<1> QED BY <1>3, <1>4 DEF ab, Words

LEMMA PageAt ==
  ASSUME NEW t \in Nat, NEW items \in [1..t -> Hash], NEW s,
         isJoined(s, items, Uint32, hashWords, t), NEW p \in Nat, 2 * p + 1 <= t - 1
  PROVE  page(s, p) = items[2 * p + 1] \o items[2 * p + 2]
<1>1. items[2 * p + 1] \in Hash /\ items[2 * p + 2] \in Hash
  BY DEF Hash
<1>2. /\ \A i \in 1..hashWords : items[2 * p + 1][i] \in Uint32
      /\ \A i \in 1..hashWords : items[2 * p + 2][i] \in Uint32
  BY <1>1 DEF Hash, Words
<1>3. PICK m \in Nat : m = (2 * p) * hashWords
  BY WidthTypes
<1>4. /\ p * mixWords = m /\ (p + 1) * mixWords = m + mixWords
      /\ (2 * p + 1) * hashWords = m + hashWords
  BY <1>3, WidthTypes
<1>5. \A i \in 1..hashWords : s[m + i] = items[2 * p + 1][i]
  BY <1>3 DEF isJoined
<1>6. \A i \in 1..hashWords : s[(m + hashWords) + i] = items[2 * p + 2][i]
  <2>1. 2 * p + 1 \in 0..t - 1 /\ (2 * p + 1) + 1 = 2 * p + 2
    OBVIOUS
  <2> QED BY <1>4, <2>1 DEF isJoined
<1>7. ASSUME NEW i \in 1..mixWords
      PROVE  /\ s[m + i] = IF i <= hashWords THEN items[2 * p + 1][i]
                                            ELSE items[2 * p + 2][i - hashWords]
             /\ s[m + i] \in Uint32
  <2>1. CASE i <= hashWords
    <3>1. i \in 1..hashWords
      BY <2>1, WidthTypes
    <3> QED BY <1>2, <1>5, <2>1, <3>1
  <2>2. CASE ~(i <= hashWords)
    <3>1. i - hashWords \in 1..hashWords /\ m + i = (m + hashWords) + (i - hashWords)
      BY <2>2, WidthTypes
    <3> QED BY <1>2, <1>6, <2>2, <3>1
  <2> QED BY <2>1, <2>2
<1>8. SubSeq(s, m + 1, m + mixWords) = [i \in 1..mixWords |-> s[m + i]]
  BY <1>7, SliceIs, WidthTypes
<1>9. items[2 * p + 1] \o items[2 * p + 2]
        = [i \in 1..mixWords |-> IF i <= hashWords THEN items[2 * p + 1][i]
                                                  ELSE items[2 * p + 2][i - hashWords]]
  BY <1>1, TwoHashes
<1>10. page(s, p) = SubSeq(s, m + 1, m + mixWords)
  BY <1>4 DEF page
<1> QED BY <1>7, <1>8, <1>9, <1>10, Zenon

(***************************************************************************)
(* A hash that looks up pages of a dataset is the hash that looks up the   *)
(* items it is made of, two to a page, and it does not panic.              *)
(***************************************************************************)
LEMMA ReplicatedIs == ASSUME NEW hash \in Hash PROVE replicated(hash) \in Words(mixWords)
<1>1. \A i \in 1..mixWords : ((i - 1) % hashWords) + 1 \in 1..hashWords
  BY WidthTypes
<1> QED BY <1>1 DEF replicated, Hash, Words

LEMMA ParentRowIs ==
  ASSUME NEW hash \in Hash, NEW pages \in Nat \ {0}, NEW mix \in Words(mixWords),
         NEW t \in 0..loopAccesses - 1
  PROVE  parentRow(hash, pages, mix, t) \in 0..pages - 1
<1>1. (t % mixWords) + 1 \in 1..mixWords /\ t \in Uint32 /\ 1 \in 1..hashWords
  BY WidthTypes
<1>2. mix[(t % mixWords) + 1] \in Uint32 /\ hash[1] \in Uint32
  BY <1>1 DEF Hash, Words
<1>3. fnv(xor(t, hash[1]), mix[(t % mixWords) + 1]) \in Nat
  BY <1>1, <1>2, WordXor, FnvType, WordIsNumber
<1> QED BY <1>3 DEF parentRow

LEMMA LookupsAgree ==
  ASSUME NEW hash \in Hash, NEW pages \in Nat \ {0}, NEW t \in Nat, 2 * pages <= t,
         NEW items \in [1..t -> Hash], NEW dataset,
         isJoined(dataset, items, Uint32, hashWords, t), NEW lookup,
         \A p \in 0..t - 1 : lookup[p] = items[p + 1]
  PROVE  /\ accessLoop(hash, pages, lookup)[loopAccesses]
              = plainLoop(hash, pages, dataset)[loopAccesses]
         /\ accessLoop(hash, pages, lookup)[loopAccesses] # Panic
<1> DEFINE plain == plainLoop(hash, pages, dataset)
           loop  == accessLoop(hash, pages, lookup)
           S == {n \in Nat : n <= loopAccesses => loop[n] = plain[n] /\ loop[n] \in Words(mixWords)}
<1>1. /\ plain[0] = replicated(hash)
      /\ \A n \in 0..loopAccesses - 1 :
           plain[n + 1] = fnvHash(plain[n], page(dataset, parentRow(hash, pages, plain[n], n)))
  BY PlainLoopDef
<1>2. /\ loop[0] = replicated(hash)
      /\ \A n \in 0..loopAccesses - 1 : loop[n + 1] = looked(hash, pages, lookup, loop[n], n)
  BY AccessesDef
<1> HIDE DEF plain, loop
<1>3. 0 \in S
  BY <1>1, <1>2, ReplicatedIs
<1>4. ASSUME NEW n \in Nat, n \in S PROVE n + 1 \in S
  <2>1. SUFFICES ASSUME n + 1 <= loopAccesses
                 PROVE  loop[n + 1] = plain[n + 1] /\ loop[n + 1] \in Words(mixWords)
    OBVIOUS
  <2>2. n \in 0..loopAccesses - 1 /\ loop[n] = plain[n] /\ loop[n] \in Words(mixWords)
    BY <1>4, <2>1, WidthTypes
  <2>3. PICK p \in 0..pages - 1 : p = parentRow(hash, pages, loop[n], n)
    BY <2>2, ParentRowIs
  <2>4. /\ p \in Nat /\ 2 * p + 1 <= t - 1 /\ 2 * p \in 0..t - 1 /\ 2 * p + 1 \in 0..t - 1
        /\ (2 * p + 1) + 1 = 2 * p + 2
    BY <2>3
  <2>5. /\ lookup[2 * p] = items[2 * p + 1] /\ lookup[2 * p + 1] = items[2 * p + 2]
        /\ items[2 * p + 1] \in Hash /\ items[2 * p + 2] \in Hash
    BY <2>4
  <2>6. page(dataset, p) = items[2 * p + 1] \o items[2 * p + 2]
    BY <2>4, PageAt
  <2>7. page(dataset, p) \in Words(mixWords)
    BY <2>5, <2>6, TwoHashes
  <2>8. loop[n] # Panic /\ items[2 * p + 1] # Panic /\ items[2 * p + 2] # Panic
    BY <2>2, <2>5, EthashAssumption
  <2>9. looked(hash, pages, lookup, loop[n], n)
          = fnvHash(loop[n], items[2 * p + 1] \o items[2 * p + 2])
    <3>1. Panic \notin {lookup[2 * p], lookup[2 * p + 1]}
      BY <2>5, <2>8
    <3>2. looked(hash, pages, lookup, loop[n], n)
            = fnvHash(loop[n], lookup[2 * p] \o lookup[2 * p + 1])
      BY <2>3, <2>8, <3>1, Zenon DEF looked
    <3> QED BY <2>5, <3>2
  <2>10. loop[n + 1] = fnvHash(loop[n], page(dataset, p))
    BY <1>2, <2>2, <2>6, <2>9
  <2>11. plain[n + 1] = fnvHash(loop[n], page(dataset, p))
    BY <1>1, <2>2, <2>3
  <2>12. fnvHash(loop[n], page(dataset, p)) \in Words(mixWords)
    BY <2>2, <2>7, FnvHashIs, WidthTypes
  <2> QED BY <2>10, <2>11, <2>12
<1>5. loopAccesses \in S
  <2> HIDE DEF S
  <2> QED BY <1>3, <1>4, Induction, WidthTypes
<1>6. loop[loopAccesses] = plain[loopAccesses] /\ loop[loopAccesses] \in Words(mixWords)
  BY <1>5, WidthTypes
<1>7. loop[loopAccesses] # Panic
  BY <1>6, EthashAssumption
<1> QED BY <1>6, <1>7 DEF loop, plain
-----------------------------------------------------------------------------
(***************************************************************************)
(* The dataset of a cache, of n rows.                                      *)
(***************************************************************************)
itemsOf(c, size)   == [i \in 1..size \div hashBytes |-> generateDatasetItem(c, i - 1)]
datasetOf(c, size) == FlattenSeq(itemsOf(c, size))

LEMMA SizeIs ==
  ASSUME NEW n \in Nat \ {0}, NEW size, size = n * mixBytes
  PROVE  /\ size \div hashBytes = 2 * n /\ size \div mixBytes = n
         /\ indicesOf(size) = 0..(2 * n) - 1
         /\ size \div 4 = (2 * n) * hashWords /\ ((2 * n) * hashWords) * 4 = size
<1>1. PICK b \in Nat \ {0} : b = hashBytes /\ mixBytes = 2 * b
  BY WidthTypes
<1>2. size = (2 * n) * b
  BY <1>1
<1>3. size \div hashBytes = 2 * n
  <2>1. ((2 * n) * b) \div b = 2 * n
    BY DivOfProduct
  <2> QED BY <1>1, <1>2, <2>1
<1>4. size \div mixBytes = n
  BY WidthTypes, DivOfProduct
<1>5. PICK m \in Nat : m = (2 * n) * hashWords
  BY WidthTypes
<1>6. m * 4 = size
  <2>1. ((2 * n) * hashWords) * 4 = (2 * n) * (4 * hashWords)
    BY WidthTypes
  <2> QED BY <1>1, <1>2, <1>5, <2>1 DEF hashBytes
<1>7. (m * 4) \div 4 = m
  OBVIOUS
<1> QED BY <1>3, <1>4, <1>5, <1>6, <1>7 DEF indicesOf

LEMMA DatasetIs ==
  ASSUME NEW c, isCache(c), NEW n \in Nat \ {0}, 2 * n <= 2 ^ UintBits,
         NEW size, size = n * mixBytes
  PROVE  /\ itemsOf(c, size) \in [1..2 * n -> Hash]
         /\ isJoined(datasetOf(c, size), itemsOf(c, size), Uint32, hashWords, 2 * n)
         /\ \A p \in 0..(2 * n) - 1 : itemsOf(c, size)[p + 1] = generateDatasetItem(c, p)
<1>1. PICK w \in Nat : w = 2 ^ UintBits /\ 2 * n <= w
  BY EthashAssumption, PowersPositive
<1>2. \A i \in 1..2 * n : i - 1 \in Uint32
  BY <1>1 DEF Uint32
<1>3. \A i \in 1..2 * n : generateDatasetItem(c, i - 1) \in Hash
  BY <1>2, ItemIsHash
<1>4. itemsOf(c, size) = [i \in 1..2 * n |-> generateDatasetItem(c, i - 1)]
  BY SizeIs DEF itemsOf
<1>5. itemsOf(c, size) \in [1..2 * n -> Hash]
  BY <1>3, <1>4
<1>6. itemsOf(c, size) \in [1..2 * n -> [1..hashWords -> Uint32]]
  BY <1>5 DEF Hash, Words
<1>7. isJoined(datasetOf(c, size), itemsOf(c, size), Uint32, hashWords, 2 * n)
  BY <1>6, Flat, WidthTypes DEF datasetOf
<1>8. \A p \in 0..(2 * n) - 1 : p + 1 \in 1..2 * n /\ (p + 1) - 1 = p
  OBVIOUS
<1> QED BY <1>4, <1>5, <1>7, <1>8

(***************************************************************************)
(* The hash of the program in C, over the dataset in memory, is the light  *)
(* one in Go that has only the cache: for datasets of all sizes.           *)
(***************************************************************************)
THEOREM PlainIsLight ==
  ASSUME NEW c, isCache(c), NEW n \in Nat \ {0}, 2 * n <= 2 ^ UintBits,
         NEW size, size = n * mixBytes, NEW hash \in Hash
  PROVE  hashimoto(hash, size, datasetOf(c, size)) = hashimotoLight(size, c, hash)
<1> DEFINE lookup == [index \in indicesOf(size) |-> generateDatasetItem(c, index)]
           mix    == accessLoop(hash, n, lookup)[loopAccesses]
<1>1. \A p \in 0..(2 * n) - 1 : lookup[p] = itemsOf(c, size)[p + 1]
  <2>1. indicesOf(size) = 0..(2 * n) - 1
    BY SizeIs
  <2>2. \A p \in 0..(2 * n) - 1 : itemsOf(c, size)[p + 1] = generateDatasetItem(c, p)
    BY DatasetIs
  <2> QED BY <2>1, <2>2
<1>2. /\ mix = plainLoop(hash, n, datasetOf(c, size))[loopAccesses]
      /\ mix # Panic
  <2>1. 2 * n \in Nat
    OBVIOUS
  <2> HIDE DEF lookup
  <2> QED BY <1>1, <2>1, DatasetIs, LookupsAgree
<1>3. size \div mixBytes = n
  BY SizeIs
<1>4. hashimotoLight(size, c, hash) = IF mix = Panic THEN Panic ELSE compressed(mix)
  <2>1. hashimotoLight(size, c, hash) = hashimotoEx(hash, size, lookup)
    BY Zenon DEF hashimotoLight
  <2> HIDE DEF lookup
  <2> QED BY <1>3, <2>1, Zenon DEF hashimotoEx
<1>5. hashimoto(hash, size, datasetOf(c, size))
        = compressed(plainLoop(hash, n, datasetOf(c, size))[loopAccesses])
  BY <1>3, Zenon DEF hashimoto
<1> HIDE DEF mix
<1> QED BY <1>2, <1>4, <1>5

(***************************************************************************)
(* So is the full one in Go, as long as no offset into the dataset, nor    *)
(* the end of a slice, wraps.                                              *)
(***************************************************************************)
THEOREM FullIsLight ==
  ASSUME NEW c, isCache(c), NEW n \in Nat \ {0}, 2 * n <= 2 ^ UintBits,
         NEW size, size = n * mixBytes, NEW hash \in Hash, Offsets(size)
  PROVE  hashimotoFull(datasetOf(c, size), hash) = hashimotoLight(size, c, hash)
<1> DEFINE dataset == datasetOf(c, size)
           items   == itemsOf(c, size)
           length  == (2 * n) * hashWords
           offset(index) == uint32(index * hashWords)
           end(index)    == uint32(offset(index) + hashWords)
           found(index)  == IF offset(index) > end(index) THEN Panic
                            ELSE SubSeq(dataset, offset(index) + 1, end(index))
           full    == [index \in indicesOf(size) |-> found(index)]
           light   == [index \in indicesOf(size) |-> generateDatasetItem(c, index)]
<1>1. /\ items \in [1..2 * n -> Hash]
      /\ isJoined(dataset, items, Uint32, hashWords, 2 * n)
      /\ \A p \in 0..(2 * n) - 1 : items[p + 1] = generateDatasetItem(c, p)
  BY DatasetIs
<1>2. length \in Nat /\ length * 4 = size /\ size \div 4 = length
  <2>1. length * 4 = size /\ size \div 4 = length
    BY SizeIs
  <2>2. length \in Nat
    <3>1. 2 * n \in Nat
      OBVIOUS
    <3> QED BY <3>1, WidthTypes
  <2> QED BY <2>1, <2>2
<1>3. Len(dataset) = length
  <2>1. dataset \in [1..length -> Uint32]
    BY <1>1 DEF isJoined
  <2> HIDE DEF dataset, length
  <2> QED BY <1>2, <2>1
<1>4. PICK w \in Nat : w = 2 ^ UintBits /\ length < w
  <2>1. 2 ^ UintBits \in Nat
    BY EthashAssumption, PowersPositive
  <2> HIDE DEF length
  <2> QED BY <1>2, <2>1 DEF Offsets
<1>5. ASSUME NEW index \in 0..(2 * n) - 1 PROVE found(index) = generateDatasetItem(c, index)
  <2>1. PICK m \in Nat : m = index * hashWords /\ m + hashWords <= length
    <3>1. index + 1 \in Nat /\ index + 1 <= 2 * n /\ index \in Nat /\ 2 * n \in Nat
      OBVIOUS
    <3>2. (index + 1) * hashWords <= (2 * n) * hashWords
      BY <3>1, WidthTypes, MulMono
    <3>3. (index + 1) * hashWords = index * hashWords + hashWords
      BY WidthTypes
    <3> QED BY <3>1, <3>2, <3>3, WidthTypes
  <2>2. m < w /\ m + hashWords < w /\ m + hashWords \in Nat /\ ~(m > m + hashWords)
    <3> HIDE DEF length
    <3> QED BY <1>2, <1>4, <2>1, WidthTypes
  <2>3. offset(index) = m
    BY <1>4, <2>1, <2>2, Truncated
  <2>4. end(index) = m + hashWords
    <3> HIDE DEF offset
    <3> QED BY <1>4, <2>2, <2>3, Truncated
  <2>5. found(index) = SubSeq(dataset, m + 1, m + hashWords)
    <3> HIDE DEF dataset, offset, end
    <3> QED BY <2>2, <2>3, <2>4
  <2>6. SubSeq(dataset, m + 1, m + hashWords) = items[index + 1]
    <3>1. 2 * n \in Nat
      OBVIOUS
    <3> HIDE DEF dataset, items
    <3>2. SubSeq(dataset, index * hashWords + 1, index * hashWords + hashWords)
            = items[index + 1]
      BY <1>1, <3>1, ItemAt
    <3> QED BY <2>1, <3>2
  <2> HIDE DEF found, dataset, items
  <2> QED BY <1>1, <2>5, <2>6
<1>6. full = light
  <2>1. indicesOf(size) = 0..(2 * n) - 1
    BY SizeIs
  <2> HIDE DEF found
  <2> QED BY <1>5, <2>1, Zenon
<1>7. hashimotoFull(dataset, hash) = hashimotoEx(hash, size, full)
  <2>1. Len(dataset) * 4 = size
    <3> HIDE DEF dataset, length
    <3> QED BY <1>2, <1>3
  <2> HIDE DEF dataset
  <2> QED BY <2>1, Zenon DEF hashimotoFull
<1>8. hashimotoLight(size, c, hash) = hashimotoEx(hash, size, light)
  BY Zenon DEF hashimotoLight
<1> HIDE DEF full, light, dataset
<1>9. hashimotoFull(dataset, hash) = hashimotoLight(size, c, hash)
  BY <1>6, <1>7, <1>8
<1> QED BY <1>9 DEF dataset

(***************************************************************************)
(* What the programs print of a cache of two rows or more: the last hash   *)
(* looks up the rows of the cache themselves.                              *)
(***************************************************************************)
THEOREM ChecksAgree ==
  ASSUME NEW t \in Nat, t > 1, NEW c \in [1..t -> Hash], NEW index \in Uint32,
         NEW initHash \in Hash
  PROVE  simple_verify(c, index, initHash) = selfCheck(c, index, initHash)
<1> DEFINE item   == generateDatasetItem(c, index)
           lookup == [i \in 0..Len(c) - 1 |-> c[i + 1]]
           size   == 4 * hashWords * Len(c)
           pages  == size \div mixBytes
           mix    == accessLoop(initHash, pages, lookup)[loopAccesses]
<1>1. isCache(c) /\ Len(c) = t
  BY DEF isCache
<1>2. calculate_dataset_item(c, index) = item /\ item \in Hash
  BY <1>1, ItemsAgree, ItemIsHash
<1>3. calculate_mask_data(c, index, item) = generateMaskItem(c, index, item)
  <2> HIDE DEF item
  <2> QED BY <1>1, <1>2, MasksAgree
<1>4. pages \in Nat \ {0} /\ 2 * pages <= t
  <2>1. PICK b \in Nat \ {0} : b = hashBytes /\ mixBytes = 2 * b
    BY WidthTypes
  <2>2. size = t * b
    <3>1. b = 4 * hashWords
      BY <2>1 DEF hashBytes
    <3> QED BY <1>1, <3>1, WidthTypes
  <2> HIDE DEF size
  <2>3. t * b \in Nat /\ 2 * b \in Nat \ {0}
    BY <2>1
  <2>4. pages \in Nat /\ pages * (2 * b) <= t * b /\ t * b < pages * (2 * b) + 2 * b
    BY <2>1, <2>2, <2>3, DivDef
  <2> HIDE DEF pages
  <2>5. PICK q \in Nat : q = 2 * pages
    BY <2>4
  <2>6. pages * (2 * b) = q * b
    BY <2>4, <2>5
  <2>7. q <= t
    <3>1. SUFFICES ASSUME t + 1 <= q PROVE FALSE
      OBVIOUS
    <3>2. (t + 1) * b <= q * b
      BY <3>1, MulMono
    <3>3. (t + 1) * b = t * b + b
      OBVIOUS
    <3> QED BY <2>3, <2>4, <2>6, <3>2, <3>3
  <2>8. pages # 0
    <3>1. SUFFICES ASSUME pages = 0 PROVE FALSE
      OBVIOUS
    <3>2. t * b < 2 * b
      BY <2>4, <3>1
    <3>3. 2 * b <= t * b
      BY MulMono
    <3> QED BY <2>3, <3>2, <3>3
  <2> QED BY <2>4, <2>5, <2>7, <2>8
<1>5. isJoined(FlattenSeq(c), c, Uint32, hashWords, t)
  BY Flat, WidthTypes DEF Hash, Words
<1>6. \A p \in 0..t - 1 : lookup[p] = c[p + 1]
  BY <1>1
<1>7. mix = plainLoop(initHash, pages, FlattenSeq(c))[loopAccesses] /\ mix # Panic
  <2> HIDE DEF lookup, pages
  <2> QED BY <1>4, <1>5, <1>6, LookupsAgree
<1>8. hashimoto(initHash, size, FlattenSeq(c)) = hashimotoEx(initHash, size, lookup)
  <2>1. hashimoto(initHash, size, FlattenSeq(c))
          = compressed(plainLoop(initHash, pages, FlattenSeq(c))[loopAccesses])
    <3> HIDE DEF size
    <3> QED BY Zenon DEF hashimoto
  <2>2. hashimotoEx(initHash, size, lookup) = IF mix = Panic THEN Panic ELSE compressed(mix)
    <3> HIDE DEF size, lookup
    <3> QED BY Zenon DEF hashimotoEx
  <2> HIDE DEF mix, lookup, pages, size
  <2> QED BY <1>7, <2>1, <2>2
<1>9. simple_verify(c, index, initHash)
        = [item |-> item, mask |-> generateMaskItem(c, index, item),
           hashimotoMask |-> hashimotoEx(initHash, size, lookup)]
  <2>1. simple_verify(c, index, initHash)
          = [item |-> calculate_dataset_item(c, index),
             mask |-> calculate_mask_data(c, index, calculate_dataset_item(c, index)),
             hashimotoMask |-> hashimoto(initHash, size, FlattenSeq(c))]
    BY Zenon DEF simple_verify
  <2> HIDE DEF item, lookup, size
  <2> QED BY <1>2, <1>3, <1>8, <2>1
<1>10. selfCheck(c, index, initHash)
         = [item |-> item, mask |-> generateMaskItem(c, index, item),
            hashimotoMask |-> hashimotoEx(initHash, size, lookup)]
  BY Zenon DEF selfCheck
<1> QED BY <1>9, <1>10
-----------------------------------------------------------------------------
(***************************************************************************)
(* generateCache(), step by step: the cache is what the loops of the       *)
(* program in C have made after as many turns.                             *)
(***************************************************************************)
CacheInv ==
  /\ rows \in RowCounts /\ seed \in Seeds
  /\ cache \in Seq(Hash) /\ Len(cache) \in 0..rows
  /\ rehashed \in 0..cacheRounds * rows
  /\ Len(cache) < rows => rehashed = 0 /\ cache = chainLoop(rows, seed)[Len(cache)]
  /\ Len(cache) = rows => cache = roundLoop(rows, seed)[rehashed]

LEMMA RowsIs ==
  ASSUME CacheInv
  PROVE  /\ rows \in Nat \ {0} /\ rows \in Uint32 /\ seed \in Hash
         /\ cacheRounds \in Nat \ {0} /\ cacheRounds * rows \in Nat
<1>1. rows \in Uint32 \ {0} /\ seed \in Hash /\ cacheRounds \in Nat \ {0}
  BY CacheAssumption DEF CacheInv
<1> QED BY <1>1, WordIsNumber

LEMMA CacheInit == GCInit => CacheInv
<1>1. SUFFICES ASSUME GCInit PROVE CacheInv
  OBVIOUS
<1>2. rows \in Uint32 \ {0} /\ rows \in Nat \ {0} /\ cacheRounds * rows \in Nat
  <2>1. rows \in Uint32 \ {0}
    BY <1>1, CacheAssumption DEF GCInit
  <2> QED BY <2>1, WordIsNumber, CacheAssumption
<1>3. cache = << >> /\ Len(cache) = 0 /\ cache \in Seq(Hash) /\ rehashed = 0
  BY <1>1 DEF GCInit
<1>4. cache = chainLoop(rows, seed)[0]
  BY <1>2, <1>3, ChainLoopDef
<1> QED BY <1>1, <1>2, <1>3, <1>4 DEF GCInit, CacheInv

LEMMA FillCache == CacheInv /\ Fill => CacheInv'
<1>1. SUFFICES ASSUME CacheInv, Fill PROVE CacheInv'
  OBVIOUS
<1>2. rows \in Nat \ {0} /\ seed \in Hash /\ cacheRounds * rows \in Nat
  BY <1>1, RowsIs
<1> DEFINE l    == Len(cache)
           next == keccak512(IF cache = << >> THEN seed ELSE cache[l])
<1>3. /\ cache \in Seq(Hash) /\ l \in 0..rows - 1 /\ rehashed = 0
      /\ cache = chainLoop(rows, seed)[l]
      /\ cache' = Append(cache, next) /\ rehashed' = 0 /\ rows' = rows /\ seed' = seed
  BY <1>1, <1>2 DEF CacheInv, Fill
<1>4. next \in Hash
  <2>1. cache # << >> => cache[l] \in Hash
    BY <1>3
  <2> QED BY <1>2, <2>1, KeccakAssumption
<1>5. next = keccak512(IF l = 0 THEN seed ELSE cache[l])
  <2>1. cache = << >> <=> l = 0
    BY <1>3
  <2> QED BY <2>1
<1> HIDE DEF next
<1>6. cache' \in Seq(Hash) /\ Len(cache') = l + 1 /\ l + 1 \in 0..rows
  BY <1>2, <1>3, <1>4
<1>7. cache' = chainLoop(rows, seed)[l + 1]
  <2>1. chainLoop(rows, seed)[l + 1]
          = Append(chainLoop(rows, seed)[l],
                   keccak512(IF l = 0 THEN seed ELSE chainLoop(rows, seed)[l][l]))
    BY <1>2, <1>3, ChainLoopDef
  <2> HIDE DEF l
  <2> QED BY <1>3, <1>5, <2>1
<1>8. l + 1 = rows => cache' = roundLoop(rows, seed)[0]
  <2>1. roundLoop(rows, seed)[0] = chainLoop(rows, seed)[rows]
    BY <1>2, RoundLoopDef
  <2> QED BY <1>7, <2>1
<1>9. rows' \in RowCounts /\ seed' \in Seeds
  BY <1>1, <1>3 DEF CacheInv
<1> HIDE DEF l
<1> QED BY <1>2, <1>3, <1>6, <1>7, <1>8, <1>9 DEF CacheInv

LEMMA XorRowIs ==
  ASSUME NEW n \in Nat, NEW m \in Nat \ {0}
  PROVE  xorRow(n, m) \in 0..m - 1
<1> DEFINE chosen == n % m
           offset == chosen * hashBytes
<1>1. chosen \in 0..m - 1 /\ chosen \in Nat
  OBVIOUS
<1>2. PICK w \in Nat \ {0} : w = 2 ^ OffsetBits
  BY EthashAssumption, PowersPositive
<1> HIDE DEF chosen
<1>3. offset \in Nat
  BY <1>1, WidthTypes
<1>4. offset \div hashBytes = chosen
  BY <1>1, WidthTypes, DivOfProduct
<1> HIDE DEF offset
<1>5. offset % w \in Nat /\ offset % w <= offset
  <2>1. offset \div w \in Nat /\ offset % w \in 0..w - 1 /\ offset = (offset \div w) * w + (offset % w)
    BY <1>2, <1>3, RemainderIs
  <2>2. (offset \div w) * w \in Nat
    BY <1>2, <2>1
  <2> QED BY <2>1, <2>2, <1>2
<1>6. (offset % w) \div hashBytes \in Nat /\ (offset % w) \div hashBytes <= chosen
  BY <1>3, <1>4, <1>5, WidthTypes, DivMono, DivDef
<1>7. xorRow(n, m) = (offset % w) \div hashBytes
  BY <1>2 DEF xorRow, offset, chosen
<1> QED BY <1>1, <1>6, <1>7

LEMMA RehashCache == CacheInv /\ Rehash => CacheInv'
<1>1. SUFFICES ASSUME CacheInv, Rehash PROVE CacheInv'
  OBVIOUS
<1>2. rows \in Nat \ {0} /\ cacheRounds * rows \in Nat
  BY <1>1, RowsIs
<1> DEFINE j      == rehashed % rows
           before == cache[((j - 1 + rows) % rows) + 1]
           r      == xorRow(cache[j + 1][1], rows)
           chosen == cache[r + 1]
<1>3. /\ cache \in Seq(Hash) /\ Len(cache) = rows
      /\ rehashed \in 0..cacheRounds * rows - 1 /\ rehashed \in Nat
      /\ cache = roundLoop(rows, seed)[rehashed]
      /\ cache' = [cache EXCEPT ![j + 1] = rehash(j)]
      /\ rehashed' = rehashed + 1 /\ rows' = rows /\ seed' = seed
  BY <1>1, <1>2 DEF CacheInv, Rehash
<1>4. j \in 0..rows - 1 /\ j % rows = j /\ j + 1 \in 1..rows
  <2>1. j \in 0..rows - 1
    BY <1>2, <1>3, RemainderIs, Zenon
  <2> HIDE DEF j
  <2> QED BY <1>2, <2>1
<1>5. \A i \in 1..rows : cache[i] \in Hash
  BY <1>3
<1>6. before \in Hash /\ chosen \in Hash /\ cache[j + 1] \in Hash /\ r % rows = r
  <2> HIDE DEF j
  <2>1. j - 1 + rows \in Nat /\ ((j - 1 + rows) % rows) + 1 \in 1..rows
    BY <1>2, <1>4
  <2>2. cache[j + 1] \in Hash /\ cache[j + 1][1] \in Nat
    <3>1. cache[j + 1] \in Hash
      BY <1>4, <1>5
    <3>2. cache[j + 1][1] \in Uint32
      BY <3>1, WidthTypes DEF Hash, Words
    <3> QED BY <3>1, <3>2, WordIsNumber
  <2>3. r \in 0..rows - 1
    BY <1>2, <2>2, XorRowIs
  <2> HIDE DEF r
  <2>4. r + 1 \in 1..rows /\ r % rows = r
    BY <1>2, <2>3
  <2> QED BY <1>5, <2>1, <2>2, <2>4
<1>7. rehash(j) = keccak512(XORBytes(before, chosen))
  <2> HIDE DEF j
  <2>1. row(cache, j) = cache[j + 1]
    BY <1>3, <1>4 DEF row
  <2>2. row(cache, j - 1 + rows) = before
    BY <1>3 DEF row
  <2>3. row(cache, xorRow(row(cache, j)[1], rows)) = chosen
    <3>1. xorRow(row(cache, j)[1], rows) = r
      BY <2>1
    <3> HIDE DEF r
    <3> QED BY <1>3, <1>6, <3>1 DEF row
  <2> HIDE DEF before, chosen
  <2> QED BY <2>2, <2>3 DEF rehash
<1>8. XORBytes(before, chosen) = XORBytes(chosen, before) /\ XORBytes(before, chosen) \in Hash
  <2> HIDE DEF before, chosen
  <2> QED BY <1>6, XORBytesIs, WidthTypes DEF Hash
<1>9. cache' = rehashedRow(rows, cache, rehashed)
  <2>1. rehashedRow(rows, cache, rehashed)
          = [cache EXCEPT ![j + 1] = keccak512(XORBytes(chosen, before))]
    BY Zenon DEF rehashedRow
  <2> HIDE DEF before, chosen, r, j
  <2> QED BY <1>3, <1>7, <1>8, <2>1
<1>10. cache' = roundLoop(rows, seed)[rehashed + 1]
  <2>1. roundLoop(rows, seed)[rehashed + 1]
          = rehashedRow(rows, roundLoop(rows, seed)[rehashed], rehashed)
    BY <1>2, <1>3, RoundLoopDef
  <2> HIDE DEF j
  <2> QED BY <1>3, <1>9, <2>1
<1>11. cache' \in Seq(Hash) /\ Len(cache') = rows
  <2>1. rehash(j) \in Hash
    <3> HIDE DEF before, chosen, r, j
    <3> QED BY <1>7, <1>8, KeccakAssumption
  <2> HIDE DEF j
  <2> QED BY <1>3, <1>4, <2>1
<1>12. rows' \in RowCounts /\ seed' \in Seeds
  BY <1>1, <1>3 DEF CacheInv
<1> HIDE DEF j
<1> QED BY <1>2, <1>3, <1>10, <1>11, <1>12 DEF CacheInv

LEMMA CacheStep == CacheInv /\ [GCNext]_gcVars => CacheInv'
<1>1. SUFFICES ASSUME CacheInv, [GCNext]_gcVars PROVE CacheInv'
  OBVIOUS
<1>2. CASE Fill
  BY <1>1, <1>2, FillCache
<1>3. CASE Rehash
  BY <1>1, <1>3, RehashCache
<1>4. CASE Return \/ Report \/ End \/ UNCHANGED gcVars
  <2>1. UNCHANGED <<rows, seed, cache, rehashed>>
    BY <1>4 DEF Return, Report, End, gcVars
  <2> QED BY <1>1, <2>1 DEF CacheInv
<1> QED BY <1>1, <1>2, <1>3, <1>4 DEF GCNext

(***************************************************************************)
(* In every state the cache is as far as the loops of the program in C.    *)
(***************************************************************************)
THEOREM CacheIsAsInC == GCSpec => []CacheInv
BY CacheInit, CacheStep, PTL DEF GCSpec

LEMMA CompleteIs ==
  ASSUME CacheInv, generated
  PROVE  /\ rows \in Nat \ {0} /\ cache \in [1..rows -> Hash] /\ isCache(cache)
         /\ header \in Hash /\ cache = generate_cache(rows, seed)
<1>1. rows \in Nat \ {0} /\ seed \in Hash
  BY RowsIs
<1>2. /\ cache \in Seq(Hash) /\ Len(cache) = rows
      /\ cache = roundLoop(rows, seed)[cacheRounds * rows]
  BY <1>1 DEF CacheInv, generated
<1>3. cache \in [1..rows -> Hash]
  BY <1>1, <1>2
<1>4. isCache(cache)
  BY <1>1, <1>3 DEF isCache
<1>5. header \in Hash
  BY <1>1, KeccakAssumption DEF header
<1> QED BY <1>1, <1>2, <1>3, <1>4, <1>5, Zenon DEF generate_cache

LEMMA SizesAre ==
  ASSUME NEW size \in sizes
  PROVE  /\ \E n \in Nat \ {0} : size = n * mixBytes /\ 2 * n <= 2 ^ UintBits
         /\ indicesOf(size) \subseteq Uint32
<1>1. PICK n \in DatasetRows : size = n * mixBytes
  BY DEF sizes
<1>2. n \in Nat \ {0} /\ 2 * n <= 2 ^ UintBits
  BY <1>1, DatasetRowsAssumption
<1>3. indicesOf(size) = 0..(2 * n) - 1
  BY <1>1, <1>2, SizeIs
<1>4. PICK w \in Nat : w = 2 ^ UintBits
  BY EthashAssumption, PowersPositive
<1>5. indicesOf(size) \subseteq Uint32
  BY <1>2, <1>3, <1>4 DEF Uint32
<1> QED BY <1>1, <1>2, <1>5

LEMMA FlatIs == \A size \in sizes : flat(size) = datasetOf(cache, size)
BY Zenon DEF flat, datasetOf, itemsOf

(***************************************************************************)
(* Verifying with the cache alone is verifying with the whole dataset,     *)
(* whatever the hash function, the cache and the header.                   *)
(***************************************************************************)
THEOREM FullHashIsLight == GCSpec => []FullMatchesLight
<1>1. CacheInv => FullMatchesLight
  <2>1. SUFFICES ASSUME CacheInv, generated, NEW size \in sizes, Offsets(size)
                 PROVE  hashimotoFull(flat(size), header) = hashimotoLight(size, cache, header)
    BY Zenon DEF FullMatchesLight, Complete
  <2>2. isCache(cache) /\ header \in Hash
    BY <2>1, CompleteIs
  <2>3. PICK n \in Nat \ {0} : size = n * mixBytes /\ 2 * n <= 2 ^ UintBits
    BY SizesAre
  <2>4. hashimotoFull(datasetOf(cache, size), header) = hashimotoLight(size, cache, header)
    BY <2>1, <2>2, <2>3, FullIsLight
  <2> QED BY <2>4, FlatIs
<1> QED BY <1>1, CacheIsAsInC, PTL

(***************************************************************************)
(* The vectorized hash is the plain one, for all of the datasets.          *)
(***************************************************************************)
THEOREM AvxIsScalar == GCSpec => []AvxMatchesScalar
<1>1. AvxMatchesScalar
  BY VectorIsPlain, Zenon DEF AvxMatchesScalar
<1> QED BY <1>1, PTL

(***************************************************************************)
(* What the programs in C compute is what the one in Go does.              *)
(***************************************************************************)
THEOREM CIsGo == GCSpec => []CMatchesGo
<1>1. CacheInv => CMatchesGo
  <2>1. SUFFICES ASSUME CacheInv, Complete, IntOffsets PROVE CMatchesGo
    BY DEF CMatchesGo
  <2>2. /\ rows \in Nat \ {0} /\ cache \in [1..rows -> Hash] /\ isCache(cache)
        /\ header \in Hash /\ cache = generate_cache(rows, seed)
    BY <2>1, CompleteIs DEF Complete
  <2>3. ASSUME NEW size \in sizes, NEW i \in indicesOf(size)
        PROVE  /\ calculate_dataset_item(cache, i) = generateDatasetItem(cache, i)
               /\ calculate_mask_data(cache, i, header) = generateMaskItem(cache, i, header)
    <3>1. i \in Uint32
      BY SizesAre
    <3> QED BY <2>2, <3>1, ItemsAgree, MasksAgree
  <2>4. ASSUME NEW size \in sizes, Offsets(size)
        PROVE  hashimoto(header, size, flat(size)) = hashimotoFull(flat(size), header)
    <3>1. PICK n \in Nat \ {0} : size = n * mixBytes /\ 2 * n <= 2 ^ UintBits
      BY SizesAre
    <3>2. hashimoto(header, size, datasetOf(cache, size)) = hashimotoLight(size, cache, header)
      BY <2>2, <3>1, PlainIsLight
    <3>3. hashimotoFull(datasetOf(cache, size), header) = hashimotoLight(size, cache, header)
      BY <2>2, <2>4, <3>1, FullIsLight
    <3> QED BY <3>2, <3>3, FlatIs
  <2>5. ASSUME rows > 1, NEW index \in {rows - 1, 2 ^ UintBits - 1}
        PROVE  simple_verify(cache, index, header) = selfCheck(cache, index, header)
    <3>1. index \in Uint32
      <4>1. PICK w \in Nat \ {0} : w = 2 ^ UintBits
        BY EthashAssumption, PowersPositive
      <4>2. rows \in Uint32
        BY <2>1, RowsIs
      <4> QED BY <2>2, <4>1, <4>2 DEF Uint32
    <3> QED BY <2>2, <2>5, <3>1, ChecksAgree
  <2> QED BY <2>2, <2>3, <2>4, <2>5, Zenon DEF CMatchesGo
<1> QED BY <1>1, CacheIsAsInC, PTL
-----------------------------------------------------------------------------
(***************************************************************************)
(* The goroutine: when the counter's word can hold a hundred times the     *)
(* final count, it counts the rows that are done, and no percentage that   *)
(* has been logged is above the present one.                               *)
(***************************************************************************)
counted == (IF cache = << >> THEN 0 ELSE Len(cache) - 1) + rehashed

ReportInv ==
  CounterFits => progress = counted /\ reported \in Nat /\ reported <= percentage(progress)

LEMMA CountBelow ==
  ASSUME NEW m \in Nat \ {0}, NEW l \in 0..m, NEW h \in 0..cacheRounds * m
  PROVE  /\ (IF l = 0 THEN 0 ELSE l - 1) + h \in Nat
         /\ (IF l = 0 THEN 0 ELSE l - 1) + h < (cacheRounds + 1) * m
<1>1. cacheRounds \in Nat
  BY CacheAssumption
<1>2. PICK c \in Nat : c = cacheRounds * m
  BY <1>1
<1>3. (cacheRounds + 1) * m = c + m
  BY <1>1, <1>2
<1> QED BY <1>2, <1>3

LEMMA CountedIs ==
  ASSUME CacheInv
  PROVE  counted \in Nat /\ counted < (cacheRounds + 1) * rows
<1>1. /\ rows \in Nat \ {0} /\ cache \in Seq(Hash)
      /\ Len(cache) \in 0..rows /\ rehashed \in 0..cacheRounds * rows
  BY RowsIs DEF CacheInv
<1>2. cache = << >> <=> Len(cache) = 0
  BY <1>1
<1>3. counted = (IF Len(cache) = 0 THEN 0 ELSE Len(cache) - 1) + rehashed
  BY <1>2 DEF counted
<1> QED BY <1>1, <1>3, CountBelow

LEMMA CounterIs ==
  ASSUME CacheInv, CounterFits
  PROVE  /\ Counter \in Nat \ {0} /\ (cacheRounds + 1) * rows \in Nat
         /\ 100 * ((cacheRounds + 1) * rows) < Counter
<1>1. rows \in Nat \ {0} /\ cacheRounds \in Nat \ {0}
  BY RowsIs
<1>2. PICK m \in Nat : m = (cacheRounds + 1) * rows
  BY <1>1
<1>3. 100 * (cacheRounds + 1) * rows = 100 * m
  BY <1>1, <1>2
<1>4. Counter \in Nat \ {0}
  BY PowersPositive, CacheAssumption DEF Counter
<1> QED BY <1>2, <1>3, <1>4 DEF CounterFits

LEMMA PercentageRises ==
  ASSUME CacheInv, CounterFits, NEW x \in Nat, NEW y \in Nat, x <= y,
         y < (cacheRounds + 1) * rows
  PROVE  /\ percentage(x) \in Nat /\ percentage(x) <= percentage(y)
         /\ percentage(y) < 100
<1>1. rows \in Nat \ {0} /\ cacheRounds + 1 \in Nat \ {0}
  <2>1. rows \in Nat \ {0} /\ cacheRounds \in Nat \ {0}
    BY RowsIs
  <2> QED BY <2>1
<1>2. PICK m \in Nat : m = (cacheRounds + 1) * rows
  BY <1>1
<1>3. PICK w \in Nat \ {0} : w = Counter /\ 100 * m < w
  BY <1>2, CounterIs
<1>4. /\ x * 100 \in Nat /\ y * 100 \in Nat /\ x * 100 <= y * 100 /\ y * 100 < 100 * m
      /\ (x * 100) % w = x * 100 /\ (y * 100) % w = y * 100
  BY <1>2, <1>3
<1>5. PICK p \in Nat, q \in Nat : p = (x * 100) \div rows /\ q = (y * 100) \div rows /\ p <= q
  <2>1. (x * 100) \div rows \in Nat /\ (y * 100) \div rows \in Nat
    BY <1>1, <1>4, DivDef
  <2>2. (x * 100) \div rows <= (y * 100) \div rows
    BY <1>1, <1>4, DivMono
  <2> QED BY <2>1, <2>2
<1>6. percentage(x) = p \div (cacheRounds + 1) /\ percentage(y) = q \div (cacheRounds + 1)
  BY <1>3, <1>4, <1>5 DEF percentage
<1>7. p \div (cacheRounds + 1) \in Nat
  BY <1>1, <1>5, DivDef
<1>8. p \div (cacheRounds + 1) <= q \div (cacheRounds + 1)
  BY <1>1, <1>5, DivMono
<1>9. q < 100 * (cacheRounds + 1)
  <2>1. 100 * m = (100 * (cacheRounds + 1)) * rows
    BY <1>1, <1>2
  <2>2. PICK h \in Nat : h = 100 * (cacheRounds + 1)
    BY <1>1
  <2>3. y * 100 < h * rows
    BY <1>4, <2>1, <2>2
  <2> QED BY <1>1, <1>4, <1>5, <2>2, <2>3, DivBelow
<1>10. q \div (cacheRounds + 1) < 100
  BY <1>1, <1>5, <1>9, DivBelow
<1> QED BY <1>6, <1>7, <1>8, <1>10

LEMMA ReportInit == GCInit => ReportInv
<1>1. SUFFICES ASSUME GCInit PROVE ReportInv
  OBVIOUS
<1>2. progress = 0 /\ reported = 0 /\ cache = << >> /\ rehashed = 0 /\ CacheInv
  BY <1>1, CacheInit DEF GCInit
<1>3. counted = 0
  BY <1>2 DEF counted
<1>4. ASSUME CounterFits PROVE 0 <= percentage(0)
  <2>1. 0 < (cacheRounds + 1) * rows
    BY <1>2, <1>3, CountedIs
  <2>2. percentage(0) \in Nat
    BY <1>2, <1>4, <2>1, PercentageRises
  <2> QED BY <2>2
<1> QED BY <1>2, <1>3, <1>4 DEF ReportInv

(***************************************************************************)
(* A step that raises the count by one or not at all, and a report.        *)
(***************************************************************************)
LEMMA CountStep ==
  CacheInv /\ (Fill \/ Rehash)
    => \/ counted' = counted /\ progress' = progress
       \/ counted' = counted + 1 /\ progress' = (progress + 1) % Counter
<1>1. SUFFICES ASSUME CacheInv, Fill \/ Rehash
               PROVE  \/ counted' = counted /\ progress' = progress
                      \/ counted' = counted + 1 /\ progress' = (progress + 1) % Counter
  OBVIOUS
<1>2. /\ rows \in Nat \ {0} /\ cache \in Seq(Hash) /\ Len(cache) \in Nat
      /\ rehashed \in Nat
  BY <1>1, RowsIs DEF CacheInv
<1>3. CASE Fill
  <2> DEFINE next == keccak512(IF cache = << >> THEN seed ELSE cache[Len(cache)])
  <2>1. /\ cache' = Append(cache, next) /\ rehashed' = rehashed
        /\ progress' = IF cache = << >> THEN progress ELSE (progress + 1) % Counter
    BY <1>3 DEF Fill
  <2> HIDE DEF next
  <2>2. Len(cache') = Len(cache) + 1 /\ cache' # << >> /\ (cache = << >> => Len(cache) = 0)
    BY <1>2, <2>1
  <2> QED BY <1>2, <2>1, <2>2 DEF counted
<1>4. CASE Rehash
  <2>1. /\ cache' = [cache EXCEPT ![(rehashed % rows) + 1] = rehash(rehashed % rows)]
        /\ rehashed' = rehashed + 1 /\ progress' = (progress + 1) % Counter
        /\ Len(cache) = rows
    BY <1>4 DEF Rehash
  <2>2. Len(cache') = Len(cache) /\ cache # << >> /\ cache' # << >>
    <3>1. DOMAIN cache' = DOMAIN cache
      BY <2>1
    <3>2. CacheInv'
      BY <1>1, <1>4, RehashCache
    <3>3. cache' \in Seq(Hash)
      BY <3>2 DEF CacheInv
    <3> QED BY <1>2, <2>1, <3>1, <3>3
  <2> QED BY <1>2, <2>1, <2>2 DEF counted
<1> QED BY <1>1, <1>3, <1>4

LEMMA ReportStep ==
  CacheInv /\ CacheInv' /\ ReportInv /\ [GCNext]_gcVars
    => ReportInv' /\ (CounterFits => reported' >= reported /\ reported' < 100)
<1>1. SUFFICES ASSUME CacheInv, CacheInv', ReportInv, [GCNext]_gcVars
               PROVE  ReportInv' /\ (CounterFits => reported' >= reported /\ reported' < 100)
  OBVIOUS
<1>2. rows' = rows
  BY <1>1 DEF GCNext, Fill, Rehash, Return, Report, End, gcVars
<1>3. (CounterFits' <=> CounterFits) /\ percentage(progress)' = percentage(progress')
  BY <1>2 DEF CounterFits, percentage
<1>4. SUFFICES ASSUME CounterFits
               PROVE  /\ progress' = counted' /\ reported' \in Nat
                      /\ reported' <= percentage(progress')
                      /\ reported' >= reported /\ reported' < 100
  <2> HIDE DEF counted
  <2> QED BY <1>3 DEF ReportInv
<1>5. /\ counted \in Nat /\ counted < (cacheRounds + 1) * rows
      /\ progress = counted /\ reported \in Nat /\ reported <= percentage(progress)
  BY <1>1, <1>4, CountedIs DEF ReportInv
<1>6. percentage(progress) \in Nat /\ percentage(progress) < 100
  BY <1>1, <1>4, <1>5, PercentageRises
<1>7. CASE Fill \/ Rehash
  <2>1. reported' = reported
    BY <1>7 DEF Fill, Rehash
  <2>2. counted' \in Nat /\ counted' < (cacheRounds + 1) * rows
    <3>1. /\ rows \in Nat \ {0} /\ cache' \in Seq(Hash)
          /\ Len(cache') \in 0..rows /\ rehashed' \in 0..cacheRounds * rows
      BY <1>1, <1>2, RowsIs DEF CacheInv
    <3>2. cache' = << >> <=> Len(cache') = 0
      BY <3>1
    <3>3. counted' = (IF Len(cache') = 0 THEN 0 ELSE Len(cache') - 1) + rehashed'
      BY <3>2 DEF counted
    <3> QED BY <3>1, <3>3, CountBelow
  <2>3. progress' = counted' /\ counted <= counted'
    <3>1. \/ counted' = counted /\ progress' = progress
          \/ counted' = counted + 1 /\ progress' = (progress + 1) % Counter
      BY <1>1, <1>7, CountStep
    <3>2. PICK w \in Nat \ {0}, m \in Nat :
            w = Counter /\ m = (cacheRounds + 1) * rows /\ 100 * m < w
      BY <1>1, <1>4, CounterIs
    <3>3. PICK k \in Nat : k = counted' /\ k < m
      BY <2>2, <3>2
    <3>4. k % w = k
      <4>1. k < w
        BY <3>2, <3>3
      <4> QED BY <4>1
    <3> QED BY <1>5, <3>1, <3>2, <3>3, <3>4
  <2>4. percentage(counted) <= percentage(counted') /\ percentage(counted') < 100
    BY <1>1, <1>4, <1>5, <2>2, <2>3, PercentageRises
  <2>5. percentage(counted') \in Nat
    BY <1>1, <1>4, <2>2, PercentageRises
  <2> QED BY <1>5, <1>6, <2>1, <2>3, <2>4, <2>5
<1>8. CASE Return \/ Report \/ End \/ UNCHANGED gcVars
  <2>1. /\ progress' = progress /\ cache' = cache /\ rehashed' = rehashed
        /\ reported' \in {reported, percentage(progress)}
    BY <1>8 DEF Return, Report, End, gcVars
  <2>2. counted' = counted
    BY <2>1 DEF counted
  <2> QED BY <1>5, <1>6, <2>1, <2>2
<1> QED BY <1>1, <1>7, <1>8 DEF GCNext

(***************************************************************************)
(* So the percentages that are logged rise and stay below 100, for any     *)
(* number of rows and of rounds and any width of the counter.              *)
(***************************************************************************)
THEOREM PercentagesRise == GCSpec => ReportsRise
<1>1. GCInit => CacheInv /\ ReportInv
  BY CacheInit, ReportInit
<1>2. CacheInv /\ ReportInv /\ [GCNext]_gcVars => (CacheInv /\ ReportInv)'
  BY CacheStep, ReportStep
<1>3. CacheInv /\ ReportInv /\ [GCNext]_gcVars
        => [CounterFits => reported' >= reported /\ reported' < 100]_gcVars
  BY CacheStep, ReportStep
<1> QED BY <1>1, <1>2, <1>3, PTL DEF GCSpec, ReportsRise
=============================================================================

-------------------------- MODULE Libraries_proofs --------------------------
(***************************************************************************)
(* The libraries, without the bounds that TLC needs: the discount of the   *)
(* price, for any factor and any time; drawing slots from a hash, for      *)
(* hashes and numbers of slots of any size and any number of draws;        *)
(* commitments, for values, chunks and trees of any size; the chain of     *)
(* hashes, for any number of answers; the hash of the contract against the *)
(* prototype's, for entries and answers of any size; and the sizes of the  *)
(* dataset and the cache, for every epoch.                                 *)
(***************************************************************************)
EXTENDS Discount, RandomAccess, Prototypes, HashChain, EthashSizes, MerkleLib_proofs

DiscountTypeOK == fp \in Nat /\ fp <= One /\ n \in Nat

LEMMA DiscountTyped == DiscountSpec => []DiscountTypeOK
<1>1. DiscountInit => DiscountTypeOK
  BY OneType DEF DiscountInit, DiscountTypeOK
<1>2. DiscountTypeOK /\ [Second]_discountVars => DiscountTypeOK'
  BY DEF DiscountTypeOK, Second, discountVars
<1> QED  BY <1>1, <1>2, PTL DEF DiscountSpec

(***************************************************************************)
(* The price of storage can be computed at any time to come.               *)
(***************************************************************************)
THEOREM DiscountComputable == DiscountSpec => []DiscountNeverOverflows
<1>1. DiscountTypeOK => DiscountNeverOverflows
  BY PowFits DEF DiscountTypeOK, DiscountNeverOverflows
<1> QED  BY <1>1, DiscountTyped, PTL

(***************************************************************************)
(* And it never rises.                                                     *)
(***************************************************************************)
THEOREM DiscountFalls == DiscountSpec => PriceNeverRises
<1>1. DiscountTypeOK /\ [Second]_discountVars
        => [fp < One => pow(fp, n') <= pow(fp, n)]_discountVars
  <2> SUFFICES ASSUME DiscountTypeOK, Second, fp < One
               PROVE  pow(fp, n') <= pow(fp, n)
    OBVIOUS
  <2>1. fp \in Nat /\ fp <= One /\ n \in Nat /\ n' = n + 1
    BY DEF DiscountTypeOK, Second
  <2> QED  BY <2>1, PowFalls
<1> QED  BY <1>1, DiscountTyped, PTL DEF DiscountSpec, PriceNeverRises
-----------------------------------------------------------------------------
(***************************************************************************)
(* Exact powers.                                                           *)
(***************************************************************************)
LEMMA PowerDef ==
  ASSUME NEW x \in Nat
  PROVE  /\ power(x, 0) = 1
         /\ \A k \in Nat : power(x, k + 1) = x * power(x, k)
         /\ \A k \in Nat : power(x, k) \in Nat
<1> DEFINE p[j \in Nat] == IF j = 0 THEN 1 ELSE x * p[j - 1]
           m == [j \in Nat |-> j]
           next == [j \in Nat |-> IF j = 0 THEN 0 ELSE j - 1]
           out == [j \in Nat |-> 1]
           step == [j \in Nat |-> [r \in Nat |-> x * r]]
<1>1. /\ m \in [Nat -> Nat] /\ next \in [Nat -> Nat] /\ out \in [Nat -> Nat]
      /\ step \in [Nat -> [Nat -> Nat]]
  OBVIOUS
<1>2. Decreases(Nat, m, next)
  BY DEF Decreases
<1>3. PICK f \in [Nat -> Nat] : Recursive(f, Nat, m, next, out, step)
  <2> HIDE DEF m, next, out, step
  <2> QED BY <1>1, <1>2, Recursion, Zenon
<1>4. \A j \in Nat : f[j] = IF j = 0 THEN 1 ELSE x * f[j - 1]
  <2> SUFFICES ASSUME NEW j \in Nat PROVE f[j] = IF j = 0 THEN 1 ELSE x * f[j - 1]
    OBVIOUS
  <2>1. f[j] = IF m[j] = 0 THEN out[j] ELSE step[j][f[next[j]]]
    BY <1>3 DEF Recursive
  <2>2. m[j] = j /\ out[j] = 1 /\ (j # 0 => next[j] = j - 1 /\ j - 1 \in Nat)
    OBVIOUS
  <2>3. \A r \in Nat : step[j][r] = x * r
    OBVIOUS
  <2> HIDE DEF m, next, out, step
  <2> QED BY <2>1, <2>2, <2>3
<1>5. f = [j \in Nat |-> IF j = 0 THEN 1 ELSE x * f[j - 1]]
  BY <1>4
<1>6. p = [j \in Nat |-> IF j = 0 THEN 1 ELSE x * p[j - 1]]
  <2> HIDE DEF m, next, out, step
  <2> QED BY <1>5, Zenon DEF p
<1> HIDE DEF p, m, next, out, step
<1>7. p[0] = 1 /\ \A j \in Nat : p[j + 1] = x * p[j]
  BY <1>6
<1> DEFINE S == {j \in Nat : p[j] \in Nat}
<1>8. \A j \in Nat : j \in S
  <2>1. 0 \in S /\ \A j \in Nat : j \in S => j + 1 \in S
    BY <1>7
  <2> HIDE DEF S
  <2> QED BY <2>1, Induction
<1>9. \A k : power(x, k) = p[k]
  BY Zenon DEF power, p
<1> QED BY <1>7, <1>8, <1>9

LEMMA PowerAdds ==
  ASSUME NEW x \in Nat, NEW a \in Nat
  PROVE  \A b \in Nat : power(x, a + b) = power(x, a) * power(x, b)
<1> DEFINE S == {b \in Nat : power(x, a + b) = power(x, a) * power(x, b)}
<1>1. PICK q \in Nat : q = power(x, a)
  BY PowerDef
<1>2. 0 \in S
  <2>1. a + 0 = a /\ q * 1 = q
    OBVIOUS
  <2> QED BY <1>1, <2>1, PowerDef
<1>3. ASSUME NEW b \in Nat, b \in S PROVE b + 1 \in S
  <2>1. PICK r \in Nat : r = power(x, b)
    BY PowerDef
  <2>2. power(x, a + b) = q * r
    BY <1>1, <1>3, <2>1
  <2>3. a + (b + 1) = (a + b) + 1 /\ a + b \in Nat
    OBVIOUS
  <2>4. power(x, a + (b + 1)) = x * (q * r) /\ power(x, b + 1) = x * r
    BY <2>1, <2>2, <2>3, PowerDef
  <2>5. x * (q * r) = q * (x * r)
    OBVIOUS
  <2> QED BY <1>1, <2>4, <2>5
<1> HIDE DEF S
<1>4. \A b \in Nat : b \in S
  BY <1>2, <1>3, Induction
<1> QED BY <1>4 DEF S

LEMMA PowerPositive ==
  ASSUME NEW x \in Nat \ {0}
  PROVE  \A k \in Nat : power(x, k) \in Nat \ {0}
<1> DEFINE S == {k \in Nat : power(x, k) \in Nat \ {0}}
<1>1. 0 \in S
  BY PowerDef
<1>2. ASSUME NEW k \in Nat, k \in S PROVE k + 1 \in S
  <2>1. PICK q \in Nat \ {0} : q = power(x, k)
    BY <1>2
  <2>2. x * q \in Nat \ {0}
    OBVIOUS
  <2> QED BY <2>1, <2>2, PowerDef
<1> HIDE DEF S
<1>3. \A k \in Nat : k \in S
  BY <1>1, <1>2, Induction
<1> QED BY <1>3 DEF S

(***************************************************************************)
(* x is the N-th power of the factor y, as a fixed-point number, rounded   *)
(* down by at most N - 1 units.                                            *)
(***************************************************************************)
approximates(x, y, N) ==
  /\ x * power(One, N - 1) <= power(y, N)
  /\ power(y, N) <= (x + N - 1) * power(One, N - 1)

(***************************************************************************)
(* The arithmetic of one product: P and Q stand for One^(M - 1) and        *)
(* One^(N - 1), A and B for the exact powers, a and b for what they are    *)
(* above the approximations, z for the rounded product.                    *)
(***************************************************************************)
LEMMA ProductBelow ==
  ASSUME NEW o \in Nat, NEW P \in Nat, NEW Q \in Nat, NEW x \in Nat, NEW y \in Nat,
         NEW z \in Nat, NEW A \in Nat, NEW B \in Nat,
         z * o <= x * y, x * P <= A, y * Q <= B
  PROVE  z * (o * (P * Q)) <= A * B
<1>1. (z * o) * (P * Q) <= (x * y) * (P * Q)
  BY MulMono
<1>2. (x * P) * (y * Q) <= A * (y * Q)
  BY MulMono
<1>3. (y * Q) * A <= B * A
  BY MulMono
<1>4. /\ z * (o * (P * Q)) = (z * o) * (P * Q) /\ (x * y) * (P * Q) = (x * P) * (y * Q)
      /\ (y * Q) * A = A * (y * Q) /\ B * A = A * B
  OBVIOUS
<1>5. /\ (z * o) * (P * Q) \in Nat /\ (x * y) * (P * Q) \in Nat /\ A * (y * Q) \in Nat
      /\ A * B \in Nat
  OBVIOUS
<1> QED BY <1>1, <1>2, <1>3, <1>4, <1>5

LEMMA ProductAbove ==
  ASSUME NEW o \in Nat, NEW P \in Nat, NEW Q \in Nat, NEW x \in Nat, NEW y \in Nat,
         NEW z \in Nat, NEW A \in Nat, NEW B \in Nat, NEW M \in Nat, NEW N \in Nat,
         x * y <= (z + 1) * o, x * P <= A, y * Q <= B,
         A <= x * P + M * P, B <= y * Q + N * Q, A <= o * P, y * Q <= o * Q
  PROVE  A * B <= (z + 1 + M + N) * (o * (P * Q))
<1>1. PICK a \in Nat : A = x * P + a /\ a <= M * P
  <2>1. PICK u, v \in Nat : u = x * P /\ v = M * P
    OBVIOUS
  <2>2. A - u \in Nat /\ A = u + (A - u) /\ A - u <= v
    BY <2>1
  <2> QED BY <2>1, <2>2
<1>2. PICK b \in Nat : B = y * Q + b /\ b <= N * Q
  <2>1. PICK u, v \in Nat : u = y * Q /\ v = N * Q
    OBVIOUS
  <2>2. B - u \in Nat /\ B = u + (B - u) /\ B - u <= v
    BY <2>1
  <2> QED BY <2>1, <2>2
<1>3. A * B = (x * y) * (P * Q) + a * (y * Q) + A * b
  <2>1. A * B = A * (y * Q) + A * b
    BY <1>2
  <2>2. A * (y * Q) = (x * P) * (y * Q) + a * (y * Q)
    BY <1>1
  <2>3. (x * P) * (y * Q) = (x * y) * (P * Q)
    OBVIOUS
  <2>4. /\ A * (y * Q) \in Nat /\ A * b \in Nat /\ (x * y) * (P * Q) \in Nat
        /\ a * (y * Q) \in Nat
    OBVIOUS
  <2> QED BY <2>1, <2>2, <2>3, <2>4
<1> DEFINE R == o * (P * Q)
<1>4. (x * y) * (P * Q) <= (z + 1) * R
  <2>1. (x * y) * (P * Q) <= ((z + 1) * o) * (P * Q)
    BY MulMono
  <2>2. ((z + 1) * o) * (P * Q) = (z + 1) * R
    OBVIOUS
  <2> QED BY <2>1, <2>2
<1>5. a * (y * Q) <= M * R
  <2>1. a * (y * Q) <= (M * P) * (y * Q)
    BY <1>1, MulMono
  <2>2. (y * Q) * (M * P) <= (o * Q) * (M * P)
    BY MulMono
  <2>3. (y * Q) * (M * P) = (M * P) * (y * Q) /\ (o * Q) * (M * P) = M * R
    OBVIOUS
  <2>4. a * (y * Q) \in Nat /\ (M * P) * (y * Q) \in Nat /\ M * R \in Nat
    OBVIOUS
  <2> HIDE DEF R
  <2> QED BY <2>1, <2>2, <2>3, <2>4
<1>6. A * b <= N * R
  <2>1. b * A <= (N * Q) * A
    BY <1>2, MulMono
  <2>2. A * (N * Q) <= (o * P) * (N * Q)
    BY MulMono
  <2>3. b * A = A * b /\ (N * Q) * A = A * (N * Q) /\ (o * P) * (N * Q) = N * R
    OBVIOUS
  <2>4. A * b \in Nat /\ A * (N * Q) \in Nat /\ N * R \in Nat
    OBVIOUS
  <2> HIDE DEF R
  <2> QED BY <2>1, <2>2, <2>3, <2>4
<1>7. (z + 1 + M + N) * R = (z + 1) * R + M * R + N * R
  <2>1. R \in Nat
    OBVIOUS
  <2> HIDE DEF R
  <2> QED BY <2>1
<1>8. /\ (x * y) * (P * Q) \in Nat /\ a * (y * Q) \in Nat /\ A * b \in Nat
      /\ (z + 1) * R \in Nat /\ M * R \in Nat /\ N * R \in Nat
  OBVIOUS
<1> HIDE DEF R
<1>9. A * B <= (z + 1 + M + N) * R
  BY <1>3, <1>4, <1>5, <1>6, <1>7, <1>8
<1> QED BY <1>9 DEF R

LEMMA PowerMono ==
  ASSUME NEW x \in Nat, NEW y \in Nat, x <= y
  PROVE  \A k \in Nat : power(x, k) <= power(y, k)
<1> DEFINE S == {k \in Nat : power(x, k) <= power(y, k)}
<1>1. 0 \in S
  BY PowerDef
<1>2. ASSUME NEW k \in Nat, k \in S PROVE k + 1 \in S
  <2>1. PICK p, q \in Nat : p = power(x, k) /\ q = power(y, k) /\ p <= q
    BY <1>2, PowerDef
  <2>2. x * p <= y * p
    BY MulMono
  <2>3. p * y <= q * y
    BY <2>1, MulMono
  <2>4. p * y = y * p /\ q * y = y * q /\ x * p \in Nat /\ y * p \in Nat /\ y * q \in Nat
    OBVIOUS
  <2>5. x * p <= y * q
    BY <2>2, <2>3, <2>4
  <2>6. power(x, k + 1) = x * p /\ power(y, k + 1) = y * q
    BY <2>1, PowerDef
  <2> QED BY <2>5, <2>6
<1> HIDE DEF S
<1>3. \A k \in Nat : k \in S
  BY <1>1, <1>2, Induction
<1> QED BY <1>3 DEF S

(***************************************************************************)
(* A rounded product of approximations is one of the product.              *)
(***************************************************************************)
LEMMA ApproximationsMultiply ==
  ASSUME NEW y \in Nat, y <= One, NEW M \in Nat \ {0}, NEW N \in Nat \ {0},
         NEW u \in Nat, NEW w \in Nat, approximates(u, y, M), approximates(w, y, N)
  PROVE  approximates(times(u, w), y, M + N)
<1>1. PICK o \in Nat \ {0} : o = One
  BY OneType
<1>2. PICK m, n1 \in Nat : m = M - 1 /\ n1 = N - 1 /\ M = m + 1 /\ N = n1 + 1
  <2>1. M - 1 \in Nat /\ N - 1 \in Nat /\ M = (M - 1) + 1 /\ N = (N - 1) + 1
    OBVIOUS
  <2> QED BY <2>1
<1>3. PICK P, Q, A, B \in Nat : /\ P = power(One, m) /\ Q = power(One, n1)
                                /\ A = power(y, M) /\ B = power(y, N)
  BY <1>1, PowerDef
<1>4. PICK z \in Nat : z = times(u, w)
  BY TimesType
<1>5. z * o <= u * w /\ u * w <= (z + 1) * o
  <2>1. u * w \in Nat
    OBVIOUS
  <2>2. PICK p \in Nat : p = u * w
    BY <2>1
  <2>3. z = p \div o
    BY <1>1, <1>4, <2>2 DEF times
  <2>4. z * o <= p /\ p < z * o + o
    BY <2>3, DivDef
  <2>5. (z + 1) * o = z * o + o /\ z * o \in Nat
    OBVIOUS
  <2> QED BY <2>2, <2>4, <2>5
<1>6. u * P <= A /\ w * Q <= B
  BY <1>2, <1>3 DEF approximates
<1>7. A <= u * P + m * P /\ B <= w * Q + n1 * Q
  <2>1. A <= (u + M - 1) * P /\ B <= (w + N - 1) * Q
    BY <1>2, <1>3 DEF approximates
  <2>2. u + M - 1 = u + m /\ w + N - 1 = w + n1
    BY <1>2
  <2>3. (u + m) * P = u * P + m * P /\ (w + n1) * Q = w * Q + n1 * Q
    OBVIOUS
  <2> QED BY <2>1, <2>2, <2>3
<1>8. A <= o * P /\ B <= o * Q
  <2>1. power(One, M) = o * P /\ power(One, N) = o * Q
    BY <1>1, <1>2, <1>3, PowerDef
  <2>2. power(y, M) <= power(One, M) /\ power(y, N) <= power(One, N)
    BY <1>1, PowerMono
  <2> QED BY <1>3, <2>1, <2>2
<1>9. w * Q <= o * Q
  <2>1. w * Q \in Nat /\ o * Q \in Nat
    OBVIOUS
  <2> QED BY <1>6, <1>8, <2>1
<1>10. power(One, (M + N) - 1) = o * (P * Q)
  <2>1. (M + N) - 1 = (m + n1) + 1 /\ m + n1 \in Nat
    BY <1>2
  <2>2. power(One, m + n1) = P * Q
    BY <1>1, <1>3, PowerAdds
  <2>3. power(One, (m + n1) + 1) = One * power(One, m + n1)
    BY <1>1, PowerDef
  <2> QED BY <1>1, <2>1, <2>2, <2>3, Zenon
<1>11. power(y, M + N) = A * B
  BY <1>3, PowerAdds
<1>12. z * (o * (P * Q)) <= A * B
  BY <1>5, <1>6, ProductBelow
<1>13. A * B <= (z + 1 + m + n1) * (o * (P * Q))
  BY <1>5, <1>6, <1>7, <1>8, <1>9, ProductAbove
<1>14. z + 1 + m + n1 = z + (M + N) - 1
  BY <1>2
<1> QED BY <1>4, <1>10, <1>11, <1>12, <1>13, <1>14, Zenon DEF approximates

(***************************************************************************)
(* The loop of pow(), with N the power that base stands for and M that of  *)
(* the value so far (0 before the first multiplication).                   *)
(***************************************************************************)
soFar(w, y, M) == IF M = 0 THEN w = One ELSE approximates(w, y, M)

LEMMA LoopApproximates ==
  ASSUME NEW y \in Nat, y <= One
  PROVE  \A k, M, b, w \in Nat : \A N \in Nat \ {0} :
           approximates(b, y, N) /\ soFar(w, y, M)
             => soFar(powLoop[state(k, b, w)], y, M + k * N)
<1> DEFINE Holds(k) == \A M, b, w \in Nat : \A N \in Nat \ {0} :
                         approximates(b, y, N) /\ soFar(w, y, M)
                           => soFar(powLoop[state(k, b, w)], y, M + k * N)
           S == {k \in Nat : Holds(k)}
<1>1. ASSUME NEW k \in Nat, \A i \in Nat : i < k => i \in S PROVE k \in S
  <2> SUFFICES ASSUME NEW M \in Nat, NEW b \in Nat, NEW w \in Nat, NEW N \in Nat \ {0},
                      approximates(b, y, N), soFar(w, y, M)
               PROVE  soFar(powLoop[state(k, b, w)], y, M + k * N)
    OBVIOUS
  <2>1. CASE k = 0
    <3>1. powLoop[state(k, b, w)] = w /\ M + k * N = M
      BY <2>1, PowStep
    <3> QED BY <3>1
  <2>2. CASE k # 0
    <3>1. PICK h \in Nat : /\ h = k \div 2 /\ h < k
                           /\ k % 2 = 1 => k = 2 * h + 1
                           /\ k % 2 = 0 => k = 2 * h
      BY <2>2
    <3>2. Holds(h)
      BY <1>1, <3>1
    <3>3. approximates(times(b, b), y, N + N) /\ times(b, b) \in Nat /\ N + N \in Nat \ {0}
      BY ApproximationsMultiply, TimesType
    <3>4. CASE k % 2 = 1
      <4>1. powLoop[state(k, b, w)] = powLoop[state(h, times(b, b), times(w, b))]
        BY <3>1, <3>4, PowOdd
      <4>2. soFar(times(w, b), y, M + N) /\ times(w, b) \in Nat /\ M + N \in Nat
        <5>1. CASE M = 0
          BY <5>1, TimesOne, TimesType DEF soFar
        <5>2. CASE M # 0
          <6>1. approximates(times(w, b), y, M + N)
            BY <5>2, ApproximationsMultiply DEF soFar
          <6> QED BY <6>1, TimesType DEF soFar
        <5> QED BY <5>1, <5>2
      <4>3. (M + N) + h * (N + N) = M + k * N
        BY <3>1, <3>4
      <4>4. soFar(powLoop[state(h, times(b, b), times(w, b))], y, (M + N) + h * (N + N))
        BY <3>2, <3>3, <4>2
      <4> QED BY <4>1, <4>3, <4>4
    <3>5. CASE k % 2 = 0
      <4>1. powLoop[state(k, b, w)] = powLoop[state(h, times(b, b), w)]
        BY <3>1, <3>5, PowEven
      <4>2. M + h * (N + N) = M + k * N
        BY <3>1, <3>5
      <4>3. soFar(powLoop[state(h, times(b, b), w)], y, M + h * (N + N))
        BY <3>2, <3>3
      <4> QED BY <4>1, <4>2, <4>3
    <3> QED BY <3>4, <3>5
  <2> QED BY <2>1, <2>2
<1>2. \A k \in Nat : k \in S
  <2> HIDE DEF S
  <2> QED BY <1>1, StrongInduction
<1> QED BY <1>2

(***************************************************************************)
(* pow() is never above the exact power, and less than n units below it.   *)
(***************************************************************************)
THEOREM PowApproximates ==
  ASSUME NEW y \in Nat, y <= One, NEW k \in Nat \ {0}
  PROVE  approximates(pow(y, k), y, k)
<1>1. approximates(y, y, 1)
  <2>1. power(y, 0 + 1) = y * power(y, 0) /\ power(y, 0) = 1
    BY PowerDef
  <2>2. power(y, 1) = y /\ power(One, 1 - 1) = 1
    BY <2>1, OneType, PowerDef
  <2> QED BY <2>2 DEF approximates
<1>2. soFar(One, y, 0)
  BY DEF soFar
<1>3. soFar(powLoop[state(k, y, One)], y, 0 + k * 1)
  BY <1>1, <1>2, OneType, LoopApproximates
<1>4. 0 + k * 1 = k
  OBVIOUS
<1> QED BY <1>3, <1>4 DEF soFar, pow, state

(***************************************************************************)
(* At any time to come the price of storage is rounded down, by less than  *)
(* one unit of the fraction per second.                                    *)
(***************************************************************************)
THEOREM DiscountRoundsDown == DiscountSpec => []RoundsDown
<1>1. DiscountTypeOK => RoundsDown
  <2> SUFFICES ASSUME DiscountTypeOK, n \in 1..LastExact
               PROVE  /\ pow(fp, n) * power(One, n - 1) <= power(fp, n)
                      /\ power(fp, n) <= (pow(fp, n) + n - 1) * power(One, n - 1)
    BY DEF RoundsDown
  <2>1. n \in Nat \ {0} /\ fp \in Nat /\ fp <= One
    BY DEF DiscountTypeOK
  <2> QED BY <2>1, PowApproximates DEF approximates
<1> QED BY <1>1, DiscountTyped, PTL
-----------------------------------------------------------------------------
RATypeOK ==
  /\ totalEntryBits \in 0..(HashBits - 1)
  /\ bits \in 0..HashBits
  /\ rhash \in Nat /\ shifted \in Nat
  /\ draws \subseteq [hash : Nat, from : Nat, to : Nat]

(***************************************************************************)
(* The counter is right, and what was drawn lies behind it.                *)
(***************************************************************************)
RAInv ==
  /\ RATypeOK
  /\ bits = HashBits - shifted
  /\ NeverShortOfBits
  /\ \A d \in draws : d.hash <= rhash
  /\ FreshBits

LEMMA RAInitInv == RAInit => RAInv
BY HashAssumption DEF RAInit, RAInv, RATypeOK, NeverShortOfBits, FreshBits

LEMMA DrawStep == RAInv /\ Draw => RAInv'
<1> SUFFICES ASSUME RAInv, Draw PROVE RAInv'
  OBVIOUS
<1> USE DEF RAInv
<1>1. /\ totalEntryBits \in Nat /\ totalEntryBits < HashBits /\ HashBits \in Nat
      /\ bits \in Nat /\ shifted \in Nat /\ rhash \in Nat
      /\ bits = HashBits - shifted /\ bits >= totalEntryBits
      /\ totalEntryBits' = totalEntryBits
  BY HashAssumption DEF RATypeOK, NeverShortOfBits, Draw
<1>2. /\ drawn.hash = rhash /\ drawn.from = shifted /\ drawn.to = shifted + totalEntryBits
      /\ drawn.to <= HashBits
      /\ drawn \in [hash : Nat, from : Nat, to : Nat]
      /\ draws' = draws \cup {drawn}
  BY <1>1 DEF drawn, Draw
<1>3. \/ rhash' = rhash + 1 /\ bits' = HashBits /\ shifted' = 0
      \/ /\ rhash' = rhash /\ bits' = bits - totalEntryBits
         /\ shifted' = shifted + totalEntryBits
         /\ bits' >= totalEntryBits
  BY <1>1 DEF Draw
<1>4. RATypeOK' /\ bits' = HashBits - shifted' /\ NeverShortOfBits'
  <2>1. bits' \in 0..HashBits /\ rhash' \in Nat /\ shifted' \in Nat
    BY <1>1, <1>3
  <2>2. draws' \subseteq [hash : Nat, from : Nat, to : Nat]
    BY <1>2 DEF RATypeOK
  <2>3. bits' = HashBits - shifted' /\ bits' >= totalEntryBits'
    BY <1>1, <1>3
  <2> QED BY <1>1, <2>1, <2>2, <2>3 DEF RATypeOK, NeverShortOfBits
<1>5. \A d \in draws : d.hash \in Nat /\ d.from \in Nat /\ d.to \in Nat
  BY DEF RATypeOK
<1>6. \A d \in draws' : d.hash <= rhash'
  BY <1>1, <1>2, <1>3, <1>5
<1>7. \A d \in draws' : d.from >= 0 /\ d.to <= HashBits
  BY <1>1, <1>2, <1>5 DEF FreshBits
<1>8. \A d \in draws' : d.hash = rhash' => d.to <= shifted'
  <2>1. CASE rhash' = rhash + 1
    BY <2>1, <1>1, <1>2, <1>5
  <2>2. CASE rhash' = rhash /\ shifted' = shifted + totalEntryBits
    BY <2>2, <1>1, <1>2, <1>5 DEF FreshBits
  <2> QED BY <2>1, <2>2, <1>3
<1>9. \A d, e \in draws' : d.hash = e.hash => d = e \/ d.to <= e.from \/ e.to <= d.from
  <2>1. \A d \in draws : d.hash = drawn.hash => d.to <= drawn.from
    BY <1>2 DEF FreshBits
  <2> QED BY <2>1, <1>2 DEF FreshBits
<1> QED BY <1>4, <1>6, <1>7, <1>8, <1>9 DEF FreshBits

LEMMA RAStutter == RAInv /\ UNCHANGED raVars => RAInv'
BY DEF raVars, RAInv, RATypeOK, NeverShortOfBits, FreshBits

(***************************************************************************)
(* Drawing slots never runs out of bits, so that the subtraction in        *)
(* _calculateRandomAccess() never reverts, and no draw uses a bit that     *)
(* another has used or that the hash does not have.                        *)
(***************************************************************************)
THEOREM DrawsAreFresh == RASpec => [](NeverShortOfBits /\ FreshBits)
<1>1. RAInv /\ [Draw]_raVars => RAInv'
  BY DrawStep, RAStutter
<1>2. RAInv => NeverShortOfBits /\ FreshBits
  BY DEF RAInv
<1> QED BY RAInitInv, <1>1, <1>2, PTL DEF RASpec

(***************************************************************************)
(* The first half by itself: the counter of bits never runs out.           *)
(***************************************************************************)
THEOREM BitsSuffice == RASpec => []NeverShortOfBits
<1> QED BY DrawsAreFresh, PTL
-----------------------------------------------------------------------------
(***************************************************************************)
(* Commitments and proofs of chunks, from what MerkleLib_proofs says of    *)
(* two values and of one tree.                                             *)
(***************************************************************************)
CommitmentTypeOK ==
  /\ chunkSize \in ChunkSizes
  /\ data \in Seq(Byte) /\ other \in Seq(Byte)

LEMMA CommitmentTyped == CommitmentSpec => []CommitmentTypeOK
<1>1. CommitmentInit => CommitmentTypeOK
  BY DEF CommitmentInit, CommitmentTypeOK
<1>2. ASSUME CommitmentTypeOK, [NextByte]_commitmentVars PROVE CommitmentTypeOK'
  <2>1. CASE NextByte
    <3>1. PICK b \in Byte : \/ data' = Append(data, b) /\ other' = other
                            \/ other' = Append(other, b) /\ data' = data
      BY <2>1 DEF NextByte
    <3>2. chunkSize' = chunkSize
      BY <2>1 DEF NextByte
    <3>3. data \in Seq(Byte) /\ other \in Seq(Byte) /\ chunkSize \in ChunkSizes
      BY <1>2 DEF CommitmentTypeOK
    <3>4. data' \in Seq(Byte) /\ other' \in Seq(Byte)
      <4>1. Append(data, b) \in Seq(Byte) /\ Append(other, b) \in Seq(Byte)
        BY <3>3
      <4> QED BY <3>1, <3>3, <4>1, Zenon
    <3> QED BY <3>2, <3>3, <3>4 DEF CommitmentTypeOK
  <2>2. CASE UNCHANGED commitmentVars
    BY <1>2, <2>2 DEF CommitmentTypeOK, commitmentVars
  <2> QED BY <1>2, <2>1, <2>2
<1> QED BY <1>1, <1>2, PTL DEF CommitmentSpec

LEMMA LeafDef ==
  ASSUME NEW nBits \in Nat, NEW i \in 0..(2 ^ nBits - 1)
  PROVE  leaf(nBits, i) = leafAt(data, chunkSize, i)
<1>1. leaves(data, chunkSize, 2 ^ nBits) = [k \in 0..(2 ^ nBits - 1) |-> leafAt(data, chunkSize, k)]
  BY LeavesDef
<1> QED BY <1>1, Zenon DEF leaf

(***************************************************************************)
(* The proof of a chunk accepts that chunk and nothing else.               *)
(***************************************************************************)
THEOREM ProofsAcceptTheirChunks == CommitmentSpec => []ProofAcceptsItsChunk
<1>1. ProofAcceptsItsChunk
  <2> SUFFICES ASSUME NEW nBits \in 0..MaxTreeBits,
                      NEW i \in 0..(2 ^ nBits - 1), NEW j \in 0..(2 ^ nBits - 1)
               PROVE  verify(leaf(nBits, j), i, root(nBits), proof(nBits, i))
                        <=> leaf(nBits, j) = leaf(nBits, i)
    BY DEF ProofAcceptsItsChunk
  <2>1. nBits \in Nat
    BY TreesAssumption
  <2>2. leaf(nBits, i) = leafAt(data, chunkSize, i)
    BY <2>1, LeafDef
  <2>3. verify(leaf(nBits, i), i, root(nBits), proof(nBits, i))
    BY <2>1, <2>2, ProofsAccept, Zenon DEF root, proof
  <2>4. ASSUME verify(leaf(nBits, j), i, root(nBits), proof(nBits, i))
        PROVE  leaf(nBits, j) = leaf(nBits, i)
    <3>1. PICK proofs : proofs = proof(nBits, i)
      OBVIOUS
    <3>2. PICK Sibling : proofs \in Seq(Sibling)
      BY <2>1, <3>1, ProofIsSequence DEF proof
    <3>3. Len(proofs) = nBits
      BY <2>1, <3>1, ProofIsSequence DEF proof
    <3>4. verify(leaf(nBits, j), i, merkleRoot(data, chunkSize, nBits), proofs)
      BY <2>4, <3>1, Zenon DEF root
    <3>5. i \in 0..(2 ^ Len(proofs) - 1)
      BY <3>3
    <3>6. leaf(nBits, j) = leafAt(data, chunkSize, i)
      BY <2>1, <3>2, <3>3, <3>4, <3>5, ProofsBindLeaves
    <3> QED BY <2>2, <3>6
  <2> QED BY <2>3, <2>4
<1> QED BY <1>1, PTL

(***************************************************************************)
(* No proof of a chunk is good for another place in the tree, unless the   *)
(* same content is there.                                                  *)
(***************************************************************************)
THEOREM ProofsBindPositions == CommitmentSpec => []ProofBindsPosition
<1>1. ProofBindsPosition
  <2> SUFFICES ASSUME NEW nBits \in 0..MaxTreeBits,
                      NEW i \in 0..(2 ^ nBits - 1), NEW j \in 0..(2 ^ nBits - 1),
                      verify(leaf(nBits, j), i, root(nBits), proof(nBits, j))
               PROVE  leaf(nBits, j) = leaf(nBits, i)
    BY DEF ProofBindsPosition
  <2>1. nBits \in Nat
    BY TreesAssumption
  <2>2. leaf(nBits, i) = leafAt(data, chunkSize, i)
    BY <2>1, LeafDef
  <2>3. PICK proofs : proofs = proof(nBits, j)
    OBVIOUS
  <2>4. PICK Sibling : proofs \in Seq(Sibling)
    BY <2>1, <2>3, ProofIsSequence DEF proof
  <2>5. Len(proofs) = nBits
    BY <2>1, <2>3, ProofIsSequence DEF proof
  <2>6. verify(leaf(nBits, j), i, merkleRoot(data, chunkSize, nBits), proofs)
    BY <2>3, Zenon DEF root
  <2>7. i \in 0..(2 ^ Len(proofs) - 1)
    BY <2>5
  <2>8. leaf(nBits, j) = leafAt(data, chunkSize, i)
    BY <2>1, <2>4, <2>5, <2>6, <2>7, ProofsBindLeaves
  <2> QED BY <2>2, <2>8
<1> QED BY <1>1, PTL

(***************************************************************************)
(* The commitment is the root of the smallest tree.                        *)
(***************************************************************************)
THEOREM MinTreesAreSmallest == CommitmentSpec => []MinTreeIsSmallest
<1>1. CommitmentTypeOK => MinTreeIsSmallest
  <2> SUFFICES ASSUME CommitmentTypeOK, NEW nBits \in 0..MaxTreeBits
               PROVE  IF Len(data) = 0
                      THEN merkleRootWithMinTree(data, chunkSize) = ZeroHash
                      ELSE 2 ^ nBits * chunkSize >= Len(data)
                             /\ (nBits = 0 \/ 2 ^ (nBits - 1) * chunkSize < Len(data))
                           => merkleRootWithMinTree(data, chunkSize) = root(nBits)
    BY Zenon DEF MinTreeIsSmallest
  <2>1. /\ data \in Seq(Byte) /\ chunkSize \in Nat \ {0} /\ Len(data) \in Nat
        /\ chunkSize \in Nat /\ nBits \in Nat
    BY TreesAssumption DEF CommitmentTypeOK
  <2>2. CASE Len(data) = 0
    BY <2>2, Zenon DEF merkleRootWithMinTree
  <2>3. ASSUME Len(data) # 0, 2 ^ nBits * chunkSize >= Len(data),
               nBits = 0 \/ 2 ^ (nBits - 1) * chunkSize < Len(data)
        PROVE  merkleRootWithMinTree(data, chunkSize) = root(nBits)
    <3>1. PICK b \in Nat : /\ Depth(data, chunkSize, b)
                           /\ merkleRootWithMinTree(data, chunkSize) = merkleRoot(data, chunkSize, b)
      BY <2>1, <2>3, MinTree
    <3>2. \A a \in Nat : a < nBits => 2 ^ a * chunkSize < Len(data)
      <4> SUFFICES ASSUME NEW a \in Nat, a < nBits
                   PROVE  2 ^ a * chunkSize < Len(data)
        OBVIOUS
      <4>1. PICK p \in Nat : p = 2 ^ a
        BY PowersPositive
      <4>2. PICK q \in Nat : q = 2 ^ (nBits - 1)
        BY <2>1, PowersPositive
      <4>3. p <= q
        <5>1. CASE a = nBits - 1
          BY <5>1, <4>1, <4>2
        <5>2. CASE a < nBits - 1
          <6>1. 2 * 2 ^ a <= 2 ^ (nBits - 1)
            BY <2>1, <5>2, PowersRise
          <6> QED BY <4>1, <4>2, <6>1
        <5> QED BY <2>1, <5>1, <5>2
      <4>4. p * chunkSize <= q * chunkSize
        BY <2>1, <4>3, MulMono
      <4>5. q * chunkSize < Len(data)
        BY <2>1, <2>3, <4>2
      <4>6. PICK x, y \in Nat : x = p * chunkSize /\ y = q * chunkSize
        BY <2>1
      <4> QED BY <2>1, <4>1, <4>4, <4>5, <4>6
    <3>3. Depth(data, chunkSize, nBits)
      <4>1. Len(data) <= 2 ^ nBits * chunkSize
        <5>1. PICK p \in Nat : p = 2 ^ nBits
          BY <2>1, PowersPositive
        <5>2. PICK x \in Nat : x = p * chunkSize
          BY <2>1
        <5> QED BY <2>1, <2>3, <5>1, <5>2
      <4> QED BY <3>2, <4>1 DEF Depth
    <3>4. b = nBits
      BY <2>1, <3>1, <3>3, DepthIsUnique
    <3> QED BY <3>1, <3>4 DEF root
  <2> QED BY <2>2, <2>3
<1> QED BY <1>1, CommitmentTyped, PTL

(***************************************************************************)
(* Values of any length that have the same commitment are the same.        *)
(***************************************************************************)
THEOREM CommitmentsIdentify == CommitmentSpec => []CommitmentBinds
<1>1. CommitmentTypeOK => CommitmentBinds
  BY TreesAssumption, CommitmentsBind DEF CommitmentTypeOK, CommitmentBinds
<1> QED BY <1>1, CommitmentTyped, PTL
-----------------------------------------------------------------------------
(***************************************************************************)
(* The chain of hashes: where the words of an answer are in memory; one    *)
(* turn of the contract's loop, which leaves memory as it was; and the two *)
(* loops, turn by turn.                                                    *)
(***************************************************************************)
LEMMA WordPlace ==
  ASSUME NEW q \in Nat, NEW s \in Nat \ {0}, NEW k \in Nat, k < s
  PROVE  (q * s + k) \div s = q /\ (q * s + k) % s = k
<1> DEFINE p == q * s
<1>1. p \in Nat
  OBVIOUS
<1>2. (p + k) \div s = q
  <2> DEFINE d == (p + k) \div s
  <2>1. d \in Nat /\ d * s <= p + k /\ p + k < d * s + s
    BY <1>1, DivDef
  <2> HIDE DEF d
  <2>2. d * s \in Nat
    BY <2>1
  <2>3. ~(d < q)
    <3> SUFFICES ASSUME d + 1 <= q PROVE FALSE
      BY <2>1
    <3>1. (d + 1) * s <= p
      BY <2>1, MulMono
    <3>2. (d + 1) * s = d * s + s
      BY <2>1
    <3> HIDE DEF p
    <3> QED BY <1>1, <2>1, <2>2, <3>1, <3>2
  <2>4. ~(q < d)
    <3> SUFFICES ASSUME q + 1 <= d PROVE FALSE
      BY <2>1
    <3>1. (q + 1) * s <= d * s
      BY <2>1, MulMono
    <3>2. (q + 1) * s = p + s
      OBVIOUS
    <3> HIDE DEF p
    <3> QED BY <1>1, <2>1, <2>2, <3>1, <3>2
  <2>5. d = q
    BY <2>1, <2>3, <2>4
  <2> QED BY <2>5 DEF d
<1>3. (p + k) % s = (p + k) - s * ((p + k) \div s)
  <2> HIDE DEF p
  <2> QED BY <1>1
<1>4. s * q = p
  OBVIOUS
<1> HIDE DEF p
<1>5. (p + k) % s = k
  BY <1>1, <1>2, <1>3, <1>4
<1> QED BY <1>2, <1>5 DEF p

\* The words of an answer in memory; and a hash and those of an answer.
wordOf(answer, k) == IF k = 0 THEN lengthWord(chunkWords) ELSE answer[k]
after(hash, answer, N) == [k \in 1..(N + 1) |-> IF k = 1 THEN hash ELSE answer[k - 1]]

LEMMA MemoryAt ==
  ASSUME ChainAssumption,
         NEW answers \in Seq([1..chunkWords -> DataWord]), NEW behind \in Seq(DataWord),
         NEW i \in 1..Len(answers), NEW k \in 0..chunkWords
  PROVE  /\ dataAt(i) + k \in 1..(Len(answers) * stride + Len(behind))
         /\ memoryOf(answers, behind)[dataAt(i) + k] = wordOf(answers[i], k)
<1> DEFINE N == Len(answers)
           s == stride
           q == i - 1
<1>1. N \in Nat /\ Len(behind) \in Nat /\ q \in Nat /\ q + 1 <= N /\ q + 1 = i
  OBVIOUS
<1>2. s \in Nat \ {0} /\ k \in Nat /\ k < s
  BY ChainAssumption DEF ChainAssumption, stride
<1>3. PICK a \in Nat \ {0} : a = q * s + k + 1
  <2> HIDE DEF q, s
  <2> QED BY <1>1, <1>2
<1>4. dataAt(i) + k = a
  <2>1. dataAt(i) = 1 + q * s
    BY DEF dataAt
  <2> HIDE DEF q, s
  <2>2. q * s \in Nat
    BY <1>1, <1>2
  <2> QED BY <1>2, <1>3, <2>1, <2>2
<1> HIDE DEF N, s, q
<1>5. (a - 1) \div s + 1 = i /\ (a - 1) % s = k
  <2>1. a - 1 = q * s + k
    <3>1. PICK w \in Nat : w = q * s
      BY <1>1, <1>2
    <3> QED BY <1>2, <1>3, <3>1
  <2>2. (q * s + k) \div s = q /\ (q * s + k) % s = k
    BY <1>1, <1>2, WordPlace
  <2>3. (a - 1) \div s = q /\ (a - 1) % s = k
    BY <2>1, <2>2, Zenon
  <2>4. (a - 1) \div s + 1 = q + 1
    BY <2>3, Zenon
  <2>5. q + 1 = i
    BY <1>1
  <2> QED BY <2>3, <2>4, <2>5, Zenon
<1>6. a \in 1..(N * s + Len(behind))
  <2>1. (q + 1) * s <= N * s
    <3>1. q + 1 \in Nat /\ N \in Nat /\ s \in Nat /\ q + 1 <= N
      BY <1>1, <1>2
    <3> QED BY <3>1, MulMono, Zenon
  <2>2. (q + 1) * s = q * s + s
    BY <1>1, <1>2
  <2>3. PICK v, w \in Nat : v = N * s /\ w = q * s
    BY <1>1, <1>2
  <2>4. w + s <= v /\ a = w + k + 1
    BY <1>3, <2>1, <2>2, <2>3
  <2>5. a <= v
    <3>1. PICK t \in Nat : t = s
      BY <1>2
    <3>2. k + 1 <= t /\ w + t <= v /\ a = w + k + 1
      BY <1>2, <2>4, <3>1
    <3> QED BY <1>2, <2>3, <3>2
  <2>6. a \in 1..(v + Len(behind))
    <3>1. PICK l \in Nat : l = Len(behind)
      BY <1>1
    <3>2. a \in 1..(v + l)
      BY <2>3, <2>5
    <3> QED BY <3>1, <3>2
  <2> QED BY <2>3, <2>6
<1>7. memoryOf(answers, behind)[a] =
        IF k = 0 THEN lengthWord(chunkWords) ELSE answers[i][k]
  <2>1. memoryOf(answers, behind)[a] =
          IF (a - 1) \div s + 1 > N THEN behind[a - N * s]
          ELSE IF (a - 1) % s = 0 THEN lengthWord(chunkWords)
          ELSE answers[(a - 1) \div s + 1][(a - 1) % s]
    BY <1>6 DEF memoryOf, N, s
  <2>2. ~(i > N)
    BY <1>1
  <2> HIDE DEF lengthWord
  <2> QED BY <1>5, <2>1, <2>2
<1> QED BY <1>4, <1>6, <1>7, Zenon DEF N, s, wordOf

LEMMA Prepended ==
  ASSUME NEW N \in Nat, NEW S, NEW b \in [1..N -> S], NEW h
  PROVE  <<h>> \o b = after(h, b, N)
<1> DEFINE T == S \cup {h}
           c == [k \in 1..(N + 1) |-> IF k = 1 THEN h ELSE b[k - 1]]
<1>1. b \in [1..N -> T] /\ h \in T
  OBVIOUS
<1>2. c \in [1..(N + 1) -> T]
  <2>1. \A k \in 1..(N + 1) : k # 1 => k - 1 \in 1..N
    OBVIOUS
  <2> QED BY <1>1, <2>1
<1>3. c[1] = h /\ \A k \in 2..(N + 1) : c[k] = b[k - 1]
  OBVIOUS
<1> HIDE DEF T, c
<1>4. b \in Seq(T) /\ Len(b) = N
  BY <1>1
<1>5. c \in Seq(T) /\ Len(c) = N + 1
  BY <1>2
<1>6. <<h>> \in Seq(T) /\ Len(<<h>>) = 1 /\ <<h>>[1] = h
  BY <1>1
<1>7. <<h>> \o b \in Seq(T) /\ Len(<<h>> \o b) = N + 1
  BY <1>4, <1>6
<1>8. \A k \in 1..(N + 1) : (<<h>> \o b)[k] = c[k]
  BY <1>3, <1>4, <1>6
<1>9. <<h>> \o b = c
  BY <1>5, <1>7, <1>8, SeqEqual
<1> QED BY <1>9, Zenon DEF c, after

LEMMA AnswerHashed ==
  ASSUME ChainAssumption, kvWords = chunkWords,
         NEW answers \in Seq([1..chunkWords -> DataWord]), NEW behind \in Seq(DataWord),
         NEW i \in 1..Len(answers), NEW h
  PROVE  /\ hashed(stored(memoryOf(answers, behind), dataAt(i), h), dataAt(i)) = <<h>> \o answers[i]
         /\ stored(stored(memoryOf(answers, behind), dataAt(i), h), dataAt(i), lengthWord(kvWords))
              = memoryOf(answers, behind)
<1>1. PICK D, m : /\ m = memoryOf(answers, behind) /\ D = 1..(Len(answers) * stride + Len(behind))
                  /\ m = [x \in D |-> m[x]]
  <2> DEFINE m == memoryOf(answers, behind)
             D == 1..(Len(answers) * stride + Len(behind))
  <2>1. m = [x \in D |-> m[x]]
    BY DEF memoryOf
  <2> QED BY <2>1
<1>2. PICK at \in Nat : at = dataAt(i)
  <2>1. PICK q, w \in Nat : q = i - 1 /\ w = stride
    BY ChainAssumption DEF ChainAssumption, stride
  <2>2. dataAt(i) = 1 + q * w
    BY <2>1, Zenon DEF dataAt
  <2> QED BY <2>1, <2>2
<1>3. \A k \in 0..chunkWords :
        /\ at + k \in D
        /\ m[at + k] = wordOf(answers[i], k)
  <2> SUFFICES ASSUME NEW k \in 0..chunkWords
               PROVE  /\ at + k \in D
                      /\ m[at + k] = wordOf(answers[i], k)
    OBVIOUS
  <2> QED BY <1>1, <1>2, MemoryAt, Zenon
<1>4. chunkWords \in Nat
  BY ChainAssumption DEF ChainAssumption
<1>5. at \in D /\ m[at] = lengthWord(chunkWords)
  <2>1. 0 \in 0..chunkWords /\ at + 0 = at
    BY <1>2, <1>4
  <2>2. wordOf(answers[i], 0) = lengthWord(chunkWords)
    BY DEF wordOf
  <2> QED BY <1>3, <2>1, <2>2, Zenon
<1>6. stored(stored(m, at, h), at, lengthWord(kvWords)) = m
  BY <1>1, <1>5 DEF stored
<1>7. hashed(stored(m, at, h), at) = <<h>> \o answers[i]
  <2>1. answers[i] \in [1..chunkWords -> DataWord]
    OBVIOUS
  <2>2. PICK b \in [1..chunkWords -> DataWord] : b = answers[i]
    BY <2>1
  <2>4. <<h>> \o b = after(h, b, chunkWords)
    BY <1>4, Prepended
  <2>5. \A k \in 1..(chunkWords + 1) :
          /\ at + k - 1 \in D
          /\ stored(m, at, h)[at + k - 1] = IF k = 1 THEN h ELSE b[k - 1]
    <3> SUFFICES ASSUME NEW k \in 1..(chunkWords + 1)
                 PROVE  /\ at + k - 1 \in D
                        /\ stored(m, at, h)[at + k - 1] = IF k = 1 THEN h ELSE b[k - 1]
      OBVIOUS
    <3>1. PICK j \in 0..chunkWords : j = k - 1 /\ at + k - 1 = at + j
      <4>1. k - 1 \in 0..chunkWords /\ at + k - 1 = at + (k - 1)
        BY <1>4
      <4> QED BY <4>1
    <3>2. at + j \in D /\ (j # 0 => m[at + j] = b[j])
      BY <1>3, <2>2 DEF wordOf
    <3>3. CASE k = 1
      BY <1>1, <1>5, <3>1, <3>2, <3>3 DEF stored
    <3>4. CASE k # 1
      <4>1. j # 0 /\ at + j # at
        BY <1>4, <3>1, <3>4
      <4>2. stored(m, at, h)[at + j] = m[at + j]
        BY <1>1, <3>2, <4>1 DEF stored
      <4> QED BY <3>1, <3>2, <3>4, <4>1, <4>2
    <3> QED BY <3>3, <3>4
  <2>6. DOMAIN stored(m, at, h) = D
    BY <1>1 DEF stored
  <2>7. hashed(stored(m, at, h), at) =
          [k \in 1..(chunkWords + 1) |->
             IF at + k - 1 \in D THEN stored(m, at, h)[at + k - 1] ELSE 0]
    BY <2>6, Zenon DEF hashed
  <2>8. hashed(stored(m, at, h), at) = after(h, b, chunkWords)
    BY <2>5, <2>7 DEF after
  <2> QED BY <2>2, <2>4, <2>8
<1> QED BY <1>1, <1>2, <1>6, <1>7

\* The equations of the two loops.
minersChain(g, N, answers) ==
  g = [i \in 0..N |-> IF i = 0 THEN hash0 ELSE keccak256(<<g[i - 1]>> \o answers[i])]

contractsLoop(f, answers, behind) ==
  f = [i \in 0..Len(answers) |->
         IF i = 0 THEN [hash |-> hash0, memory |-> memoryOf(answers, behind)]
         ELSE LET at     == dataAt(i)
                  memory == stored(f[i - 1].memory, at, f[i - 1].hash)
              IN  [hash   |-> keccak256(hashed(memory, at)),
                   memory |-> stored(memory, at, lengthWord(kvWords))]]

LEMMA MinersChainExists ==
  ASSUME NEW answers
  PROVE  \A N \in Nat : \E g : minersChain(g, N, answers)
<1> DEFINE S == {N \in Nat : \E g : minersChain(g, N, answers)}
<1>1. 0 \in S
  <2> DEFINE g == [i \in 0..0 |-> hash0]
  <2>1. minersChain(g, 0, answers)
    BY DEF minersChain
  <2> QED BY <2>1
<1>2. ASSUME NEW N \in Nat, N \in S PROVE N + 1 \in S
  <2>1. PICK g : minersChain(g, N, answers)
    BY <1>2
  <2> DEFINE e == [i \in 0..(N + 1) |->
                     IF i = N + 1 THEN keccak256(<<g[N]>> \o answers[N + 1]) ELSE g[i]]
             rhs == [i \in 0..(N + 1) |->
                       IF i = 0 THEN hash0 ELSE keccak256(<<e[i - 1]>> \o answers[i])]
  <2>2. \A i \in 0..(N + 1) : e[i] = rhs[i]
    <3> SUFFICES ASSUME NEW i \in 0..(N + 1) PROVE e[i] = rhs[i]
      OBVIOUS
    <3>1. CASE i = N + 1
      <4>1. e[i - 1] = g[N] /\ i # 0
        BY <3>1
      <4>2. e[i] = keccak256(<<g[N]>> \o answers[i])
        BY <3>1
      <4>3. rhs[i] = keccak256(<<e[i - 1]>> \o answers[i])
        BY <4>1
      <4> HIDE DEF e, rhs
      <4> QED BY <4>1, <4>2, <4>3, Zenon
    <3>2. CASE i = 0
      <4>1. g[0] = hash0
        BY <2>1 DEF minersChain
      <4> QED BY <3>2, <4>1
    <3>3. CASE i # 0 /\ i # N + 1
      <4>1. i \in 0..N /\ i - 1 \in 0..N
        BY <3>3
      <4>2. g[i] = keccak256(<<g[i - 1]>> \o answers[i])
        BY <2>1, <3>3, <4>1 DEF minersChain
      <4>3. e[i] = g[i] /\ e[i - 1] = g[i - 1]
        BY <3>3, <4>1
      <4>4. rhs[i] = keccak256(<<e[i - 1]>> \o answers[i])
        BY <3>3
      <4> HIDE DEF e, rhs
      <4> QED BY <4>2, <4>3, <4>4, Zenon
    <3> QED BY <3>1, <3>2, <3>3
  <2>3. e = rhs
    <3> DEFINE D == 0..(N + 1)
    <3>1. e = [i \in D |-> e[i]] /\ rhs = [i \in D |-> rhs[i]]
      OBVIOUS
    <3> HIDE DEF e, rhs
    <3> QED BY <2>2, <3>1
  <2>4. minersChain(e, N + 1, answers)
    <3> HIDE DEF e
    <3> QED BY <2>3, Zenon DEF minersChain
  <2> QED BY <2>4
<1> HIDE DEF S
<1>3. \A N \in Nat : N \in S
  BY <1>1, <1>2, Induction
<1> QED BY <1>3 DEF S

LEMMA ContractsLoopOf ==
  ASSUME ChainAssumption, kvWords = chunkWords,
         NEW answers \in Seq([1..chunkWords -> DataWord]), NEW behind \in Seq(DataWord),
         NEW g, minersChain(g, Len(answers), answers)
  PROVE  contractsLoop([i \in 0..Len(answers) |->
                          [hash |-> g[i], memory |-> memoryOf(answers, behind)]],
                       answers, behind)
<1> DEFINE N == Len(answers)
           m == memoryOf(answers, behind)
           f == [i \in 0..N |-> [hash |-> g[i], memory |-> m]]
           turn(i) == LET at     == dataAt(i)
                          memory == stored(f[i - 1].memory, at, f[i - 1].hash)
                      IN  [hash   |-> keccak256(hashed(memory, at)),
                           memory |-> stored(memory, at, lengthWord(kvWords))]
           rhs == [i \in 0..N |-> IF i = 0 THEN [hash |-> hash0, memory |-> m] ELSE turn(i)]
<1>1. N \in Nat
  OBVIOUS
<1> HIDE DEF m
<1>2. \A i \in 0..N : f[i] = rhs[i]
  <2> SUFFICES ASSUME NEW i \in 0..N PROVE f[i] = rhs[i]
    OBVIOUS
  <2>1. f[i] = [hash |-> g[i], memory |-> m]
    OBVIOUS
  <2>2. CASE i = 0
    <3>1. g[0] = hash0
      BY <1>1 DEF minersChain
    <3> QED BY <2>1, <2>2, <3>1
  <2>3. CASE i # 0
    <3>1. i - 1 \in 0..N /\ i \in 1..N
      BY <1>1, <2>3
    <3>2. f[i - 1].memory = m /\ f[i - 1].hash = g[i - 1]
      BY <3>1
    <3>3. g[i] = keccak256(<<g[i - 1]>> \o answers[i])
      BY <1>1, <2>3 DEF minersChain
    <3>4. rhs[i] = turn(i)
      BY <2>3
    <3> HIDE DEF f, rhs
    <3>5. turn(i) = [hash   |-> keccak256(hashed(stored(m, dataAt(i), g[i - 1]), dataAt(i))),
                     memory |-> stored(stored(m, dataAt(i), g[i - 1]), dataAt(i),
                                       lengthWord(kvWords))]
      BY <3>2, Zenon
    <3>6. /\ hashed(stored(m, dataAt(i), g[i - 1]), dataAt(i)) = <<g[i - 1]>> \o answers[i]
          /\ stored(stored(m, dataAt(i), g[i - 1]), dataAt(i), lengthWord(kvWords)) = m
      BY <3>1, AnswerHashed DEF m
    <3>7. turn(i) = [hash |-> g[i], memory |-> m]
      BY <3>3, <3>5, <3>6, Zenon
    <3> QED BY <2>1, <3>4, <3>7, Zenon
  <2> QED BY <2>2, <2>3
<1>3. f = rhs
  <2> DEFINE D == 0..N
  <2>1. f = [i \in D |-> f[i]] /\ rhs = [i \in D |-> rhs[i]]
    OBVIOUS
  <2> HIDE DEF f, rhs
  <2> QED BY <1>2, <2>1
<1>4. contractsLoop(f, answers, behind)
  <2> HIDE DEF f
  <2> QED BY <1>3, Zenon DEF contractsLoop, m
<1> QED BY <1>4, Zenon DEF f, m

LEMMA LoopIsChain ==
  ASSUME ChainAssumption, kvWords = chunkWords,
         NEW answers \in Seq([1..chunkWords -> DataWord]), NEW behind \in Seq(DataWord),
         NEW f, contractsLoop(f, answers, behind),
         NEW g, minersChain(g, Len(answers), answers)
  PROVE  \A i \in 0..Len(answers) :
           f[i] = [hash |-> g[i], memory |-> memoryOf(answers, behind)]
<1> DEFINE N == Len(answers)
           m == memoryOf(answers, behind)
           S == {i \in Nat : i <= N => f[i] = [hash |-> g[i], memory |-> m]}
<1>1. N \in Nat
  OBVIOUS
<1> HIDE DEF m
<1>2. 0 \in S
  <2>1. g[0] = hash0
    BY <1>1 DEF minersChain
  <2>2. f[0] = [hash |-> hash0, memory |-> m]
    BY <1>1 DEF contractsLoop, m
  <2> QED BY <2>1, <2>2
<1>3. ASSUME NEW j \in Nat, j \in S PROVE j + 1 \in S
  <2> SUFFICES ASSUME j + 1 <= N PROVE f[j + 1] = [hash |-> g[j + 1], memory |-> m]
    OBVIOUS
  <2>1. f[j] = [hash |-> g[j], memory |-> m]
    BY <1>1, <1>3
  <2>2. PICK i \in 1..N : i = j + 1 /\ i - 1 = j /\ i # 0 /\ i \in 0..N
    <3>1. j + 1 \in 1..N /\ j + 1 - 1 = j /\ j + 1 # 0 /\ j + 1 \in 0..N
      BY <1>1
    <3> QED BY <3>1
  <2>3. g[i] = keccak256(<<g[j]>> \o answers[i])
    BY <2>2 DEF minersChain
  <2>4. f[i] = [hash   |-> keccak256(hashed(stored(f[j].memory, dataAt(i), f[j].hash), dataAt(i))),
                memory |-> stored(stored(f[j].memory, dataAt(i), f[j].hash), dataAt(i),
                                  lengthWord(kvWords))]
    BY <2>2 DEF contractsLoop
  <2>5. f[j].memory = m /\ f[j].hash = g[j]
    BY <2>1
  <2>6. /\ hashed(stored(m, dataAt(i), g[j]), dataAt(i)) = <<g[j]>> \o answers[i]
        /\ stored(stored(m, dataAt(i), g[j]), dataAt(i), lengthWord(kvWords)) = m
    BY <2>2, AnswerHashed DEF m
  <2>7. f[i] = [hash |-> g[i], memory |-> m]
    BY <2>3, <2>4, <2>5, <2>6, Zenon
  <2> QED BY <2>2, <2>7
<1> HIDE DEF S
<1>4. \A i \in Nat : i \in S
  BY <1>2, <1>3, Induction
<1> QED BY <1>1, <1>4 DEF S, m

ChainTypeOK ==
  /\ maskedData \in Seq([1..chunkWords -> DataWord])
  /\ tail \in Seq(DataWord)

LEMMA ChainTyped == ChainSpec => []ChainTypeOK
<1>1. ChainInit => ChainTypeOK
  BY DEF ChainInit, ChainTypeOK
<1>2. ASSUME ChainTypeOK, [Answer \/ Allocate]_chainVars PROVE ChainTypeOK'
  <2>1. CASE Answer
    <3>1. PICK answer \in [1..chunkWords -> DataWord] :
            maskedData' = Append(maskedData, answer) /\ tail' = tail
      BY <2>1 DEF Answer
    <3> DEFINE A == [1..chunkWords -> DataWord]
    <3>2. maskedData \in Seq(A) /\ answer \in A /\ tail' \in Seq(DataWord)
      BY <1>2, <3>1 DEF ChainTypeOK
    <3> HIDE DEF A
    <3>3. maskedData' \in Seq(A)
      BY <3>1, <3>2
    <3> QED BY <3>2, <3>3 DEF ChainTypeOK, A
  <2>2. CASE Allocate
    BY <1>2, <2>2 DEF Allocate, ChainTypeOK
  <2>3. CASE UNCHANGED chainVars
    BY <1>2, <2>3 DEF ChainTypeOK, chainVars
  <2> QED BY <1>2, <2>1, <2>2, <2>3
<1> QED BY <1>1, <1>2, PTL DEF ChainSpec

(***************************************************************************)
(* When a chunk is as large as a value, the contract computes the chain    *)
(* that the miner has computed, for any number of answers and whatever is  *)
(* behind them in memory.  (For smaller chunks it does not: run            *)
(* hash_chain.)                                                            *)
(***************************************************************************)
THEOREM ChainsMatch ==
  ASSUME kvWords = chunkWords
  PROVE  ChainSpec => []ChainMatchesMiner
<1>1. ChainTypeOK => ChainMatchesMiner
  <2> SUFFICES ASSUME ChainTypeOK PROVE ChainMatchesMiner
    OBVIOUS
  <2> DEFINE N == Len(maskedData)
             chain[i \in 0..N] ==
               IF i = 0 THEN hash0 ELSE keccak256(<<chain[i - 1]>> \o maskedData[i])
             loop[i \in 0..N] ==
               IF i = 0 THEN [hash |-> hash0, memory |-> memoryOf(maskedData, tail)]
               ELSE LET at     == dataAt(i)
                        memory == stored(loop[i - 1].memory, at, loop[i - 1].hash)
                    IN  [hash   |-> keccak256(hashed(memory, at)),
                         memory |-> stored(memory, at, lengthWord(kvWords))]
  <2>1. N \in Nat /\ maskedData \in Seq([1..chunkWords -> DataWord]) /\ tail \in Seq(DataWord)
    BY DEF ChainTypeOK
  <2>2. PICK g : minersChain(g, N, maskedData)
    <3> HIDE DEF N
    <3> QED BY <2>1, MinersChainExists
  <2>3. minersChain(chain, N, maskedData)
    BY <2>2, Zenon DEF minersChain
  <2>4. \E f : contractsLoop(f, maskedData, tail)
    BY <2>1, <2>2, ContractsLoopOf, ChainAssumption
  <2>5. contractsLoop(loop, maskedData, tail)
    BY <2>4, Zenon DEF contractsLoop
  <2>6. chainOnChain(maskedData, tail) = loop[N].hash
    BY Zenon DEF chainOnChain
  <2>7. chainOffChain(maskedData) = chain[N]
    BY Zenon DEF chainOffChain
  <2> HIDE DEF chain, loop
  <2>8. loop[N] = [hash |-> chain[N], memory |-> memoryOf(maskedData, tail)]
    BY <2>1, <2>3, <2>5, LoopIsChain, ChainAssumption
  <2>9. loop[N].hash = chain[N]
    BY <2>8
  <2> QED BY <2>6, <2>7, <2>9, Zenon DEF ChainMatchesMiner
<1> QED BY <1>1, ChainTyped, PTL
-----------------------------------------------------------------------------
(***************************************************************************)
(* The loops of _xorData().  A loop is a function of the turns it has      *)
(* taken; that there is one, for every number of turns, has to be shown    *)
(* of each loop.                                                           *)
(***************************************************************************)
LEMMA XorLoopDef ==
  ASSUME NEW mix, NEW d, Len(mix) \in Nat
  PROVE  LET loop == xorLoop(mix, d)
         IN  /\ loop[0] = mix
             /\ \A w \in 0..Len(mix) - 1 :
                  loop[w + 1] = xorWord(loop[w], d, w)
<1> DEFINE loop         == xorLoop(mix, d)
           start        == mix
           turn(m, w) == xorWord(m, d, w)
           isLoop(f, t) == f = [w \in 0..t |-> IF w = 0 THEN start ELSE turn(f[w - 1], w - 1)]
           S            == {t \in Nat : \E f : isLoop(f, t)}
<1>1. 0 \in S
  <2>1. isLoop([w \in 0..0 |-> start], 0)
    OBVIOUS
  <2> QED BY <2>1
<1>2. ASSUME NEW t \in Nat, t \in S PROVE t + 1 \in S
  <2>1. PICK f : isLoop(f, t)
    BY <1>2
  <2> DEFINE g == [w \in 0..t + 1 |-> IF w = 0 THEN start ELSE turn(f[w - 1], w - 1)]
  <2> HIDE DEF turn, start
  <2>2. \A w \in 0..t : g[w] = f[w]
    BY <2>1
  <2>3. \A w \in 0..t + 1 :
          w # 0 => turn(f[w - 1], w - 1) = turn(g[w - 1], w - 1)
    <3> HIDE DEF g, isLoop
    <3>1. \A w \in 0..t + 1 : w # 0 => w - 1 \in 0..t
      OBVIOUS
    <3> QED BY <2>2, <3>1
  <2>4. isLoop(g, t + 1)
    BY <2>3
  <2> HIDE DEF isLoop
  <2> QED BY <2>4
<1>3. Len(mix) \in S
  <2> HIDE DEF S
  <2> QED BY <1>1, <1>2, Induction
<1>4. isLoop(loop, Len(mix))
  BY <1>3, Zenon DEF xorLoop
<1> HIDE DEF turn, start, loop
<1>5. /\ loop[0] = start
      /\ \A w \in 0..Len(mix) - 1 : loop[w + 1] = turn(loop[w], w)
  BY <1>4
<1> QED BY <1>5 DEF turn, start, loop

LEMMA XorLoop4Def ==
  ASSUME NEW mix, NEW d, Len(mix) \in Nat
  PROVE  LET loop == xorLoop4(mix, d)
         IN  /\ loop[0] = mix
             /\ \A w \in 0..Len(mix) - 1 :
                  loop[w + 1] = xorFour(loop[w], d, 4 * w)
<1> DEFINE loop         == xorLoop4(mix, d)
           start        == mix
           turn(m, w) == xorFour(m, d, 4 * w)
           isLoop(f, t) == f = [w \in 0..t |-> IF w = 0 THEN start ELSE turn(f[w - 1], w - 1)]
           S            == {t \in Nat : \E f : isLoop(f, t)}
<1>1. 0 \in S
  <2>1. isLoop([w \in 0..0 |-> start], 0)
    OBVIOUS
  <2> QED BY <2>1
<1>2. ASSUME NEW t \in Nat, t \in S PROVE t + 1 \in S
  <2>1. PICK f : isLoop(f, t)
    BY <1>2
  <2> DEFINE g == [w \in 0..t + 1 |-> IF w = 0 THEN start ELSE turn(f[w - 1], w - 1)]
  <2> HIDE DEF turn, start
  <2>2. \A w \in 0..t : g[w] = f[w]
    BY <2>1
  <2>3. \A w \in 0..t + 1 :
          w # 0 => turn(f[w - 1], w - 1) = turn(g[w - 1], w - 1)
    <3> HIDE DEF g, isLoop
    <3>1. \A w \in 0..t + 1 : w # 0 => w - 1 \in 0..t
      OBVIOUS
    <3> QED BY <2>2, <3>1
  <2>4. isLoop(g, t + 1)
    BY <2>3
  <2> HIDE DEF isLoop
  <2> QED BY <2>4
<1>3. Len(mix) \in S
  <2> HIDE DEF S
  <2> QED BY <1>1, <1>2, Induction
<1>4. isLoop(loop, Len(mix))
  BY <1>3, Zenon DEF xorLoop4
<1> HIDE DEF turn, start, loop
<1>5. /\ loop[0] = start
      /\ \A w \in 0..Len(mix) - 1 : loop[w + 1] = turn(loop[w], w)
  BY <1>4
<1> QED BY <1>5 DEF turn, start, loop

(***************************************************************************)
(* The mix with the data xored into its first words.                       *)
(***************************************************************************)
xored(mix, d, bytes, words) ==
  [k \in 1..bytes |-> IF (k - 1) \div WordBytes < words THEN xor(mix[k], d[k]) ELSE mix[k]]

xoredAll(mix, d, bytes) == [k \in 1..bytes |-> xor(mix[k], d[k])]

LEMMA XoredWord ==
  ASSUME NEW mix, NEW d, NEW bytes \in Nat, NEW w \in Nat
  PROVE  /\ xorWord(xored(mix, d, bytes, w), d, w) = xored(mix, d, bytes, w + 1)
         /\ Len(xored(mix, d, bytes, w)) = bytes
<1> DEFINE m == xored(mix, d, bytes, w)
<1>1. /\ Len(m) = bytes
      /\ \A k \in 1..bytes :
           m[k] = IF (k - 1) \div WordBytes < w THEN xor(mix[k], d[k]) ELSE mix[k]
  BY DEF xored
<1>2. \A k \in 1..bytes : (k - 1) \div WordBytes \in Nat
  BY WordAssumption, DivDef
<1> HIDE DEF m
<1>3. xorWord(m, d, w)
        = [k \in 1..bytes |-> IF (k - 1) \div WordBytes = w THEN xor(m[k], d[k]) ELSE m[k]]
  BY <1>1 DEF xorWord
<1>4. \A k \in 1..bytes :
        (IF (k - 1) \div WordBytes = w THEN xor(m[k], d[k]) ELSE m[k])
          = IF (k - 1) \div WordBytes < w + 1 THEN xor(mix[k], d[k]) ELSE mix[k]
  BY <1>1, <1>2
<1>5. xorWord(m, d, w) = xored(mix, d, bytes, w + 1)
  BY <1>3, <1>4, Zenon DEF xored
<1> QED BY <1>1, <1>5 DEF m

LEMMA XoredNone ==
  ASSUME NEW mix, NEW d, NEW bytes \in Nat
  PROVE  xored(mix, d, bytes, 0) = [k \in 1..bytes |-> mix[k]]
<1>1. \A k \in 1..bytes : (k - 1) \div WordBytes \in Nat
  <2> TAKE k \in 1..bytes
  <2>1. k - 1 \in Nat
    OBVIOUS
  <2> QED BY <2>1, WordAssumption, DivDef
<1>2. \A k \in 1..bytes : ~((k - 1) \div WordBytes < 0)
  BY <1>1
<1> QED BY <1>2 DEF xored

(***************************************************************************)
(* All words of it: what Python computes at once.                          *)
(***************************************************************************)
LEMMA XoredAll ==
  ASSUME NEW mix, NEW d, NEW words \in Nat, NEW bytes, bytes = words * WordBytes
  PROVE  xored(mix, d, bytes, words) = xoredAll(mix, d, bytes)
<1>1. bytes \in Nat
  BY WordAssumption
<1>2. \A k \in 1..bytes : (k - 1) \div WordBytes < words
  <2> TAKE k \in 1..bytes
  <2>1. k - 1 \in Nat /\ k - 1 < words * WordBytes
    BY <1>1
  <2> QED BY <2>1, DivBelow, WordAssumption
<1> QED BY <1>2 DEF xored, xoredAll

LEMMA XorDataDef ==
  ASSUME NEW words \in Nat, NEW bytes, bytes = words * WordBytes,
         NEW mix, mix = [k \in 1..bytes |-> mix[k]], NEW d
  PROVE  _xorData(mix, d) = xoredAll(mix, d, bytes)
<1>1. bytes \in Nat /\ bytes \div WordBytes = words
  BY WordAssumption, DivOfProduct
<1>2. Len(mix) = bytes
  BY <1>1
<1>3. words <= bytes
  <2>1. 1 * words <= WordBytes * words
    BY WordAssumption, MulMono
  <2> QED BY <2>1, WordAssumption
<1> DEFINE S == {w \in Nat : w <= words => xorLoop(mix, d)[w] = xored(mix, d, bytes, w)}
<1>4. 0 \in S
  BY <1>1, <1>2, XorLoopDef, XoredNone
<1>5. ASSUME NEW w \in Nat, w \in S PROVE w + 1 \in S
  <2>1. SUFFICES ASSUME w + 1 <= words
                 PROVE  xorLoop(mix, d)[w + 1] = xored(mix, d, bytes, w + 1)
    OBVIOUS
  <2>2. xorLoop(mix, d)[w] = xored(mix, d, bytes, w) /\ w \in 0..Len(mix) - 1
    BY <1>1, <1>2, <1>3, <1>5, <2>1
  <2> QED BY <2>2, <1>1, <1>2, XorLoopDef, XoredWord
<1> HIDE DEF S
<1>6. words \in S
  BY <1>4, <1>5, Induction
<1>7. xorLoop(mix, d)[words] = xored(mix, d, bytes, words)
  BY <1>6 DEF S
<1>8. _xorData(mix, d) = xorLoop(mix, d)[words]
  BY <1>1, <1>2 DEF _xorData
<1>9. xored(mix, d, bytes, words) = xoredAll(mix, d, bytes)
  BY XoredAll
<1> QED BY <1>7, <1>8, <1>9, Zenon

(***************************************************************************)
(* Four words at a time.                                                   *)
(***************************************************************************)
LEMMA XorData4Def ==
  ASSUME NEW fours \in Nat, NEW bytes, bytes = fours * (4 * WordBytes),
         NEW mix, mix = [k \in 1..bytes |-> mix[k]], NEW d
  PROVE  _xorData4(mix, d) = xoredAll(mix, d, bytes)
<1>0. PICK four \in Nat \ {0} : four = 4 * WordBytes
  BY WordAssumption
<1>1. bytes \in Nat /\ bytes \div four = fours
  BY <1>0, DivOfProduct
<1>2. Len(mix) = bytes
  BY <1>1
<1>3. fours <= bytes
  <2>1. 1 * fours <= four * fours
    BY MulMono
  <2> QED BY <1>0, <2>1
<1> DEFINE S == {t \in Nat : t <= fours => xorLoop4(mix, d)[t] = xored(mix, d, bytes, 4 * t)}
<1>4. 0 \in S
  <2>1. xorLoop4(mix, d)[0] = mix /\ 4 * 0 = 0
    BY <1>1, <1>2, XorLoop4Def
  <2>2. xored(mix, d, bytes, 0) = mix
    BY <1>1, XoredNone
  <2> QED BY <2>1, <2>2
<1>5. ASSUME NEW t \in Nat, t \in S PROVE t + 1 \in S
  <2>1. SUFFICES ASSUME t + 1 <= fours
                 PROVE  xorLoop4(mix, d)[t + 1] = xored(mix, d, bytes, 4 * (t + 1))
    OBVIOUS
  <2>2. xorLoop4(mix, d)[t] = xored(mix, d, bytes, 4 * t) /\ t \in 0..Len(mix) - 1
    BY <1>1, <1>2, <1>3, <1>5, <2>1
  <2>3. xorLoop4(mix, d)[t + 1] = xorFour(xored(mix, d, bytes, 4 * t), d, 4 * t)
    BY <2>2, <1>1, <1>2, XorLoop4Def
  <2>4. PICK w \in Nat : w = 4 * t
    OBVIOUS
  <2>5. w + 1 \in Nat /\ w + 2 \in Nat /\ w + 3 \in Nat /\ 4 * (t + 1) = w + 3 + 1
        /\ w + 1 + 1 = w + 2 /\ w + 2 + 1 = w + 3
    BY <2>4
  <2>6. \A v \in Nat : xorWord(xored(mix, d, bytes, v), d, v) = xored(mix, d, bytes, v + 1)
    BY <1>1, XoredWord
  <2>7. xorFour(xored(mix, d, bytes, w), d, w) = xored(mix, d, bytes, w + 3 + 1)
    BY <2>5, <2>6 DEF xorFour
  <2> QED BY <2>3, <2>4, <2>5, <2>7
<1> HIDE DEF S
<1>6. fours \in S
  BY <1>4, <1>5, Induction
<1>7. xorLoop4(mix, d)[fours] = xored(mix, d, bytes, 4 * fours)
  BY <1>6 DEF S
<1>8. PICK words \in Nat : words = 4 * fours /\ bytes = words * WordBytes
  <2>1. 4 * fours \in Nat /\ bytes = (4 * fours) * WordBytes
    BY WordAssumption
  <2> QED BY <2>1
<1>9. _xorData4(mix, d) = xorLoop4(mix, d)[fours]
  BY <1>0, <1>1, <1>2 DEF _xorData4
<1>10. xored(mix, d, bytes, words) = xoredAll(mix, d, bytes)
  BY <1>8, XoredAll
<1> QED BY <1>7, <1>8, <1>9, <1>10, Zenon
(***************************************************************************)
(* FlattenSeq() concatenates what has one length.                          *)
(***************************************************************************)
LEMMA Flat ==
  ASSUME NEW T, NEW length \in Nat, NEW t \in Nat, NEW seqs \in [1..t -> [1..length -> T]]
  PROVE  isJoined(FlattenSeq(seqs), seqs, T, length, t)
<1>1. Len(seqs) = t
  OBVIOUS
<1>2. CASE t = 0
  <2>1. FlattenSeq(seqs) = seqs /\ t * length = 0
    BY <1>1, <1>2 DEF FlattenSeq
  <2>2. seqs \in [1..0 -> T]
    BY <1>2
  <2> QED BY <1>2, <2>1, <2>2 DEF isJoined
<1>3. CASE t # 0
  <2> DEFINE flatten[i \in 1..Len(seqs)] == IF i = 1 THEN seqs[i] ELSE flatten[i - 1] \o seqs[i]
  <2>1. FlattenSeq(seqs) = flatten[t]
    <3>1. Len(seqs) # 0
      BY <1>1, <1>3
    <3>2. FlattenSeq(seqs) = flatten[Len(seqs)]
      BY <3>1, Zenon DEF FlattenSeq
    <3> QED BY <1>1, <3>2
  <2>2. \E f : Joins(f, seqs, Len(seqs))
    BY <1>1, JoinExists
  <2>3. Joins(flatten, seqs, Len(seqs))
    BY <2>2, Zenon DEF Joins
  <2> HIDE DEF flatten
  <2>4. Joins(flatten, seqs, t) /\ t \in 1..t
    BY <1>1, <1>3, <2>3
  <2>5. isJoined(flatten[t], seqs, T, length, t)
    BY <2>4, JoinOf
  <2> QED BY <2>1, <2>5
<1> QED BY <1>2, <1>3
(***************************************************************************)
(* The loops over the accesses.                                            *)
(***************************************************************************)
LEMMA AccessLoopDef ==
  ASSUME NEW shardId, NEW shardLenBits, NEW h0, NEW answers, NEW kvSize, Len(answers) \in Nat
  PROVE  LET loop == accessLoop(shardId, shardLenBits, h0, answers, kvSize)
         IN  /\ loop[0] = [mix |-> replicate(h0, kvSize), mixOff |-> 0, kvIdxs |-> << >>]
             /\ \A i \in 0..Len(answers) - 1 :
                  loop[i + 1]
                    = access(shardId, shardLenBits, h0, kvSize, answers[i + 1], loop[i], i)
<1> DEFINE loop         == accessLoop(shardId, shardLenBits, h0, answers, kvSize)
           start        == [mix |-> replicate(h0, kvSize), mixOff |-> 0, kvIdxs |-> << >>]
           turn(st, i)  == access(shardId, shardLenBits, h0, kvSize, answers[i + 1], st, i)
           isLoop(f, t) == f = [i \in 0..t |-> IF i = 0 THEN start ELSE turn(f[i - 1], i - 1)]
           S            == {t \in Nat : \E f : isLoop(f, t)}
<1>1. 0 \in S
  <2>1. isLoop([i \in 0..0 |-> start], 0)
    OBVIOUS
  <2> QED BY <2>1
<1>2. ASSUME NEW t \in Nat, t \in S PROVE t + 1 \in S
  <2>1. PICK f : isLoop(f, t)
    BY <1>2
  <2> DEFINE g == [i \in 0..t + 1 |-> IF i = 0 THEN start ELSE turn(f[i - 1], i - 1)]
  <2> HIDE DEF turn, start
  <2>2. \A i \in 0..t : g[i] = f[i]
    BY <2>1
  <2>3. \A i \in 0..t + 1 :
          i # 0 => turn(f[i - 1], i - 1) = turn(g[i - 1], i - 1)
    <3> HIDE DEF g, isLoop
    <3>1. \A i \in 0..t + 1 : i # 0 => i - 1 \in 0..t
      OBVIOUS
    <3> QED BY <2>2, <3>1
  <2>4. isLoop(g, t + 1)
    BY <2>3
  <2> HIDE DEF isLoop
  <2> QED BY <2>4
<1>3. Len(answers) \in S
  <2> HIDE DEF S
  <2> QED BY <1>1, <1>2, Induction
<1>4. isLoop(loop, Len(answers))
  BY <1>3, Zenon DEF accessLoop
<1> HIDE DEF turn, start, loop
<1>5. /\ loop[0] = start
      /\ \A i \in 0..Len(answers) - 1 : loop[i + 1] = turn(loop[i], i)
  BY <1>4
<1> QED BY <1>5 DEF turn, start, loop

LEMMA PrototypeLoopDef ==
  ASSUME NEW shardId, NEW shardLenBits, NEW h0, NEW answers, NEW kvSize, Len(answers) \in Nat
  PROVE  LET loop == accessLoop_py(shardId, kvSize, shardEntryBits, shardLenBits, h0, answers)
         IN  /\ loop[0] = [mix |-> FlattenSeq([k \in 1..kvSize \div WordBytes |-> h0]),
                            mixOff |-> 0, kvIdxs |-> << >>]
             /\ \A i \in 0..Len(answers) - 1 :
                  loop[i + 1] = access_py(shardId, kvSize, shardEntryBits, shardLenBits, h0,
                                          answers[i + 1], loop[i], i)
<1> DEFINE loop         == accessLoop_py(shardId, kvSize, shardEntryBits, shardLenBits, h0, answers)
           start        == [mix |-> FlattenSeq([k \in 1..kvSize \div WordBytes |-> h0]),
                            mixOff |-> 0, kvIdxs |-> << >>]
           turn(st, i)  == access_py(shardId, kvSize, shardEntryBits, shardLenBits, h0,
                                     answers[i + 1], st, i)
           isLoop(f, t) == f = [i \in 0..t |-> IF i = 0 THEN start ELSE turn(f[i - 1], i - 1)]
           S            == {t \in Nat : \E f : isLoop(f, t)}
<1>1. 0 \in S
  <2>1. isLoop([i \in 0..0 |-> start], 0)
    OBVIOUS
  <2> QED BY <2>1
<1>2. ASSUME NEW t \in Nat, t \in S PROVE t + 1 \in S
  <2>1. PICK f : isLoop(f, t)
    BY <1>2
  <2> DEFINE g == [i \in 0..t + 1 |-> IF i = 0 THEN start ELSE turn(f[i - 1], i - 1)]
  <2> HIDE DEF turn, start
  <2>2. \A i \in 0..t : g[i] = f[i]
    BY <2>1
  <2>3. \A i \in 0..t + 1 :
          i # 0 => turn(f[i - 1], i - 1) = turn(g[i - 1], i - 1)
    <3> HIDE DEF g, isLoop
    <3>1. \A i \in 0..t + 1 : i # 0 => i - 1 \in 0..t
      OBVIOUS
    <3> QED BY <2>2, <3>1
  <2>4. isLoop(g, t + 1)
    BY <2>3
  <2> HIDE DEF isLoop
  <2> QED BY <2>4
<1>3. Len(answers) \in S
  <2> HIDE DEF S
  <2> QED BY <1>1, <1>2, Induction
<1>4. isLoop(loop, Len(answers))
  BY <1>3, Zenon DEF accessLoop_py
<1> HIDE DEF turn, start, loop
<1>5. /\ loop[0] = start
      /\ \A i \in 0..Len(answers) - 1 : loop[i + 1] = turn(loop[i], i)
  BY <1>4
<1> QED BY <1>5 DEF turn, start, loop

(***************************************************************************)
(* Both start with the same mix ...                                        *)
(***************************************************************************)
LEMMA MixesStart ==
  ASSUME NEW T, NEW h0 \in [1..WordBytes -> T], NEW words \in Nat,
         NEW kvSize, kvSize = words * WordBytes
  PROVE  replicate(h0, kvSize) = FlattenSeq([k \in 1..kvSize \div WordBytes |-> h0])
<1> DEFINE seqs == [k \in 1..words |-> h0]
           flat == FlattenSeq(seqs)
<1>1. kvSize \div WordBytes = words /\ kvSize \in Nat
  BY WordAssumption, DivOfProduct
<1>2. isJoined(flat, seqs, T, WordBytes, words)
  <2>1. seqs \in [1..words -> [1..WordBytes -> T]]
    OBVIOUS
  <2> HIDE DEF seqs
  <2> QED BY <2>1, Flat, WordAssumption
<1>3. \A p \in 0..words - 1 : seqs[p + 1] = h0
  OBVIOUS
<1> HIDE DEF seqs, flat
<1>4. flat = [k \in 1..kvSize |-> flat[k]]
  BY <1>2 DEF isJoined
<1>5. ASSUME NEW k \in 1..kvSize PROVE flat[k] = h0[((k - 1) % WordBytes) + 1]
  <2> DEFINE p == (k - 1) \div WordBytes
             r == (k - 1) % WordBytes
  <2>1. k - 1 \in Nat /\ k - 1 < words * WordBytes
    BY <1>1
  <2>2. p \in Nat /\ r \in 0..WordBytes - 1 /\ k - 1 = p * WordBytes + r
    BY <2>1, WordAssumption, RemainderIs
  <2>3. p < words
    BY <2>1, WordAssumption, DivBelow
  <2> HIDE DEF p, r
  <2>4. p \in 0..words - 1 /\ r + 1 \in 1..WordBytes
    BY <2>2, <2>3, WordAssumption
  <2>5. flat[p * WordBytes + (r + 1)] = h0[r + 1]
    BY <1>2, <1>3, <2>4 DEF isJoined
  <2>6. p * WordBytes + (r + 1) = k
    <3>1. PICK x \in Nat : x = p * WordBytes
      BY <2>2, WordAssumption
    <3> QED BY <2>2, <3>1, WordAssumption
  <2> QED BY <2>5, <2>6 DEF r
<1>6. flat = [k \in 1..kvSize |-> h0[((k - 1) % WordBytes) + 1]]
  BY <1>4, <1>5, Zenon
<1> QED BY <1>1, <1>6, Zenon DEF replicate, flat, seqs

(***************************************************************************)
(* ... and an access does the same to it: the loop over the words, by four *)
(* or one by one, is the xor of the whole.                                 *)
(***************************************************************************)
wellMixed(st, kvSize) == st.mix = [k \in 1..kvSize |-> st.mix[k]]

LEMMA AccessesAgree ==
  ASSUME NEW words \in Nat, NEW kvSize, kvSize = words * WordBytes,
         NEW shardId, NEW shardLenBits, NEW h0, NEW answer, NEW st, NEW i, wellMixed(st, kvSize)
  PROVE  /\ access(shardId, shardLenBits, h0, kvSize, answer, st, i)
              = access_py(shardId, kvSize, shardEntryBits, shardLenBits, h0, answer, st, i)
         /\ wellMixed(access_py(shardId, kvSize, shardEntryBits, shardLenBits, h0, answer, st, i),
                      kvSize)
<1> DEFINE mix == st.mix
<1>1. _xorData(mix, answer) = xoredAll(mix, answer, kvSize)
  BY XorDataDef, Zenon DEF wellMixed
<1>2. kvSize % (4 * WordBytes) = 0 => _xorData4(mix, answer) = xoredAll(mix, answer, kvSize)
  <2> SUFFICES ASSUME kvSize % (4 * WordBytes) = 0
               PROVE  _xorData4(mix, answer) = xoredAll(mix, answer, kvSize)
    OBVIOUS
  <2>1. PICK four \in Nat \ {0} : four = 4 * WordBytes
    BY WordAssumption
  <2>2. kvSize \in Nat
    BY WordAssumption
  <2>3. PICK fours \in Nat : kvSize = fours * four
    <3>1. kvSize \div four \in Nat /\ kvSize = (kvSize \div four) * four + (kvSize % four)
      BY <2>2, RemainderIs
    <3>2. (kvSize \div four) * four + 0 = (kvSize \div four) * four
      BY <3>1
    <3> QED BY <2>1, <3>1, <3>2
  <2>4. kvSize = fours * (4 * WordBytes)
    BY <2>1, <2>3
  <2> QED BY <2>4, XorData4Def, Zenon DEF wellMixed
<1>3. [k \in 1..kvSize |-> xor(st.mix[k], answer[k])] = xoredAll(mix, answer, kvSize)
  BY Zenon DEF xoredAll
<1>4. (IF kvSize % (4 * WordBytes) = 0 THEN _xorData4(mix, answer) ELSE _xorData(mix, answer))
        = [k \in 1..kvSize |-> xor(st.mix[k], answer[k])]
  BY <1>1, <1>2, <1>3
<1>5. access(shardId, shardLenBits, h0, kvSize, answer, st, i)
        = access_py(shardId, kvSize, shardEntryBits, shardLenBits, h0, answer, st, i)
  BY <1>4, Zenon DEF access, access_py, mload
<1>6. access_py(shardId, kvSize, shardEntryBits, shardLenBits, h0, answer, st, i).mix
        = [k \in 1..kvSize |-> xor(st.mix[k], answer[k])]
  BY DEF access_py
<1>7. wellMixed(access_py(shardId, kvSize, shardEntryBits, shardLenBits, h0, answer, st, i),
                kvSize)
  BY <1>6 DEF wellMixed
<1> QED BY <1>5, <1>7

(***************************************************************************)
(* The hash of the contract is the hash of the prototype, for entries of   *)
(* any number of words, any number of answers and any content.             *)
(***************************************************************************)
THEOREM HashimotosAgree ==
  ASSUME NEW shardId, NEW shardLenBits, NEW T, NEW h0 \in [1..WordBytes -> T],
         NEW words \in Nat, NEW kvSize, kvSize = words * WordBytes,
         NEW answers, Len(answers) \in Nat
  PROVE  _hashimoto(shardId, shardLenBits, h0, answers, kvSize)
           = hashimoto_py(shardId, kvSize, shardEntryBits, shardLenBits, h0, answers)
<1> DEFINE loop    == accessLoop(shardId, shardLenBits, h0, answers, kvSize)
           loop_py == accessLoop_py(shardId, kvSize, shardEntryBits, shardLenBits, h0, answers)
           S == {t \in Nat : t <= Len(answers) =>
                               loop[t] = loop_py[t] /\ wellMixed(loop_py[t], kvSize)}
<1>1. /\ loop[0] = [mix |-> replicate(h0, kvSize), mixOff |-> 0, kvIdxs |-> << >>]
      /\ \A i \in 0..Len(answers) - 1 :
           loop[i + 1] = access(shardId, shardLenBits, h0, kvSize, answers[i + 1], loop[i], i)
  BY AccessLoopDef
<1>2. /\ loop_py[0] = [mix |-> FlattenSeq([k \in 1..kvSize \div WordBytes |-> h0]),
                       mixOff |-> 0, kvIdxs |-> << >>]
      /\ \A i \in 0..Len(answers) - 1 :
           loop_py[i + 1] = access_py(shardId, kvSize, shardEntryBits, shardLenBits, h0,
                                      answers[i + 1], loop_py[i], i)
  BY PrototypeLoopDef
<1> HIDE DEF loop, loop_py
<1>3. 0 \in S
  <2>1. loop[0] = loop_py[0]
    BY <1>1, <1>2, MixesStart, Zenon
  <2>2. loop[0].mix = replicate(h0, kvSize)
    BY <1>1
  <2>3. wellMixed(loop[0], kvSize)
    BY <2>2 DEF replicate, wellMixed
  <2> QED BY <2>1, <2>3
<1>4. ASSUME NEW t \in Nat, t \in S PROVE t + 1 \in S
  <2>1. SUFFICES ASSUME t + 1 <= Len(answers)
                 PROVE  loop[t + 1] = loop_py[t + 1] /\ wellMixed(loop_py[t + 1], kvSize)
    OBVIOUS
  <2>2. loop[t] = loop_py[t] /\ wellMixed(loop_py[t], kvSize) /\ t \in 0..Len(answers) - 1
    BY <1>4, <2>1
  <2>3. /\ loop[t + 1] = access(shardId, shardLenBits, h0, kvSize, answers[t + 1], loop[t], t)
        /\ loop_py[t + 1] = access_py(shardId, kvSize, shardEntryBits, shardLenBits, h0,
                                      answers[t + 1], loop_py[t], t)
    BY <1>1, <1>2, <2>2
  <2> QED BY <2>2, <2>3, AccessesAgree
<1>5. Len(answers) \in S
  <2> HIDE DEF S
  <2> QED BY <1>3, <1>4, Induction
<1>6. loop[Len(answers)] = loop_py[Len(answers)]
  BY <1>5
<1> QED BY <1>6, Zenon DEF _hashimoto, hashimoto_py, loop, loop_py

(***************************************************************************)
(* So it is whatever the two values are that the answers are made of.      *)
(***************************************************************************)
THEOREM HashimotoIsPrototype == CommitmentSpec => []HashimotoMatchesPrototype
<1>1. CommitmentTypeOK => HashimotoMatchesPrototype
  <2> DEFINE kvSize  == 2 * Len(data)
             answers == <<data \o other, other \o data, data \o data>>
             h0      == SubSeq(other \o data, 1, WordBytes)
  <2>1. SUFFICES ASSUME CommitmentTypeOK, Len(data) = Len(other), isKvSize(kvSize),
                        NEW shardId \in 0..1, NEW shardLenBits \in 0..1
                 PROVE  _hashimoto(shardId, shardLenBits, h0, answers, kvSize)
                          = hashimoto_py(shardId, kvSize, shardEntryBits, shardLenBits, h0, answers)
    BY Zenon DEF HashimotoMatchesPrototype
  <2>2. data \in Seq(Byte) /\ other \in Seq(Byte) /\ Len(data) \in Nat
    BY <2>1 DEF CommitmentTypeOK
  <2>3. PICK words \in Nat : words # 0 /\ kvSize = words * WordBytes
    <3>1. PICK b \in 0..kvSize : kvSize = WordBytes * 2 ^ b
      BY <2>1 DEF isKvSize
    <3>2. PICK words \in Nat \ {0} : words = 2 ^ b
      <4>1. b \in Nat
        BY <2>2
      <4> QED BY <4>1, PowersPositive
    <3>3. kvSize = words * WordBytes
      <4> HIDE DEF kvSize
      <4> QED BY <3>1, <3>2, WordAssumption
    <3> QED BY <3>3
  <2>4. h0 \in [1..WordBytes -> Byte]
    <3>1. other \o data \in Seq(Byte) /\ Len(other \o data) = kvSize
      <4>1. Len(other \o data) = Len(other) + Len(data)
        BY <2>2, ConcatProperties
      <4> QED BY <2>1, <2>2, <4>1, ConcatProperties
    <3>2. WordBytes <= kvSize
      <4>1. 1 * WordBytes <= words * WordBytes
        BY <2>3, WordAssumption, MulMono
      <4> HIDE DEF kvSize
      <4> QED BY <2>3, <4>1, WordAssumption
    <3> DEFINE s == other \o data
    <3>3. \A k \in 1..WordBytes : s[k] \in Byte
      <4> HIDE DEF s, kvSize
      <4>1. s \in Seq(Byte) /\ Len(s) = kvSize
        BY <3>1 DEF s
      <4>2. \A k \in 1..WordBytes : k \in 1..Len(s)
        BY <3>2, <4>1, WordAssumption, LenProperties
      <4> QED BY <4>1, <4>2, ElementOfSeq
    <3> HIDE DEF s
    <3>4. SubSeq(s, 1, WordBytes) \in Seq(Byte) /\ Len(SubSeq(s, 1, WordBytes)) = WordBytes
      <4>1. /\ SubSeq(s, 1, WordBytes) \in Seq(Byte)
            /\ Len(SubSeq(s, 1, WordBytes)) = IF 1 <= WordBytes THEN WordBytes - 1 + 1 ELSE 0
        BY <3>3, WordAssumption, SubSeqProperties
      <4> QED BY <4>1, WordAssumption
    <3>5. SubSeq(s, 1, WordBytes) \in [1..WordBytes -> Byte]
      BY <3>4, LenProperties
    <3> QED BY <3>5 DEF s
  <2>5. Len(answers) \in Nat
    OBVIOUS
  <2> HIDE DEF kvSize, answers, h0
  <2> QED BY <2>3, <2>4, <2>5, HashimotosAgree
<1> QED BY <1>1, CommitmentTyped, PTL
-----------------------------------------------------------------------------
(***************************************************************************)
(* The sizes that are calculated, for every epoch: the tables are left to  *)
(* TLC.  With divisors enough, trial division finds the primes.            *)
(***************************************************************************)
Prime(p) == p > 1 /\ \A d \in 2..p - 1 : p % d # 0

LEMMA TrialDivision ==
  ASSUME MaxDivisor \in Nat, NEW p \in Nat, p < (MaxDivisor + 1) * (MaxDivisor + 1)
  PROVE  isPrime(p) <=> Prime(p)
<1>1. ASSUME NEW d \in Nat, d * d <= p PROVE d <= MaxDivisor
  <2>1. SUFFICES ASSUME MaxDivisor + 1 <= d PROVE FALSE
    OBVIOUS
  <2>2. (MaxDivisor + 1) * (MaxDivisor + 1) <= d * (MaxDivisor + 1)
    BY <2>1, MulMono
  <2>3. (MaxDivisor + 1) * d <= d * d
    BY <2>1, MulMono
  <2>4. PICK a \in Nat, b \in Nat, c \in Nat :
          a = (MaxDivisor + 1) * (MaxDivisor + 1) /\ b = d * (MaxDivisor + 1) /\ c = d * d
    OBVIOUS
  <2>5. (MaxDivisor + 1) * d = b
    BY <2>4
  <2> QED BY <1>1, <2>2, <2>3, <2>4, <2>5
<1>2. ASSUME isPrime(p) PROVE Prime(p)
  <2>1. p > 1 /\ \A d \in 2..MaxDivisor : d * d <= p => p % d # 0
    BY <1>2 DEF isPrime
  <2>2. SUFFICES ASSUME NEW d \in 2..p - 1, p % d = 0 PROVE FALSE
    BY <2>1 DEF Prime
  <2>3. PICK q \in Nat : p = q * d
    <3>1. p \div d \in Nat /\ p = (p \div d) * d + (p % d)
      BY RemainderIs
    <3>2. PICK q \in Nat, m \in Nat : q = p \div d /\ m = q * d
      BY <3>1
    <3> QED BY <2>2, <3>1, <3>2
  <2>4. d \in Nat \ {0} /\ q # 0 /\ q # 1
    <3>1. q = 0 => q * d = 0
      OBVIOUS
    <3>2. q = 1 => q * d = d
      OBVIOUS
    <3> QED BY <2>1, <2>3, <3>1, <3>2
  <2>5. CASE d <= q
    <3>1. d * d <= p
      BY <2>3, <2>4, <2>5, MulMono
    <3>2. d \in 2..MaxDivisor
      BY <1>1, <2>4, <3>1
    <3> QED BY <2>1, <2>2, <3>1, <3>2
  <2>6. CASE q <= d
    <3>1. q * q <= p
      <4>1. q * q <= d * q
        BY <2>4, <2>6, MulMono
      <4>2. d * q = q * d
        OBVIOUS
      <4> QED BY <2>3, <4>1, <4>2
    <3>2. q \in 2..MaxDivisor
      BY <1>1, <2>4, <3>1
    <3>3. p % q = 0
      <4>1. (d * q + 0) % q = 0
        BY <2>4, QuotientIs
      <4>2. d * q + 0 = p
        BY <2>3
      <4> QED BY <4>1, <4>2
    <3> QED BY <2>1, <3>1, <3>2, <3>3
  <2> QED BY <2>4, <2>5, <2>6
<1>3. ASSUME Prime(p) PROVE isPrime(p)
  <2>1. SUFFICES ASSUME NEW d \in 2..MaxDivisor, d * d <= p PROVE p % d # 0
    BY <1>3 DEF Prime, isPrime
  <2>2. 2 * d <= d * d
    BY MulMono
  <2>3. PICK m \in Nat : m = d * d
    OBVIOUS
  <2>4. d \in 2..p - 1
    BY <2>1, <2>2, <2>3
  <2> QED BY <1>3, <2>4 DEF Prime
<1> QED BY <1>2, <1>3

(***************************************************************************)
(* The loop goes down by two from an odd number, past even ones.           *)
(***************************************************************************)
LEMMA DownIsHighest ==
  ASSUME MaxDivisor \in Nat, MaxDivisor >= 2, NEW start \in Nat, start >= 3, start % 2 = 1
  PROVE  downToPrime(start) \in Nat /\ HighestPrime(downToPrime(start), start + 1)
<1> DEFINE down[size \in 2..start] == IF isPrime(size) THEN size ELSE down[size - 2]
           D    == 2..start
           m    == [k \in D |-> IF isPrime(k) THEN 0 ELSE k]
           next == [k \in D |-> IF isPrime(k) THEN k ELSE k - 2]
           out  == [k \in D |-> k]
<1>1. isPrime(2) /\ isPrime(3)
  BY DEF isPrime
<1>2. m \in [D -> Nat] /\ next \in [D -> D] /\ out \in [D -> Nat]
  <2>1. \A k \in D : ~isPrime(k) => k - 2 \in D
    BY <1>1
  <2> QED BY <2>1
<1>3. Decreases(D, m, next)
  <2> SUFFICES ASSUME NEW k \in D, m[k] # 0 PROVE m[next[k]] < m[k]
    BY DEF Decreases
  <2>1. m[k] = k /\ next[k] = k - 2 /\ k - 2 \in D /\ k > 0
    BY <1>2
  <2>2. m[k - 2] \in {0, k - 2}
    BY <2>1
  <2> QED BY <2>1, <2>2
<1>4. PICK f \in [D -> Nat] : TailRecursive(f, D, m, next, out)
  <2> HIDE DEF D, m, next, out
  <2> QED BY <1>2, <1>3, TailRecursion, Zenon
<1>5. f = [size \in 2..start |-> IF isPrime(size) THEN size ELSE f[size - 2]]
  <2>1. \A k \in D : f[k] = IF isPrime(k) THEN k ELSE f[k - 2]
    <3> TAKE k \in D
    <3>1. f[k] = IF m[k] = 0 THEN out[k] ELSE f[next[k]]
      BY <1>4 DEF TailRecursive
    <3> QED BY <3>1
  <2> QED BY <1>4, <2>1
<1>6. down = [size \in 2..start |-> IF isPrime(size) THEN size ELSE down[size - 2]]
  <2> HIDE DEF D
  <2> QED BY <1>5, Zenon
<1> HIDE DEF down
<1>7. \A k \in 2..start : down[k] = IF isPrime(k) THEN k ELSE down[k - 2]
  BY <1>6
<1> DEFINE Good(k) == k >= 3 /\ k <= start /\ k % 2 = 1
                       => down[k] \in Nat /\ HighestPrime(down[k], k + 1)
           S == {k \in Nat : Good(k)}
<1>8. ASSUME NEW k \in Nat, \A i \in Nat : i < k => i \in S PROVE k \in S
  <2>1. SUFFICES ASSUME k >= 3, k <= start, k % 2 = 1
                 PROVE  down[k] \in Nat /\ HighestPrime(down[k], k + 1)
    OBVIOUS
  <2>2. CASE isPrime(k)
    <3>1. down[k] = k
      BY <1>7, <2>1, <2>2
    <3> QED BY <2>2, <3>1 DEF HighestPrime
  <2>3. CASE ~isPrime(k)
    <3>1. k >= 5 /\ (k - 2) % 2 = 1 /\ (k - 1) % 2 = 0 /\ k - 2 \in Nat /\ k - 2 < k
      BY <1>1, <2>1, <2>3
    <3>2. down[k - 2] \in Nat /\ HighestPrime(down[k - 2], (k - 2) + 1)
      <4>1. Good(k - 2)
        <5> HIDE DEF Good
        <5> QED BY <1>8, <3>1
      <4> QED BY <2>1, <3>1, <4>1
    <3>3. down[k] = down[k - 2]
      BY <1>7, <2>1, <2>3
    <3>4. ~isPrime(k - 1)
      <4>1. 2 \in 2..MaxDivisor /\ 2 * 2 <= k - 1 /\ (k - 1) % 2 = 0
        BY <3>1
      <4> QED BY <4>1 DEF isPrime
    <3>5. PICK s \in Nat : s = down[k]
      BY <3>2, <3>3
    <3>6. /\ isPrime(s) /\ s < (k - 2) + 1
          /\ \A larger \in s + 1..((k - 2) + 1) - 1 : ~isPrime(larger)
      BY <3>2, <3>3, <3>5 DEF HighestPrime
    <3>7. s < k + 1 /\ \A larger \in s + 1..(k + 1) - 1 : ~isPrime(larger)
      BY <2>3, <3>1, <3>4, <3>6
    <3> QED BY <3>5, <3>6, <3>7 DEF HighestPrime
  <2> QED BY <2>2, <2>3
<1>9. start \in S
  <2> HIDE DEF S
  <2> QED BY <1>8, StrongInduction
<1>10. downToPrime(start) = down[start]
  BY Zenon DEF downToPrime, down
<1> QED BY <1>9, <1>10

\* HighestPrime() of a threshold, with all divisors.
HighestPrimeBelow(size, threshold) ==
  /\ Prime(size) /\ size < threshold
  /\ \A larger \in size + 1..threshold - 1 : ~Prime(larger)

LEMMA CalculatedSize ==
  ASSUME MaxDivisor \in Nat, MaxDivisor >= 2, NEW h \in Nat, h >= 2,
         2 * h <= (MaxDivisor + 1) * (MaxDivisor + 1)
  PROVE  HighestPrimeBelow(downToPrime(2 * h - 1), 2 * h)
<1>1. PICK start \in Nat : start = 2 * h - 1
  OBVIOUS
<1>2. start >= 3 /\ start % 2 = 1 /\ start + 1 = 2 * h
  BY <1>1
<1>3. PICK s \in Nat : s = downToPrime(start)
  BY <1>2, DownIsHighest
<1>4. isPrime(s) /\ s < 2 * h /\ \A larger \in s + 1..2 * h - 1 : ~isPrime(larger)
  BY <1>2, <1>3, DownIsHighest DEF HighestPrime
<1>5. \A p \in Nat : p < 2 * h => (isPrime(p) <=> Prime(p))
  <2>1. PICK w \in Nat : w = (MaxDivisor + 1) * (MaxDivisor + 1)
    OBVIOUS
  <2>2. \A p \in Nat : p < 2 * h => p < (MaxDivisor + 1) * (MaxDivisor + 1)
    BY <2>1
  <2> QED BY <2>2, TrialDivision
<1>6. \A larger \in s + 1..2 * h - 1 : larger \in Nat /\ larger < 2 * h
  OBVIOUS
<1> QED BY <1>1, <1>3, <1>4, <1>5, <1>6 DEF HighestPrimeBelow

(***************************************************************************)
(* "We always take the highest prime below the linearly growing threshold" *)
(* in every epoch for which the divisors are enough: for all of them, as   *)
(* MaxDivisor is any number.  (calcDatasetSize() and calcCacheSize().)     *)
(***************************************************************************)
THEOREM CalculatedSizesAreHighestPrimes ==
  ASSUME MaxDivisor \in Nat, MaxDivisor >= 2, NEW epoch \in Nat
  PROVE  LET enough     == (MaxDivisor + 1) * (MaxDivisor + 1)
             forDataset == datasetInit + datasetGrowth * epoch
             forCache   == cacheInit + cacheGrowth * epoch
         IN  /\ forDataset <= enough => HighestPrimeBelow(calcDatasetSize(epoch), forDataset)
             /\ forCache <= enough => HighestPrimeBelow(calcCacheSize(epoch), forCache)
<1>1. PICK h \in Nat : /\ h >= 2 /\ 2 * h = datasetInit + datasetGrowth * epoch
                    /\ 2 * h - 1 = datasetInit + datasetGrowth * epoch - 1
  <2>1. PICK a \in Nat, b \in Nat : datasetInit = 2 * a /\ datasetGrowth = 2 * b /\ a >= 2
    <3>1. /\ 2 ^ (21 + 1) = 2 * 2 ^ 21 /\ 2 ^ (22 + 1) = 2 * 2 ^ 22
          /\ 2 ^ (15 + 1) = 2 * 2 ^ 15
      BY TwoPower
    <3>2. 2 ^ 21 \in Nat \ {0} /\ 2 ^ 15 \in Nat
      BY PowersPositive
    <3>3. 21 + 1 = 22 /\ 22 + 1 = 23 /\ 15 + 1 = 16
      OBVIOUS
    <3> QED BY <3>1, <3>2, <3>3 DEF datasetInit, datasetGrowth
  <2>2. PICK c \in Nat : c = b * epoch
    OBVIOUS
  <2>3. datasetGrowth * epoch = 2 * c
    <3>1. (2 * b) * epoch = 2 * (b * epoch)
      OBVIOUS
    <3> QED BY <2>1, <2>2, <3>1
  <2>4. /\ a + c \in Nat /\ a + c >= 2 /\ 2 * (a + c) = datasetInit + datasetGrowth * epoch
        /\ 2 * (a + c) - 1 = datasetInit + datasetGrowth * epoch - 1
    BY <2>1, <2>2, <2>3
  <2> QED BY <2>4
<1>2. PICK g \in Nat : /\ g >= 2 /\ 2 * g = cacheInit + cacheGrowth * epoch
                    /\ 2 * g - 1 = cacheInit + cacheGrowth * epoch - 1
  <2>1. PICK a \in Nat, b \in Nat : cacheInit = 2 * a /\ cacheGrowth = 2 * b /\ a >= 2
    <3>1. /\ 2 ^ (16 + 1) = 2 * 2 ^ 16 /\ 2 ^ (17 + 1) = 2 * 2 ^ 17
          /\ 2 ^ (10 + 1) = 2 * 2 ^ 10
      BY TwoPower
    <3>2. 2 ^ 16 \in Nat \ {0} /\ 2 ^ 10 \in Nat
      BY PowersPositive
    <3>3. 16 + 1 = 17 /\ 17 + 1 = 18 /\ 10 + 1 = 11
      OBVIOUS
    <3> QED BY <3>1, <3>2, <3>3 DEF cacheInit, cacheGrowth
  <2>2. PICK c \in Nat : c = b * epoch
    OBVIOUS
  <2>3. cacheGrowth * epoch = 2 * c
    <3>1. (2 * b) * epoch = 2 * (b * epoch)
      OBVIOUS
    <3> QED BY <2>1, <2>2, <3>1
  <2>4. /\ a + c \in Nat /\ a + c >= 2 /\ 2 * (a + c) = cacheInit + cacheGrowth * epoch
        /\ 2 * (a + c) - 1 = cacheInit + cacheGrowth * epoch - 1
    BY <2>1, <2>2, <2>3
  <2> QED BY <2>4
<1>3. /\ calcDatasetSize(epoch) = downToPrime(2 * h - 1)
      /\ calcCacheSize(epoch) = downToPrime(2 * g - 1)
  BY <1>1, <1>2, Zenon DEF calcDatasetSize, calcCacheSize
<1> QED BY <1>1, <1>2, <1>3, CalculatedSize
=============================================================================

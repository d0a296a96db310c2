--------------------------- MODULE BinaryRelated ---------------------------
(***************************************************************************)
(* contracts/BinaryRelated.sol: the fixed-point power that prices storage, *)
(* and the round-up to a power of two that sizes Merkle trees.             *)
(*                                                                         *)
(* FracBits is the number of fraction bits (128 in the code, which stores  *)
(* Q128.128 numbers in words of WordBits = 256 bits).  A checked operation *)
(* whose result needs more than a word reverts.  Loops are recursive       *)
(* functions, so that modules with proofs can use these definitions.       *)
(***************************************************************************)
EXTENDS Integers

CONSTANTS FracBits,  \* bits after the binary point (128 in the code)
          WordBits   \* bits of a word (256 in the code)

One  == 2 ^ FracBits       \* 1.0
Word == 2 ^ WordBits       \* one more than the largest word

(***************************************************************************)
(* A word is wide enough for the product of two numbers up to 1.0.         *)
(***************************************************************************)
ASSUME PowAssumption == One \in Nat \ {0} /\ Word \in Nat /\ One * One <= Word

(***************************************************************************)
(* Mutants of pow() and powFits(): the base is squared before it is used;  *)
(* the test of the exponent's bit is inverted; a product is not shifted    *)
(* back.                                                                   *)
(***************************************************************************)
powSquaresFirst(fp, n) ==
  LET loop[k \in Nat, base \in Nat, v \in Nat] ==
        LET square == (base * base) \div One
        IN  IF k = 0 THEN v
            ELSE loop[k \div 2, square, IF k % 2 = 1 THEN (v * square) \div One ELSE v]
  IN  loop[n, fp, One]

powInvertedBit(fp, n) ==
  LET loop[k \in Nat, base \in Nat, v \in Nat] ==
        IF k = 0 THEN v
        ELSE loop[k \div 2, (base * base) \div One,
                  IF k % 2 = 0 THEN (v * base) \div One ELSE v]
  IN  loop[n, fp, One]

powFitsUnshifted(fp, n) ==
  LET loop[k \in Nat, base \in Nat, v \in Nat] ==
        \/ k = 0
        \/ /\ k % 2 = 1 => v * base < Word
           /\ base * base < Word
           /\ loop[k \div 2, (base * base) \div One, IF k % 2 = 1 THEN v * base ELSE v]
  IN  loop[n, fp, One]

(***************************************************************************)
(* pow(): square-and-multiply, each product shifted back (and so rounded   *)
(* down) before the next one.  One iteration takes the last bit of what is *)
(* left of the exponent.                                                   *)
(***************************************************************************)
PowState == [n : Nat, base : Nat, v : Nat]

iteration(s) ==
  [n    |-> s.n \div 2,
   base |-> (s.base * s.base) \div One,
   v    |-> IF s.n % 2 = 1 THEN (s.v * s.base) \div One ELSE s.v]

powLoop[s \in PowState] == IF s.n = 0 THEN s.v ELSE powLoop[iteration(s)]

pow(fp, n) == powLoop[[n |-> n, base |-> fp, v |-> One]]

(***************************************************************************)
(* Whether that loop runs without a checked multiplication overflowing.    *)
(***************************************************************************)
iterationFits(s) ==
  /\ s.n % 2 = 1 => s.v * s.base < Word
  /\ s.base * s.base < Word

powFitsLoop[s \in PowState] ==
  s.n = 0 \/ (iterationFits(s) /\ powFitsLoop[iteration(s)])

powFits(fp, n) == powFitsLoop[[n |-> n, base |-> fp, v |-> One]]

(***************************************************************************)
(* n & (n - 1) for n > 0: n without its lowest set bit.                    *)
(***************************************************************************)
lowestBit[n \in Nat \ {0}] ==
  IF n % 2 = 1 THEN 1 ELSE 2 * lowestBit[n \div 2]

andPred(n) == n - lowestBit[n]

(***************************************************************************)
(* For n >= 2.  n = 0 reverts on n - 1 and n = 1 on 0 - 1 in the loop's    *)
(* condition; the only caller passes n > 1.                                *)
(***************************************************************************)
findNextPowerOf2(n) ==
  LET highestBit[m \in Nat \ {0}] ==
        IF andPred(m) = 0 THEN m ELSE highestBit[andPred(m)]
  IN  2 * highestBit[n - 1]
=============================================================================

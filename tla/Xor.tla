--------------------------------- MODULE Xor --------------------------------
(***************************************************************************)
(* The operator ^ of Go, C, Solidity and Python on unsigned numbers, from  *)
(* the last bit upwards: a recursive function, so that modules with proofs *)
(* can use it.                                                             *)
(***************************************************************************)
EXTENDS Integers

xorBits[p \in Nat \X Nat] ==
  LET sum == p[1] + p[2]
  IN  IF sum = 0 THEN 0 ELSE (sum % 2) + 2 * xorBits[<<p[1] \div 2, p[2] \div 2>>]

xor(a, b) == xorBits[<<a, b>>]
=============================================================================

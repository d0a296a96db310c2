------------------------------ MODULE Discount ------------------------------
(***************************************************************************)
(* contracts/DecentralizedKV.sol, _paymentInf(): storage is priced with    *)
(* pow(dcfFactor, seconds since startTime).  Here the seconds pass, one by *)
(* one and without a bound, for any factor up to 1.0.                      *)
(***************************************************************************)
EXTENDS BinaryRelated

CONSTANT LastExact  \* bound: the second up to which exact powers are computed

VARIABLES fp,  \* dcfFactor
          n    \* seconds since startTime

discountVars == <<fp, n>>

DiscountInit == fp \in 0..One /\ n = 0

Second == n' = n + 1 /\ UNCHANGED fp

DiscountSpec == DiscountInit /\ [][Second]_discountVars
-----------------------------------------------------------------------------
(***************************************************************************)
(* A discount below 1.0 never overflows a word, whatever the exponent:     *)
(* upfrontPayment() cannot start to revert as time passes.                 *)
(***************************************************************************)
DiscountNeverOverflows == fp < One => powFits(fp, n)

(***************************************************************************)
(* The truncated power rounds down, and by less than one unit for every    *)
(* second: the exact power, fp^n / One^(n - 1), is never below it and at   *)
(* most n - 1 above.  (Both sides are multiplied by One^(n - 1).)          *)
(***************************************************************************)
power(x, k) == LET p[j \in Nat] == IF j = 0 THEN 1 ELSE x * p[j - 1] IN p[k]

RoundsDown ==
  n \in 1..LastExact =>
    /\ pow(fp, n) * power(One, n - 1) <= power(fp, n)
    /\ power(fp, n) <= (pow(fp, n) + n - 1) * power(One, n - 1)

(***************************************************************************)
(* Storage never gets dearer as time passes, in spite of the rounding: the *)
(* subtraction pow(t0) - pow(t1) of _paymentInInterval cannot underflow.   *)
(***************************************************************************)
PriceNeverRises ==
  [][fp < One => pow(fp, n') <= pow(fp, n)]_discountVars
=============================================================================

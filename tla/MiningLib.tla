----------------------------- MODULE MiningLib -----------------------------
(***************************************************************************)
(* contracts/MiningLib.sol: the difficulty of a shard and its record.      *)
(***************************************************************************)
EXTENDS Integers

(***************************************************************************)
(* The difficulty a block mined at mineTime must meet.  The factor of the  *)
(* adjustment falls with the interval since the last block, from 1 under   *)
(* cutoff to 0 at twice cutoff and below 0 after that; the code writes it  *)
(* with unsigned numbers in two cases, split at targetIntervalSec.         *)
(***************************************************************************)
increase(interval, diff, cutoff, diffAdjDivisor) ==
  ((1 - interval \div cutoff) * diff) \div diffAdjDivisor

decrease(interval, diff, cutoff, diffAdjDivisor) ==
  ((interval \div cutoff - 1) * diff) \div diffAdjDivisor

AtLeast(diff, minDiff) == IF diff < minDiff THEN minDiff ELSE diff

expectedDiff(info, mineTime, targetIntervalSec, cutoff, diffAdjDivisor, minDiff) ==
  LET interval == mineTime - info.lastMineTime
      diff     == info.difficulty
  IN  IF interval < targetIntervalSec
      THEN AtLeast(diff + increase(interval, diff, cutoff, diffAdjDivisor), minDiff)
      ELSE LET dec == decrease(interval, diff, cutoff, diffAdjDivisor)
           IN  IF dec + minDiff > diff THEN minDiff ELSE diff - dec

(***************************************************************************)
(* Mutants of expectedDiffDefined(): a block may be older than the last;   *)
(* an interval of exactly the target falls in the first case.              *)
(***************************************************************************)
expectedDiffAnyTime(info, mineTime, targetIntervalSec, cutoff, diffAdjDivisor) ==
  LET interval == mineTime - info.lastMineTime
  IN  /\ cutoff # 0 /\ diffAdjDivisor # 0
      /\ IF interval < targetIntervalSec THEN interval \div cutoff <= 1
                                         ELSE interval \div cutoff >= 1

expectedDiffLateSplit(info, mineTime, targetIntervalSec, cutoff, diffAdjDivisor) ==
  LET interval == mineTime - info.lastMineTime
  IN  /\ interval >= 0
      /\ cutoff # 0 /\ diffAdjDivisor # 0
      /\ IF interval <= targetIntervalSec THEN interval \div cutoff <= 1
                                          ELSE interval \div cutoff >= 1

(***************************************************************************)
(* Whether no checked subtraction or division of expectedDiff() reverts.   *)
(***************************************************************************)
expectedDiffDefined(info, mineTime, targetIntervalSec, cutoff, diffAdjDivisor) ==
  LET interval == mineTime - info.lastMineTime
  IN  /\ interval >= 0
      /\ cutoff # 0 /\ diffAdjDivisor # 0
      /\ IF interval < targetIntervalSec THEN interval \div cutoff <= 1
                                         ELSE interval \div cutoff >= 1

(***************************************************************************)
(* Mutant of update(): it works on a copy in memory.                       *)
(***************************************************************************)
updatedCopy(info, mineTime, diff, miningHash) == info

(***************************************************************************)
(* update(): a block is mined.                                             *)
(***************************************************************************)
updated(info, mineTime, diff, miningHash) ==
  [miningHash   |-> miningHash,
   lastMineTime |-> mineTime,
   difficulty   |-> diff,
   blockMined   |-> info.blockMined + 1]
=============================================================================

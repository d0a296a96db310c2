---------------------------- MODULE RandomAccess ----------------------------
(***************************************************************************)
(* contracts/DecentralizedKVMinable.sol, _calculateRandomAccess(): how the *)
(* slots to sample are drawn from a hash.  Each draw takes the lowest      *)
(* totalEntryBits of what is left of the hash; when less than that is left *)
(* the hash is replaced by its own hash.  Hashes are numbered: hash 0 is   *)
(* the argument, hash h + 1 is keccak256 of hash h.                        *)
(***************************************************************************)
EXTENDS Integers

CONSTANT HashBits          \* 256 in the code

ASSUME HashAssumption == HashBits \in Nat

VARIABLES totalEntryBits,  \* log2 of the number of slots to draw from
          bits,            \* how many bits of the hash are thought to be left
          rhash,           \* the hash in use
          shifted,         \* how far randomBits has been shifted to the right
          draws            \* history: the bits each draw has taken

raVars == <<totalEntryBits, bits, rhash, shifted, draws>>

(***************************************************************************)
(* With more than 255 bits the number of slots, 1 << totalEntryBits, is 0. *)
(***************************************************************************)
RAInit ==
  /\ totalEntryBits \in 0..HashBits - 1
  /\ bits = HashBits
  /\ rhash = 0
  /\ shifted = 0
  /\ draws = {}

drawn == [hash |-> rhash, from |-> shifted, to |-> shifted + totalEntryBits]

\* Mutants of Draw: the hash is replaced only when it is used up; the bits
\* are not shifted out.
DrawToTheEnd ==
  /\ bits >= totalEntryBits
  /\ draws' = draws \cup {drawn}
  /\ IF bits - totalEntryBits = 0
     THEN rhash' = rhash + 1 /\ bits' = HashBits /\ shifted' = 0
     ELSE rhash' = rhash /\ bits' = bits - totalEntryBits /\ shifted' = shifted + totalEntryBits
  /\ UNCHANGED totalEntryBits

DrawUnshifted ==
  /\ bits >= totalEntryBits
  /\ draws' = draws \cup {drawn}
  /\ IF bits - totalEntryBits < totalEntryBits
     THEN rhash' = rhash + 1 /\ bits' = HashBits /\ shifted' = 0
     ELSE rhash' = rhash /\ bits' = bits - totalEntryBits /\ shifted' = shifted
  /\ UNCHANGED totalEntryBits

(***************************************************************************)
(* One iteration.  The unsigned subtraction would revert.                  *)
(***************************************************************************)
Draw ==
  /\ bits >= totalEntryBits
  /\ draws' = draws \cup {drawn}
  /\ IF bits - totalEntryBits < totalEntryBits
     THEN rhash' = rhash + 1 /\ bits' = HashBits /\ shifted' = 0
     ELSE rhash' = rhash /\ bits' = bits - totalEntryBits /\ shifted' = shifted + totalEntryBits
  /\ UNCHANGED totalEntryBits

RASpec == RAInit /\ [][Draw]_raVars
-----------------------------------------------------------------------------
(***************************************************************************)
(* A draw never reverts for want of bits, however many came before it.     *)
(***************************************************************************)
NeverShortOfBits == bits >= totalEntryBits

(***************************************************************************)
(* Every draw takes bits that the hash has (not zeros shifted in), and no  *)
(* bit is taken twice: the slots drawn are as independent as the hash.     *)
(***************************************************************************)
FreshBits ==
  /\ \A d \in draws : d.from >= 0 /\ d.to <= HashBits
  /\ \A d \in draws : d.hash = rhash => d.to <= shifted
  /\ \A d, e \in draws : d.hash = e.hash => d = e \/ d.to <= e.from \/ e.to <= d.from
=============================================================================

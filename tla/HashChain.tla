------------------------------ MODULE HashChain -----------------------------
(***************************************************************************)
(* contracts/DKVDaggerHashimoto.sol: how _hashimotoMerkleProof (and        *)
(* _hashimotoKeccak256, for chunks as large as values) chain the hash of a *)
(* block through the answers of a miner, in assembly, and how miners       *)
(* compute the same chain off chain.                                       *)
(*                                                                         *)
(* Memory is a sequence of words of 32 bytes.  The answers, decoded from   *)
(* the call, are next to each other: each a word with its length, then its *)
(* data, of chunkSize bytes; behind the last one is whatever was allocated *)
(* next (tail), and then zeros.  To hash an answer its length word is      *)
(* replaced by the hash so far, and maxKvSize + 0x20 bytes from there on   *)
(* are hashed.  Hashes are symbolic: the words that were hashed.           *)
(*                                                                         *)
(* Here answers and allocations come one after the other, without a bound, *)
(* so that every call's memory is met.                                     *)
(***************************************************************************)
EXTENDS Integers, Sequences

CONSTANTS chunkWords,   \* chunkSize, in words
          kvWords,      \* maxKvSize, in words
          DataWord,     \* the words of data
          hash0         \* the hash that the chain starts with

ASSUME ChainAssumption == chunkWords \in Nat \ {0} /\ kvWords \in Nat

VARIABLES maskedData,   \* the answers, decoded
          tail          \* what is behind them

chainVars == <<maskedData, tail>>

ChainInit == maskedData = << >> /\ tail = << >>

Answer ==
  /\ \E answer \in [1..chunkWords -> DataWord] : maskedData' = Append(maskedData, answer)
  /\ UNCHANGED tail

Allocate ==
  /\ \E word \in DataWord : tail' = Append(tail, word)
  /\ UNCHANGED maskedData

ChainSpec == ChainInit /\ [][Answer \/ Allocate]_chainVars
-----------------------------------------------------------------------------
keccak256(words) == <<"keccak256", words>>

\* Lengths are tagged to be told from data.
lengthWord(words) == <<"length", words>>

\* An answer's words, its length word included; and where that one is.
stride    == chunkWords + 1
dataAt(i) == 1 + (i - 1) * stride

memoryOf(answers, behind) ==
  [a \in 1..Len(answers) * stride + Len(behind) |->
     LET i == (a - 1) \div stride + 1
         k == (a - 1) % stride
     IN  IF i > Len(answers) THEN behind[a - Len(answers) * stride]
         ELSE IF k = 0 THEN lengthWord(chunkWords)
         ELSE answers[i][k]]

\* Mutant of hashed(): the 0x20 bytes of the length word are forgotten.
hashedShort(memory, at) ==
  [k \in 1..kvWords |->
     IF at + k - 1 \in DOMAIN memory THEN memory[at + k - 1] ELSE 0]

\* The words that are hashed, one for the 0x20 bytes of the length word.
hashed(memory, at) ==
  [k \in 1..kvWords + 1 |->
     IF at + k - 1 \in DOMAIN memory THEN memory[at + k - 1] ELSE 0]

(***************************************************************************)
(* The loop on chain: mstore(data, hash0), keccak256, mstore(data,         *)
(* maxKvSize).                                                             *)
(***************************************************************************)
stored(memory, at, hash) == [memory EXCEPT ![at] = hash]

chainOnChain(answers, behind) ==
  LET loop[i \in 0..Len(answers)] ==
        IF i = 0 THEN [hash |-> hash0, memory |-> memoryOf(answers, behind)]
        ELSE LET at     == dataAt(i)
                 memory == stored(loop[i - 1].memory, at, loop[i - 1].hash)
             IN  [hash   |-> keccak256(hashed(memory, at)),
                  memory |-> stored(memory, at, lengthWord(kvWords))]
  IN  loop[Len(answers)].hash

(***************************************************************************)
(* The miner, off chain: the hash so far and the answer.                   *)
(***************************************************************************)
chainOffChain(answers) ==
  LET chain[i \in 0..Len(answers)] ==
        IF i = 0 THEN hash0 ELSE keccak256(<<chain[i - 1]>> \o answers[i])
  IN  chain[Len(answers)]
-----------------------------------------------------------------------------
(***************************************************************************)
(* The hash chain that the contract computes in memory over the answers is *)
(* the one the miner has computed: it depends on the answers and on        *)
(* nothing else that is in memory.                                         *)
(***************************************************************************)
ChainMatchesMiner == chainOnChain(maskedData, tail) = chainOffChain(maskedData)
=============================================================================

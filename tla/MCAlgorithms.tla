---------------------------- MODULE MCAlgorithms ----------------------------
(***************************************************************************)
(* An instance of Algorithms.                                              *)
(***************************************************************************)
EXTENDS Algorithms

CONSTANT FirstWords      \* the first words of seeds

(***************************************************************************)
(* A hash function of the right shape: every word of the result depends on *)
(* the first word, on its own and, not linearly, on the one after it.      *)
(***************************************************************************)
ToyHash(words) ==
  LET word(i) ==
        LET next == words[(i % hashWords) + 1]
        IN  (11 * i + 3 * words[1] + 7 * words[i] + words[i] * next + (next \div 2)) % 2 ^ UintBits
  IN  Computed([i \in 1..hashWords |-> word(i)])

hashOf(w) == Computed([i \in 1..hashWords |-> (w + 5 * i * i) % 2 ^ UintBits])

ToySeeds == {hashOf(w) : w \in FirstWords}
=============================================================================

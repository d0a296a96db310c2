-------------------------- MODULE MCGenerateDataset -------------------------
(***************************************************************************)
(* Instances of HashedDataset, and so of GenerateDataset, for TLC.         *)
(***************************************************************************)
EXTENDS HashedDataset

\* No item at all; fewer items than percents (2), which panics; as many; then
\* fewer items than four CPUs, as many and more, once with half an item left.
AllSizes == {0, 2, 4, 6, 8, 10, 13}
=============================================================================

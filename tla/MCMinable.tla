----------------------------- MODULE MCMinable -----------------------------
(***************************************************************************)
(* Instances of DecentralizedKVMinable for TLC.                            *)
(***************************************************************************)
EXTENDS DecentralizedKVMinable, TLC

OneValue  == {<<1>>}
TwoValues == {<<1>>, <<2>>}

\* Keys are only ever compared with each other and with NoSkey.
KeySymmetry == Permutations(Key)
=============================================================================

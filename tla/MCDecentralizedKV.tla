------------------------- MODULE MCDecentralizedKV -------------------------
(***************************************************************************)
(* Instances of DecentralizedKV for TLC.                                   *)
(***************************************************************************)
EXTENDS DecentralizedKV

(***************************************************************************)
(* Values: of one chunk, of two, and one longer than maxKvSize allows; a   *)
(* single value, and with it the empty one.                               *)
(***************************************************************************)
SomeData     == {<<1>>, <<1, 2>>, <<1, 1, 1>>}
OneOrEmpty   == {<<1>>, << >>}
=============================================================================

------------------------------ MODULE MCSearch ------------------------------
(***************************************************************************)
(* Two threads over four nonces: a share, a block, a better share, and a   *)
(* nonce that the prefilter drops.                                         *)
(***************************************************************************)
EXTENDS MiningSearch

MCHash == [n \in 0 .. 3 |-> CASE n = 0 -> 5 [] n = 1 -> 1 [] n = 2 -> 4 [] n = 3 -> 0]
=============================================================================

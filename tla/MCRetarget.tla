---------------------------- MODULE MCRetarget ----------------------------
(***************************************************************************)
(* Two nodes, the clock of one a second ahead; retargets at every second   *)
(* block, so that the second one looks at two freshly mined blocks.        *)
(***************************************************************************)
EXTENDS Retarget

MCSkew == [n \in Nodes |-> IF n = "ahead" THEN 1 ELSE 0]
=============================================================================

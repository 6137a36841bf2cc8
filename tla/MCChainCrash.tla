---------------------------- MODULE MCChainCrash ----------------------------
(***************************************************************************)
(* ChainCrash on the block tree of MCTree, which the cfg binds to its      *)
(* constants.                                                              *)
(***************************************************************************)
EXTENDS ChainCrash, MCTree
=============================================================================

------------------------------ MODULE MCChain ------------------------------
(***************************************************************************)
(* Chain on the block tree of MCTree, which the cfg binds to its constants.*)
(***************************************************************************)
EXTENDS ChainForks, MCTree
=============================================================================

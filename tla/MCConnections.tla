--------------------------- MODULE MCConnections ----------------------------
(* Two nodes.  "b" is the bootnode of both, itself included, and does not    *)
(* know its own address.                                                     *)
EXTENDS Connections

MCBootnodes == [n \in Nodes |-> {"b"}]
=============================================================================

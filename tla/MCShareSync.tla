---------------------------- MODULE MCShareSync ----------------------------
(***************************************************************************)
(* ShareSync with a node that collected three shares, one that collected   *)
(* the last of them and one that collected none.  The third accepts two of *)
(* the three.  After a restart the second collects two of its shares again.*)
(***************************************************************************)
EXTENDS ShareSync

CONSTANTS n1, n2, n3, h

MCMined == [n \in {n1, n2, n3} |-> IF n = n1 THEN {3} ELSE IF n = n2 THEN {1, 2, 3} ELSE {}]
MCRecollected == [n \in {n1, n2, n3} |-> IF n = n2 THEN {{}, {1, 2}} ELSE {{}}]
MCAcceptsAll == [n \in {n1, n2, n3} |-> {1, 2, 3}]
MCAccepts == [MCAcceptsAll EXCEPT ![n3] = {1, 3}]
MCCommitHash == [n \in {n1, n2, n3} |-> h]
=============================================================================

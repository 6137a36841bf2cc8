------------------------------ MODULE MCBonds -------------------------------
(* "eve" signs e1 and e2 over one parent; "self" signs s1 and s2 in one epoch *)
(* over different parents, and s3 over the parent of s1 in another epoch; w is *)
(* eve's and weak, u carries no signature.                                     *)
EXTENDS Bonds

MCHeaders == {"e1", "e2", "s1", "s2", "s3", "u", "w"}
MCParent == [h \in MCHeaders |-> IF h = "s2" THEN "s1" ELSE "base"]
MCEpochOf == [h \in MCHeaders |-> IF h = "s3" THEN 2 ELSE 1]
MCSigner == [h \in MCHeaders |-> IF h \in {"e1", "e2", "w"} THEN "eve" ELSE "self"]

Pr(m, h, k) == [named |-> m, miner_id |-> m, block_1 |-> h, block_2 |-> k,
                block_hash_1 |-> h, block_hash_2 |-> k]
MCProofs == {
    Pr("eve", "e1", "e2"), Pr("eve", "e2", "e1"), Pr("eve", "e1", "w"),
    Pr("self", "s1", "s2"), Pr("self", "s1", "s3"), Pr("self", "s1", "s1"),
    Pr("self", "s1", "u"), Pr("self", "e1", "e2"), Pr("self", "s1", "e1"),
    [Pr("eve", "e1", "e2") EXCEPT !.named = "self"],
    [Pr("self", "s1", "s1") EXCEPT !.block_hash_2 = "s2"]}
=============================================================================

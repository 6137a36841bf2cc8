---------------------------- MODULE MCSharePool ----------------------------
(***************************************************************************)
(* SharePool with four shares of a miner on two heights and three of       *)
(* another, which an invalid one names as well; the pool holds three       *)
(* shares, and two of a miner.  A third height is in the next epoch.       *)
(***************************************************************************)
EXTENDS SharePool

CONSTANTS m1, m2, s1, s2, s3, s4, t1, t2, t3, bad, u1

MCShareIds == {s1, s2, s3, s4, t1, t2, t3, bad, u1}
MCMinerOf == [s \in MCShareIds |-> IF s \in {s1, s2, s3, s4, u1} THEN m1 ELSE m2]
MCHeightOf == [s \in MCShareIds |-> IF s = u1 THEN 3 ELSE IF s \in {s4, t3} THEN 2 ELSE 1]
=============================================================================

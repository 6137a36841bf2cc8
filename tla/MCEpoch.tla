------------------------------ MODULE MCEpoch ------------------------------
(***************************************************************************)
(* EpochEnd with two miners and epochs of two blocks.  The supply runs out *)
(* while the model runs: the second epoch is capped.  Contributions are    *)
(* those of Contribution, with shares, loyalty and bond weighted 6 : 2 : 2 *)
(* and a bond of a quarter of the maximum.                                 *)
(***************************************************************************)
EXTENDS EpochEnd, Contribution

MCEpochReward == <<30, 20, 10, 5, 1>>

\* A table, so that TLC computes each contribution once.
PoCITable ==
    [shares \in 0 .. 9, loyalty \in 0 .. 9, bonded \in BOOLEAN |->
        CalculatePoCI(shares, loyalty, IF bonded THEN MostBond \div 4 ELSE 0)]

MCPoCI(shares, loyalty, bonded) == PoCITable[shares, loyalty, bonded]

\* Isqrt is the integer square root.
ASSUME \A n \in 0 .. 300 : Isqrt(n) * Isqrt(n) <= n /\ n < (Isqrt(n) + 1) * (Isqrt(n) + 1)
=============================================================================

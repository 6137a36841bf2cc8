---------------------------- MODULE Contribution ----------------------------
(***************************************************************************)
(* The contribution of a miner to an epoch (calculate_poci, src/src/       *)
(* consensus.rs), in integers: shares and bond by their square roots,      *)
(* loyalty as it is, each against a fixed maximum and cut off there.       *)
(* Pure operators, used by EpochEnd through its constant PoCI.             *)
(***************************************************************************)
EXTENDS Integers

CONSTANTS
    Scale,                                  \* POCI_SCALE
    WeightShares, WeightLoyalty, WeightBond,
    MostShares,                             \* MAX_SHARES_PER_MINER_PER_EPOCH
    MostLoyalty,                            \* MAX_LOYALTY_VALUE
    MostBond                                \* MAX_BOND_LYT

ASSUME ContributionAssumption ==
    /\ {WeightShares, WeightLoyalty, WeightBond} \subseteq Nat
    /\ {Scale, MostShares, MostLoyalty, MostBond} \subseteq Nat \ {0}

\* Newton's iteration from n downwards, until it stops falling.
Isqrt(n) ==
    LET newton[x \in 1 .. n] ==
            LET y == (x + n \div x) \div 2
            IN IF y < x THEN newton[y] ELSE x
    IN IF n = 0 THEN 0 ELSE newton[n]

Norm(x, most) ==
    LET scaled == (x * Scale) \div most
    IN IF scaled < Scale THEN scaled ELSE Scale

\* bond is the amount of an active bond of at least the minimum, otherwise 0.
CalculatePoCI(shares, loyalty, bond) ==
    (WeightShares * Norm(Isqrt(shares), Isqrt(MostShares))
       + WeightLoyalty * Norm(loyalty, MostLoyalty)
       + WeightBond * Norm(Isqrt(bond), Isqrt(MostBond))) \div Scale

=============================================================================

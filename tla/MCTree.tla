------------------------------- MODULE MCTree -------------------------------
(***************************************************************************)
(* The block tree on which the chain models are checked.  g - a1 - a2 is   *)
(* what this node mines;  b1 - b2 is a branch from genesis that starts     *)
(* heavier;  e1 is as heavy as b1 and spends the output that a1 spends;    *)
(* c2 competes with a2: both hold a transaction that spends a1's output;   *)
(* x2 is heavy but malformed.                                              *)
(***************************************************************************)
EXTENDS Integers, Sequences

CONSTANTS g, a1, a2, b1, b2, e1, c2, x2, zero,
          MaxBatch   \* length of the longest Blocks message

MCBlocks == {g, a1, a2, b1, b2, e1, c2, x2}

MCParent == [b \in MCBlocks |->
    CASE b = g -> zero
      [] b \in {a1, b1, e1} -> g
      [] b \in {a2, c2, x2} -> a1
      [] b = b2 -> b1]

MCWork == [b \in MCBlocks |-> CASE b \in {g, a1, b2} -> 1
                                [] b \in {b1, e1, a2} -> 2
                                [] b \in {c2, x2} -> 3]

\* a2 and c2 contain the same transaction beside their own coinbase.
MCCreates == [b \in MCBlocks |->
    {<<"coin", b>>} \cup (IF b \in {a2, c2} THEN {<<"change", a1>>} ELSE {})]

MCSpends == [b \in MCBlocks |-> CASE b \in {a1, e1} -> {<<"coin", g>>}
                                  [] b \in {a2, c2} -> {<<"coin", a1>>}
                                  [] b \in {g, b1, b2, x2} -> {}]

\* What a peer can send for a GetBlocks: a segment of one branch.
MCBatches == UNION {{q \in [1 .. n -> MCBlocks \ {g}] :
                        \A i \in 1 .. n - 1 : MCParent[q[i + 1]] = q[i]} : n \in 1 .. MaxBatch}
=============================================================================

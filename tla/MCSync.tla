------------------------------- MODULE MCSync -------------------------------
(***************************************************************************)
(* SyncSession with a timely peer, whose chain of two blocks may be        *)
(* replaced by another, and one that promises nothing: its chain of one    *)
(* may grow by the same blocks or by one that is not valid.  A block of    *)
(* the node's own competes with the first of theirs.  a2 spends the output *)
(* of Genesis, which a rollback from it loses.                             *)
(***************************************************************************)
EXTENDS SyncSession

CONSTANTS g, a1, a2, bad2, b2, x1, good, flaky

MCBlocks == {g, a1, a2, bad2, b2, x1}

MCParent ==
    [b \in MCBlocks \ {g} |->
        CASE b \in {a1, x1} -> g
          [] b \in {a2, b2, bad2} -> a1]

MCSpends == [b \in MCBlocks |-> IF b = a2 THEN {g} ELSE {}]

MCStartTip == [p \in {good, flaky} |-> IF p = good THEN a2 ELSE a1]
=============================================================================

------------------------------- MODULE Loyalty -------------------------------
(***************************************************************************)
(* LoyaltyData (src/src/miner.rs): the value a miner earns by taking part  *)
(* in consecutive epochs and loses by missing them.  Pure operators, used  *)
(* by EpochEnd.                                                            *)
(***************************************************************************)
EXTENDS Integers

LOYALTY_GRACE_PERIOD == 3

NewLoyalty == [value |-> 0, last_epoch |-> 0, missed_epochs |-> 0,
               consecutive_epochs |-> 0, grace_remaining |-> 0]

\* apply_decay: half with grace, otherwise seven tenths, rounded down (which
\* is never below half, so the maximum in the code is the first operand).
Decay(value, use_grace) == IF use_grace THEN value \div 2 ELSE (value * 7) \div 10

\* n decays in a row, the first one with grace if any is left.
DecayTimes(l, n) ==
    LET decayed[i \in 0 .. n] ==
            IF i = 0 THEN l.value
            ELSE Decay(decayed[i - 1], i = 1 /\ l.grace_remaining > 0)
    IN IF n > 0 THEN decayed[n] ELSE l.value

Participate(l, current_epoch) ==
    [value |-> DecayTimes(l, current_epoch - l.last_epoch - 1) + 1,
     last_epoch |-> current_epoch,
     missed_epochs |-> 0,
     consecutive_epochs |-> l.consecutive_epochs + 1,
     grace_remaining |-> LOYALTY_GRACE_PERIOD]

Miss(l, current_epoch) ==
    [value |-> DecayTimes(l, current_epoch - l.last_epoch),
     last_epoch |-> current_epoch,
     missed_epochs |-> l.missed_epochs + current_epoch - l.last_epoch,
     consecutive_epochs |-> 0,
     grace_remaining |-> IF l.grace_remaining > 0 THEN l.grace_remaining - 1 ELSE 0]

\* Mutant of UpdateLoyalty: the guard lets the same epoch count again.
UpdateTwice(l, current_epoch, participated) ==
    IF current_epoch < l.last_epoch THEN l
    ELSE IF participated THEN Participate(l, current_epoch)
    ELSE Miss(l, current_epoch)

\* LoyaltyData::update
UpdateLoyalty(l, current_epoch, participated) ==
    IF current_epoch <= l.last_epoch THEN l
    ELSE IF participated THEN Participate(l, current_epoch)
    ELSE Miss(l, current_epoch)

=============================================================================

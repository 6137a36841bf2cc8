------------------------------ MODULE Retarget ------------------------------
(***************************************************************************)
(* Time and difficulty (src/src/node.rs, block.rs, difficulty.rs): honest  *)
(* nodes with skewed clocks prepare blocks on their own chains, commit     *)
(* them, take over each other's blocks and start again from genesis when   *)
(* their chains have parted.                                               *)
(*                                                                         *)
(* A chain is its headers, genesis first; a header is its timestamp, its   *)
(* target and the node that built it, its hash being all that precedes it  *)
(* as well (two chains hold the same block when they are equal up to it).  *)
(* `timestamps` is pushed and popped with `blocks`, so it is read off the  *)
(* chain.  Targets are small numbers: the saturation of scaled_integer at  *)
(* 2^256 - 1 is absorbed by the cap that follows it.                       *)
(* A job whose chain has moved is dropped when the chain moves; that       *)
(* commit_mining_result recognises it is Chain's JobCurrent.               *)
(* A block that is refused for its timestamp changes nothing here (its     *)
(* sender is banned).  The switch to a heavier fork is left out because    *)
(* SiblingsTie says that between these nodes it cannot happen.             *)
(***************************************************************************)
EXTENDS Integers, Sequences, FiniteSets, SequencesExt

CONSTANTS
    Nodes,
    Skew,             \* Skew[n]: how far the clock of n is ahead
    GenesisTime,      \* GENESIS_TIMESTAMP
    StartTime,        \* when the network starts
    GenesisTarget,    \* Target::genesis(), the proof-of-work limit
    Interval,         \* DIFFICULTY_ADJUSTMENT_INTERVAL
    BlockTime,        \* TARGET_BLOCK_TIME
    MinPercent, MaxPercent, \* MIN_TARGET_NUMERATOR and MAX_TARGET_NUMERATOR over 100
    MedianWindow,     \* MEDIAN_WINDOW
    FutureLimit,      \* the 7200 s of validate_timestamp
    MinSearch,        \* environment: the seconds that a successful search takes
    MaxTime, MaxHeight \* bounds

ASSUME RetargetAssumption ==
    /\ Skew \in [Nodes -> Nat]
    /\ {GenesisTime, StartTime, MinSearch, MaxTime, MaxHeight, FutureLimit} \subseteq Nat
    /\ GenesisTime < StartTime
    /\ {GenesisTarget, Interval, BlockTime, MedianWindow} \subseteq Nat \ {0}
    /\ {MinPercent, MaxPercent} \subseteq Nat
    /\ 0 < MinPercent /\ MinPercent <= 100 /\ 100 <= MaxPercent

VARIABLES
    now,     \* real time
    chain,   \* chain[n]: Node.blocks of n
    cached,  \* cached[n]: Node.cached_difficulty
    job      \* job[n]: the header that the mining thread of n works on, or NoJob

vars == <<now, chain, cached, job>>

----------------------------------------------------------------------------

NoJob == [found |-> FALSE]
NoCache == [height |-> 0, target |-> 0]

Genesis == [time |-> GenesisTime, target |-> GenesisTarget, by |-> "genesis"]

Height(c) == Len(c) - 1
Clock(n) == now + Skew[n]

\* The timestamps that adjust_difficulty sees: the last Interval of them.
Window(c) == SubSeq(c, Len(c) - Interval + 1, Len(c))

AtLeast(low, x) == IF x < low THEN low ELSE x
Clamp(x, low, high) == IF x > high THEN high ELSE AtLeast(low, x)

\* Never easier than genesis.
Capped(target) == IF target > GenesisTarget THEN GenesisTarget ELSE target

\* adjust_difficulty_with_interval on a window of blocks.
AdjustDifficulty(w, target) ==
    LET actual == w[Len(w)].time - w[1].time
        expected == BlockTime * (Interval - 1)
        lower == AtLeast(1, (expected * MinPercent) \div 100)
        upper == AtLeast(lower, (expected * MaxPercent) \div 100)
        scaled == (target * Clamp(actual, lower, upper)) \div expected
    IN IF Interval < 2 \/ actual <= 0 THEN target
       ELSE Capped(scaled)

Retargets(c) == Height(c) > 0 /\ (Height(c) + 1) % Interval = 0

\* compute_difficulty_for_next_block.
NextDifficulty(n) ==
    LET c == chain[n]
    IN IF ~Retargets(c) THEN Last(c).target
       ELSE IF cached[n].height = Height(c) THEN cached[n].target
       ELSE AdjustDifficulty(Window(c), Last(c).target)

\* Mutant of Forgotten: the cache survives.
Remembered(c) == c
\* Every change of the chain sets cached_difficulty to None.
Forgotten(c) == NoCache

\* median_timestamp, for at least three blocks: the entry that has half of the
\* sorted window (rounded down) before it.
Median(c) ==
    LET take == IF Len(c) < MedianWindow THEN Len(c) ELSE MedianWindow
        window == Len(c) - take + 1 .. Len(c)
        Before(t) == Cardinality({i \in window : c[i].time < t})
        UpTo(t) == Cardinality({i \in window : c[i].time <= t})
    IN CHOOSE t \in {c[i].time : i \in window} :
            Before(t) <= take \div 2 /\ take \div 2 < UpTo(t)

\* Mutant of ValidTimestamp: old blocks are refused as old shares are.
NotTooOld(b, c, clock) ==
    /\ clock - FutureLimit <= b.time /\ b.time <= clock + FutureLimit
    /\ Height(c) > 0 => b.time > Last(c).time

\* validate_timestamp, with the arguments that accept_block gives it.
ValidTimestamp(b, c, clock) ==
    /\ b.time <= clock + FutureLimit
    /\ Height(c) > 0 => b.time > Last(c).time
    /\ Len(c) >= 3 => b.time > Median(c)

\* The chain of n becomes c.
Move(n, c) ==
    /\ chain' = [chain EXCEPT ![n] = c]
    /\ cached' = [cached EXCEPT ![n] = Forgotten(@)]
    /\ job' = [job EXCEPT ![n] = NoJob]

----------------------------------------------------------------------------
(* The mining thread *)

\* prepare_mining_job: the header takes its time now, not when it is found.
PrepareMiningJob(n) ==
    /\ job[n] = NoJob /\ Height(chain[n]) < MaxHeight
    /\ LET target == NextDifficulty(n)
       IN /\ job' = [job EXCEPT ![n] = [found |-> TRUE, since |-> now,
                          header |-> [time |-> Clock(n), target |-> target, by |-> n]]]
          /\ cached' = IF Retargets(chain[n])
                       THEN [cached EXCEPT ![n] = [height |-> Height(chain[n]), target |-> target]]
                       ELSE cached
    /\ UNCHANGED <<now, chain>>

\* commit_mining_result, which does not look at the timestamp again.
CommitBlock(n) ==
    /\ job[n] # NoJob /\ now >= job[n].since + MinSearch
    /\ Move(n, Append(chain[n], job[n].header))
    /\ UNCHANGED now

\* The search found nothing, or was paused.
DropJob(n) ==
    /\ job[n] # NoJob
    /\ job' = [job EXCEPT ![n] = NoJob]
    /\ UNCHANGED <<now, chain, cached>>

----------------------------------------------------------------------------
(* Blocks of other nodes *)

\* The next block of m is one that n can put on its tip.
Offers(m, n) == Len(chain[m]) > Len(chain[n]) /\ IsPrefix(chain[n], chain[m])
Offered(m, n) == chain[m][Len(chain[n]) + 1]

\* accept_block, for a Block message and for each block of a batch.
AcceptBlock(n, m) ==
    /\ Offers(m, n)
    /\ ValidTimestamp(Offered(m, n), chain[n], Clock(n))
    /\ Move(n, Append(chain[n], Offered(m, n)))
    /\ UNCHANGED now

\* A batch of a longer chain that has parted from ours finds no common
\* ancestor (AncestorNotFound in Chain_proofs) and rolls back to genesis.
RollbackToGenesis(n, m) ==
    /\ Len(chain[m]) > Len(chain[n])
    /\ ~IsPrefix(chain[n], chain[m])
    /\ Move(n, <<Genesis>>)
    /\ UNCHANGED now

\* load_state rebuilds the chain and its timestamps, genesis included.
Restart(n) ==
    /\ job[n] # NoJob \/ cached[n] # NoCache
    /\ Move(n, chain[n])
    /\ UNCHANGED now

Tick ==
    /\ now < MaxTime
    /\ now' = now + 1
    /\ UNCHANGED <<chain, cached, job>>

----------------------------------------------------------------------------

Init ==
    /\ now = StartTime
    /\ chain = [n \in Nodes |-> <<Genesis>>]
    /\ cached = [n \in Nodes |-> NoCache]
    /\ job = [n \in Nodes |-> NoJob]

Next ==
    \/ \E n \in Nodes : PrepareMiningJob(n) \/ CommitBlock(n) \/ DropJob(n) \/ Restart(n)
    \/ \E n, m \in Nodes : AcceptBlock(n, m) \/ RollbackToGenesis(n, m)
    \/ Tick

Spec == Init /\ [][Next]_vars

----------------------------------------------------------------------------
(* Properties *)

\* Blocks of honest nodes on the same parent carry the same target, whatever
\* each node cached, rolled back or reloaded on the way: the comparison of
\* the two fork switches ("strictly heavier") is always a tie between honest
\* miners, and only a batch ever ends their forks.
SiblingsTie ==
    \A n, m \in Nodes : \A i \in 2 .. Len(chain[n]) :
        i <= Len(chain[m]) /\ SubSeq(chain[n], 1, i - 1) = SubSeq(chain[m], 1, i - 1)
            => chain[n][i].target = chain[m][i].target

\* A node that commits its own block does not look at the time it took for it
\* (node.rs:3455), and its peers may refuse the block, with a ban: but only
\* because of clocks, and only by as much as they differ.  Some block below it
\* was made by a node whose clock was further ahead, by at least the searches
\* between the two, or its own maker's clock is ahead of the refusing node's by
\* more than validate_timestamp admits; so nodes whose clocks differ by less
\* than a search takes never refuse each other's blocks, nor a node its own.
RefusedForSkew ==
    \A n, m \in Nodes : Offers(m, n) /\ ~ValidTimestamp(Offered(m, n), chain[n], Clock(n)) =>
        LET b == Offered(m, n)
            k == Len(chain[n])
        IN \/ Skew[b.by] > Skew[n] + FutureLimit + MinSearch
           \/ \E i \in 2 .. k :
                 Skew[chain[n][i].by] >= Skew[b.by] + MinSearch * (k + 1 - i)

=============================================================================

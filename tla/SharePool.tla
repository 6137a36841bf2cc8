----------------------------- MODULE SharePool -----------------------------
(***************************************************************************)
(* The shares of the running epoch (SharePool in src/src/miner.rs) and     *)
(* what the node keeps about the miners next to it (Node::add_share in     *)
(* src/src/node.rs): limits, eviction, the four counts of a share, and     *)
(* bans for invalid ones.                                                  *)
(*                                                                         *)
(* A share is a model value; which miner it names, on which height and     *)
(* whether its hash is right and meets the target are constants.  Nothing  *)
(* in a share shows that the named miner has sent it: whoever sends it, it *)
(* counts for and against that miner, as valid and as invalid.  Memory     *)
(* is counted in shares.  All miners are bonded.  Shares of another height *)
(* or epoch are refused before anything is counted, so they do not appear. *)
(***************************************************************************)
EXTENDS Integers, Sequences, FiniteSets, SequencesExt

CONSTANTS
    Miner,
    ShareIds,
    MinerOf,             \* MinerOf[s]: the miner_id in s, whoever sends it
    HeightOf,            \* HeightOf[s]
    Valid,               \* the shares that meet the target
    MaxShares,           \* MAX_SHARES_PER_MINER_PER_EPOCH
    MaxMemory,           \* max_memory_bytes
    EpochBlocks,         \* EPOCH_BLOCKS
    MaxHeight,           \* bound: the last height
    MaxTotal,            \* bound: shares counted per miner and pool
    MaxRestarts          \* bound: restarts

ASSUME SharePoolAssumption ==
    /\ MinerOf \in [ShareIds -> Miner] /\ HeightOf \in [ShareIds -> Nat]
    /\ Valid \subseteq ShareIds
    /\ MaxShares \in Nat \ {0} /\ MaxMemory \in Nat \ {0}
    /\ EpochBlocks \in Nat \ {0}
    /\ MaxHeight \in Nat /\ MaxTotal \in Nat /\ MaxRestarts \in Nat

VARIABLES
    shares,      \* shares[m]: in the order in which they came
    count,       \* share_count[m]
    hashes,      \* share_hashes
    invalid,     \* invalid_shares[m]
    total,       \* total_shares[m]
    memory,      \* memory_used
    height,
    credit,      \* credit[m]: MinerData.shares, by which rewards are paid
    ban,         \* ban[m]: 0, or 1 or 2 while MinerData.banned_until is ahead
    restarts

vars == <<shares, count, hashes, invalid, total, memory, height, credit, ban, restarts>>

----------------------------------------------------------------------------

\* The pool is a record while a share is added.
Pool == [shares |-> shares, count |-> count, hashes |-> hashes, memory |-> memory]

SetPool(pool) ==
    /\ shares' = pool.shares /\ count' = pool.count
    /\ hashes' = pool.hashes /\ memory' = pool.memory

\* Mutant of Largest: the first miner that has any share.
AnyMiner(pool) == {m \in Miner : pool.shares[m] # <<>>}

\* The miners that evict_oldest may choose: the walk over a hash map finds one
\* of those with the most shares.
Largest(pool) ==
    {m \in Miner :
        /\ pool.shares[m] # <<>>
        /\ \A other \in Miner : Len(pool.shares[other]) <= Len(pool.shares[m])}

\* Mutant of WithoutOldest: share_count is not lowered.
WithoutCounting(pool, m) ==
    [pool EXCEPT !.shares[m] = Tail(@), !.hashes = @ \ {Head(pool.shares[m])}, !.memory = @ - 1]

WithoutOldest(pool, m) ==
    [shares |-> [pool.shares EXCEPT ![m] = Tail(@)], count |-> [pool.count EXCEPT ![m] = @ - 1],
     hashes |-> pool.hashes \ {Head(pool.shares[m])}, memory |-> pool.memory - 1]

\* evict_oldest, when there is no room for another share.
Roomy(pool) ==
    IF pool.memory + 1 <= MaxMemory THEN {pool}
    ELSE {WithoutOldest(pool, m) : m \in Largest(pool)}

With(pool, m, s) ==
    [shares |-> [pool.shares EXCEPT ![m] = Append(@, s)], count |-> [pool.count EXCEPT ![m] = @ + 1],
     hashes |-> pool.hashes \cup {s}, memory |-> pool.memory + 1]

Full(pool, m) == pool.count[m] >= MaxShares

\* update_invalid_ratio, total having been raised; a low ratio changes nothing.
BanFor(m) ==
    IF 10 * invalid[m] > 3 * (total[m] + 1) THEN 2
    ELSE IF 10 * invalid[m] > total[m] + 1 THEN 1
    ELSE ban[m]

----------------------------------------------------------------------------

\* Whether Node::add_share comes to the pool with s, and the pool counts it.
Offered(s) ==
    /\ HeightOf[s] = height /\ ban[MinerOf[s]] = 0 /\ s \notin hashes
    /\ total[MinerOf[s]] < MaxTotal
    /\ total' = [total EXCEPT ![MinerOf[s]] = @ + 1]

AddValid(s) ==
    LET m == MinerOf[s]
    IN /\ s \in Valid /\ Offered(s)
       /\ \E pool \in Roomy(Pool) :
             /\ ~Full(pool, m)
             /\ SetPool(With(pool, m, s))
       /\ credit' = [credit EXCEPT ![m] = @ + 1]
       /\ UNCHANGED <<invalid, height, ban, restarts>>

\* The limit is tested after the eviction.
AddOverLimit(s) ==
    LET m == MinerOf[s]
    IN /\ s \in Valid /\ Offered(s)
       /\ \E pool \in Roomy(Pool) :
             /\ Full(pool, m)
             /\ SetPool(pool)
       /\ ban' = [ban EXCEPT ![m] = BanFor(m)]
       /\ UNCHANGED <<invalid, height, credit, restarts>>

AddInvalid(s) ==
    /\ s \notin Valid /\ Offered(s)
    /\ invalid' = [invalid EXCEPT ![MinerOf[s]] = @ + 1]
    /\ UNCHANGED <<shares, count, hashes, memory, height, credit, ban, restarts>>

\* banned_until has passed for the timestamps of the next shares.
BanEnds(m) ==
    /\ ban[m] > 0
    /\ ban' = [ban EXCEPT ![m] = 0]
    /\ UNCHANGED <<shares, count, hashes, invalid, total, memory, height, credit, restarts>>

Zero == [m \in Miner |-> 0]

\* The pool of a new epoch, or of a process that has just started.
Emptied ==
    /\ shares' = [m \in Miner |-> <<>>] /\ hashes' = {} /\ memory' = 0
    /\ count' = Zero /\ invalid' = Zero /\ total' = Zero

\* A block; the last one of an epoch runs new_epoch and reset_miner_shares.
NewBlock ==
    /\ height < MaxHeight /\ height' = height + 1
    /\ IF height' % EpochBlocks = 0
       THEN Emptied /\ credit' = Zero
       ELSE UNCHANGED <<shares, count, hashes, invalid, total, memory, credit>>
    /\ UNCHANGED <<ban, restarts>>

\* The miners are saved at every change, the pool of the running epoch is not.
Restart ==
    /\ restarts < MaxRestarts /\ restarts' = restarts + 1
    /\ Emptied
    /\ UNCHANGED <<height, credit, ban>>

Init ==
    /\ shares = [m \in Miner |-> <<>>] /\ hashes = {} /\ memory = 0
    /\ count = Zero /\ invalid = Zero /\ total = Zero
    /\ height = 1 /\ credit = Zero /\ ban = Zero /\ restarts = 0

Next ==
    \/ \E s \in ShareIds : AddValid(s)
    \/ \E s \in ShareIds : AddOverLimit(s)
    \/ \E s \in ShareIds : AddInvalid(s)
    \/ \E m \in Miner : BanEnds(m)
    \/ NewBlock
    \/ Restart

Spec == Init /\ [][Next]_vars

----------------------------------------------------------------------------
(* Properties *)

\* The count of a miner, the set of hashes and the memory in use are those of
\* the shares in the pool, through evictions, refusals and epochs; no miner
\* holds more than its limit, and none is paid for less than it holds.
CountsExact ==
    /\ hashes = UNION {Range(shares[m]) : m \in Miner}
    /\ memory = Cardinality(hashes)
    /\ \A m \in Miner :
          /\ count[m] = Len(shares[m]) /\ IsInjective(shares[m])
          /\ count[m] <= MaxShares /\ count[m] <= credit[m]
          /\ \A s \in Range(shares[m]) : MinerOf[s] = m

\* Within an epoch only a miner with the most shares loses one.
EvictionIsFair ==
    [][\A m \in Miner :
            Len(shares'[m]) < Len(shares[m]) /\ memory' # 0
            => \A other \in Miner : Len(shares[other]) <= Len(shares[m])]_vars

=============================================================================

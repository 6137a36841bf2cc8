------------------------------ MODULE EpochEnd ------------------------------
(***************************************************************************)
(* Closing an epoch (Node::process_epoch_end, src/src/node.rs): the slashes*)
(* that are pending, the treasury, the rewards, the share archive, the     *)
(* epoch commit, loyalty, the share counters and the emission, written to  *)
(* the database one put or delete at a time, with a process that may die   *)
(* between any two of them.                                                *)
(*                                                                         *)
(* A handler holds the write lock of the node, so only a crash can see it  *)
(* half done, and a crash sees only the database: a handler is an action   *)
(* that computes the new memory and the list of its writes, in the order   *)
(* of the code, and either performs them all or is killed after some.      *)
(*                                                                         *)
(* Left out: the block itself and its transactions (Chain), rollbacks      *)
(* (Chain), amounts of bonds and slash records, and database errors.  The  *)
(* initial state is a node that has stored its first block: a restart at   *)
(* height 0 builds the genesis state again instead of loading one.         *)
(***************************************************************************)
EXTENDS Integers, Sequences, FiniteSets, Functions, SequencesExt, Loyalty

CONSTANTS
    Miners,
    Self,                 \* Node.miner_id, the one with the local wallet
    ZeroHash,             \* [0u8; 32]
    EpochBlocks,          \* EPOCH_BLOCKS
    EpochsPerYear,        \* 365
    EpochReward,          \* EpochReward[y]: EPOCH_REWARD_YEAR_y
    BlockReward,          \* BLOCK_REWARD_LYT
    GenesisSupply,        \* GENESIS_SUPPLY_LYT
    MaxSupply,            \* MAX_SUPPLY_LYT
    TreasuryBps,          \* TREASURY_FRACTION_BPS
    MaxShares,            \* MAX_SHARES_PER_MINER_PER_EPOCH
    MaxPool,              \* max_memory_bytes, in shares
    Suspects,             \* bound: the miners that evidence can name
    PoCI(_, _, _),        \* contribution of (shares, loyalty value, bonded)
    MaxCredit,            \* bound: no share is sent for a miner credited with as many
    MaxHeight,            \* bound: no block is added above this height
    MaxCrashes            \* bound on the number of crashes

ASSUME EpochAssumption ==
    /\ IsFiniteSet(Miners) /\ Self \in Miners /\ Suspects \subseteq Miners
    /\ EpochBlocks \in Nat \ {0, 1}
    /\ EpochsPerYear \in Nat \ {0}
    /\ EpochReward \in [1 .. 5 -> Nat]
    /\ BlockReward \in Nat /\ GenesisSupply \in Nat /\ MaxSupply \in Nat
    /\ TreasuryBps \in 0 .. 10000
    /\ MaxShares \in Nat /\ MaxPool \in Nat /\ MaxCredit \in Nat /\ MaxHeight \in Nat /\ MaxCrashes \in Nat

VARIABLES
    node,      \* memory: the fields of Node that closing an epoch touches
    disk,      \* the database: a function from the keys that are present
    crashes    \* number of crashes so far

vars == <<node, disk, crashes>>

----------------------------------------------------------------------------
(* The database *)

Save(key, value) == <<[op |-> "put", key |-> key, value |-> value]>>
Delete(key) == <<[op |-> "delete", key |-> key]>>

\* f with the value v for k, and with the values of g where g has one.
PutIn(f, k, v) == [x \in DOMAIN f \cup {k} |-> IF x = k THEN v ELSE f[x]]
PutAll(f, g) == [x \in DOMAIN f \cup DOMAIN g |-> IF x \in DOMAIN g THEN g[x] ELSE f[x]]

Apply(d, w) ==
    IF w.op = "put" THEN PutIn(d, w.key, w.value) ELSE Restrict(d, DOMAIN d \ {w.key})

\* The database before the first of the writes and after each one.
Images(d, writes) ==
    FoldLeft(LAMBDA images, w : Append(images, Apply(Last(images), w)), <<d>>, writes)

Stored(d, key, default) == IF key \in DOMAIN d THEN d[key] ELSE default

\* The members of S of a kind of record, by their key.
StoredIds(d, kind) == {m \in Miners : <<kind, m>> \in DOMAIN d}

HeightKey == <<"state", "height">>
EpochKey == <<"state", "epoch">>
EmittedKey == <<"state", "total_emitted">>
MarkerKey == <<"state", "epoch_processing">>

\* The writes W(m) of the miners of S, in the order of a hash map.
ForEach(S, order, W(_)) ==
    FlattenSeq([i \in DOMAIN order |-> IF order[i] \in S THEN W(order[i]) ELSE <<>>])

\* Several steps of a handler: a step takes the memory and returns the new
\* memory and its writes.
Step(n, writes) == [node |-> n, writes |-> writes]

----------------------------------------------------------------------------
(* The process *)

EpochAt(h) == h \div EpochBlocks + 1

\* Node::new and load_state: the epoch follows from the height; the shares of
\* the epoch and the evidence are lost.
LoadState(d) ==
    [height |-> d[HeightKey],
     epoch |-> EpochAt(d[HeightKey]),
     total_emitted |-> d[EmittedKey],
     miners |-> [m \in StoredIds(d, "miner") |-> d[<<"miner", m>>]],
     bonds |-> StoredIds(d, "bond"),
     loyalty |-> [m \in StoredIds(d, "loyalty") |-> d[<<"loyalty", m>>]],
     share_count |-> [m \in Miners |-> 0],
     pending_slashes |-> {},
     processed_slashes |-> {}]

\* A marker of the current epoch is deleted, any other one stays.
Recovered(d) ==
    LET n == LoadState(d)
        saved == Apply(d, Head(Save(EpochKey, n.epoch)))
    IN IF Stored(d, MarkerKey, 0) = n.epoch
       THEN Apply(saved, Head(Delete(MarkerKey))) ELSE saved

Finish(n, d) ==
    /\ node' = n
    /\ disk' = d
    /\ UNCHANGED crashes

Crash(d) ==
    /\ crashes < MaxCrashes
    /\ node' = LoadState(d)
    /\ disk' = Recovered(d)
    /\ crashes' = crashes + 1

\* A handler runs to its end, or is killed after some of its writes (what it
\* does is bound by \E, so that it is computed once).
Perform(handler) ==
    \E step \in {handler} : \E images \in {Images(disk, step.writes)} :
        \/ Finish(step.node, Last(images))
        \/ \E d \in Range(images) : Crash(d)

----------------------------------------------------------------------------
(* Shares, bonds, registration and evidence *)

NewMiner == [shares |-> 0, total_rewards |-> 0, payout |-> FALSE]

MinerOf(n, m) == IF m \in DOMAIN n.miners THEN n.miners[m] ELSE NewMiner
LoyaltyOf(n, m) == IF m \in DOMAIN n.loyalty THEN n.loyalty[m] ELSE NewLoyalty

\* The share counts of the pool with room for another share: as they are, or
\* when it is full without the oldest share of a miner that none exceeds.
Roomy(n) ==
    LET largest == {v \in Miners :
                        /\ n.share_count[v] > 0
                        /\ \A o \in Miners : n.share_count[o] <= n.share_count[v]}
    IN IF SumFunction(n.share_count) < MaxPool \/ largest = {} THEN {n.share_count}
       ELSE {[n.share_count EXCEPT ![v] = @ - 1] : v \in largest}

\* add_share with a valid share of a bonded miner: the pool makes room, so that
\* its counts are these, and then tests the limit; if it takes the share, the
\* miner is credited with it.  A miner at its limit is saved as it is (whether it
\* is banned is left to SharePool).
ShareStep(n, m, counts) ==
    IF m \notin n.bonds THEN Step(n, <<>>)
    ELSE IF counts[m] >= MaxShares
    THEN Step([n EXCEPT !.share_count = counts],
              IF m \in DOMAIN n.miners THEN Save(<<"miner", m>>, n.miners[m]) ELSE <<>>)
    ELSE LET miner == [MinerOf(n, m) EXCEPT !.shares = @ + 1]
             loyalty == UpdateLoyalty(LoyaltyOf(n, m), n.epoch, TRUE)
         IN Step([n EXCEPT !.share_count = [counts EXCEPT ![m] = @ + 1],
                           !.miners = PutIn(@, m, miner),
                           !.loyalty = PutIn(@, m, loyalty)],
                 Save(<<"miner", m>>, miner) \o Save(<<"loyalty", m>>, loyalty))

AddShare(m) ==
    /\ MinerOf(node, m).shares < MaxCredit
    /\ \E counts \in Roomy(node) : Perform(ShareStep(node, m, counts))

\* BondBroadcast with at least the minimum bond; a second bond only replaces
\* the amount.
AddBond(m) ==
    /\ m \notin node.bonds
    /\ Perform(Step([node EXCEPT !.bonds = @ \cup {m}],
                    Save(<<"bond", m>>, TRUE)
                      \o (IF m \in DOMAIN node.miners
                          THEN Save(<<"miner", m>>, node.miners[m]) ELSE <<>>)))

RegisterMiner(m) ==
    LET miner == [MinerOf(node, m) EXCEPT !.payout = TRUE]
    IN Perform(Step([node EXCEPT !.miners = PutIn(@, m, miner)],
                    Save(<<"miner", m>>, miner)))

\* A SlashProof that verifies.
ReportEquivocation(m) ==
    /\ m \notin node.processed_slashes
    /\ Perform(Step([node EXCEPT !.pending_slashes = @ \cup {m}], <<>>))

----------------------------------------------------------------------------
(* process_epoch_end *)

\* Mutant of Forget: the loyalty of a slashed miner stays on disk.
ForgetMiner(m) == Delete(<<"miner", m>>)

Forget(m) == Delete(<<"miner", m>>) \o Delete(<<"loyalty", m>>)

\* process_pending_slashes; a proof against a miner without a bond is dropped.
SlashStep(n, order) ==
    LET slashed == {m \in n.pending_slashes \ n.processed_slashes :
                        <<"bond", m>> \in DOMAIN disk}
    IN Step([n EXCEPT !.bonds = @ \ slashed,
                      !.miners = Restrict(@, DOMAIN @ \ slashed),
                      !.loyalty = Restrict(@, DOMAIN @ \ slashed),
                      !.pending_slashes = {},
                      !.processed_slashes = @ \cup slashed],
            ForEach(slashed, order, LAMBDA m : Delete(<<"bond", m>>))
              \o ForEach(slashed, order, Forget))

Year(h) == h \div (EpochBlocks * EpochsPerYear) + 1
CurrentEpochReward(n) == EpochReward[IF Year(n.height) > 5 THEN 5 ELSE Year(n.height)]

Available(n) == IF n.total_emitted >= MaxSupply THEN 0 ELSE MaxSupply - n.total_emitted

\* Mutant of EffectiveReward: the cap is left to trim_rewards_to_max_supply.
UncappedReward(n) == CurrentEpochReward(n)

EffectiveReward(n) ==
    IF CurrentEpochReward(n) < Available(n) THEN CurrentEpochReward(n) ELSE Available(n)

TreasuryCut(n) == (EffectiveReward(n) * TreasuryBps) \div 10000

Contribution(n) ==
    [m \in DOMAIN n.miners |->
        PoCI(n.miners[m].shares, LoyaltyOf(n, m).value, m \in n.bonds)]

\* The rewards before and after trim_rewards_to_max_supply.
PlannedRewards(n) ==
    LET poci == Contribution(n)
        total == SumFunction(poci)
        pool == EffectiveReward(n) - TreasuryCut(n)
    IN [m \in DOMAIN poci |-> IF total = 0 THEN 0 ELSE (poci[m] * pool) \div total]

Trim(rewards, available) ==
    LET total == SumFunction(rewards)
    IN IF total <= available THEN rewards
       ELSE [m \in DOMAIN rewards |-> (rewards[m] * available) \div total]

Rewards(n) == Trim(PlannedRewards(n), Available(n))

\* The local miner is paid to its wallet, any other one to the address that it
\* has registered; a reward without an address is counted and lost.
HasPayout(n, m) == m = Self \/ n.miners[m].payout

PayStep(n, order) ==
    LET rewards == Rewards(n)
        paid == {m \in DOMAIN rewards : rewards[m] > 0}
        miners == [m \in DOMAIN n.miners |->
                    [n.miners[m] EXCEPT !.total_rewards = @ + rewards[m]]]
    IN Step([n EXCEPT !.miners = PutAll(@, miners)],
            (IF TreasuryCut(n) > 0 THEN Save(<<"treasury", n.epoch>>, TreasuryCut(n)) ELSE <<>>)
              \o ForEach(paid, order, LAMBDA m :
                    (IF HasPayout(n, m)
                     THEN Save(<<"reward", n.height, n.epoch, m>>, rewards[m]) ELSE <<>>)
                    \o Save(<<"miner", m>>, miners[m])))

PreviousCommit(n) == Stored(disk, <<"commit_root", n.epoch - 1>>, ZeroHash)

\* SharePool::new_epoch, the archive, its root, and save_epoch_commit, whose
\* roots are left out (they cover the share counts as they are after the reset).
\* The hash of a commit is the commit.
CommitStep(n) ==
    LET commit == [epoch |-> n.epoch, height |-> n.height, previous |-> PreviousCommit(n)]
    IN Step([n EXCEPT !.share_count = [m \in Miners |-> 0]],
            Save(<<"shares", n.epoch>>, n.share_count)
              \o Save(<<"share_root", n.epoch>>, n.share_count)
              \o Save(<<"commit", n.epoch>>, commit)
              \o Save(<<"commit_root", n.epoch>>, commit))

\* Mutant of ResetShares: the shares of the epoch are carried over.
KeepShares(miner) == miner

ResetShares(miner) == [miner EXCEPT !.shares = 0]

\* update_loyalty_for_epoch and reset_miner_shares, for every miner known.
ResetStep(n, order) ==
    LET ids == DOMAIN n.miners
        loyalty == [m \in ids |->
                        UpdateLoyalty(LoyaltyOf(n, m), n.epoch, n.miners[m].shares > 0)]
        miners == [m \in ids |-> ResetShares(n.miners[m])]
    IN Step([n EXCEPT !.loyalty = PutAll(@, loyalty), !.miners = PutAll(@, miners)],
            ForEach(ids, order, LAMBDA m : Save(<<"loyalty", m>>, loyalty[m]))
              \o ForEach(ids, order, LAMBDA m : Save(<<"miner", m>>, miners[m])))

\* Mutant of Issued: the treasury is not counted.
IssuedToMiners(n, rewards) == SumFunction(rewards)

Issued(n, rewards) == SumFunction(rewards) + TreasuryCut(n)

EpochEndStep(n, order) ==
    LET slash == SlashStep(n, order)
        pay == PayStep(slash.node, order)
        commit == CommitStep(pay.node)
        reset == ResetStep(commit.node, order)
        emitted == n.total_emitted + Issued(n, Rewards(slash.node))
    IN Step([reset.node EXCEPT !.epoch = @ + 1, !.total_emitted = emitted],
            Save(MarkerKey, n.epoch) \o slash.writes \o pay.writes \o commit.writes
              \o reset.writes \o Save(EmittedKey, emitted) \o Save(EpochKey, n.epoch + 1)
              \o Delete(MarkerKey))

\* The epoch transition of both callers.
Transition(n, order) ==
    IF n.height % EpochBlocks = 0 THEN EpochEndStep(n, order) ELSE Step(n, <<>>)

----------------------------------------------------------------------------
(* The two callers *)

\* accept_block: the height is saved before the epoch is closed.
AcceptBlock(order) ==
    /\ node.height < MaxHeight
    /\ LET n == [node EXCEPT !.height = @ + 1]
           end == Transition(n, order)
       IN Perform(Step(end.node,
                       Save(HeightKey, n.height) \o end.writes \o Save(EpochKey, end.node.epoch)))

\* commit_mining_result with a block: the block is also a share, its reward
\* counts at once, and the height is saved after the epoch is closed.
CommitBlock(order) ==
    /\ node.height < MaxHeight
    /\ \E counts \in Roomy(node) :
       LET share == ShareStep(node, Self, counts)
           emitted == node.total_emitted + BlockReward
           n == [share.node EXCEPT !.height = @ + 1, !.total_emitted = emitted]
           end == Transition(n, order)
       IN Perform(Step(end.node,
                       share.writes \o Save(EmittedKey, emitted) \o end.writes
                         \o Save(HeightKey, n.height) \o Save(EpochKey, end.node.epoch)))

----------------------------------------------------------------------------

NoMiners == [m \in {} |-> NewMiner]

Init ==
    /\ node = [height |-> 1, epoch |-> 1, total_emitted |-> GenesisSupply,
               miners |-> NoMiners, bonds |-> {}, loyalty |-> NoMiners,
               share_count |-> [m \in Miners |-> 0],
               pending_slashes |-> {}, processed_slashes |-> {}]
    /\ disk = [k \in {HeightKey, EpochKey, EmittedKey} |->
                IF k = EmittedKey THEN GenesisSupply ELSE 1]
    /\ crashes = 0

Next ==
    \/ \E m \in Miners : AddShare(m)
    \/ \E m \in Miners : AddBond(m)
    \/ \E m \in Miners \ {Self} : RegisterMiner(m)
    \/ \E m \in Suspects : ReportEquivocation(m)
    \/ \E order \in SetToSeqs(Miners) : AcceptBlock(order)
    \/ \E order \in SetToSeqs(Miners) : CommitBlock(order)

Spec == Init /\ [][Next]_vars

----------------------------------------------------------------------------
(* Properties *)

\* Between handlers a restart changes nothing but what is meant to live in
\* memory: every miner, bond, loyalty record and counter that a handler has
\* changed or removed was saved or removed on disk, also after a crash.
ReloadIsIdentity ==
    node = [LoadState(disk) EXCEPT !.share_count = node.share_count,
                                   !.pending_slashes = node.pending_slashes,
                                   !.processed_slashes = node.processed_slashes]

\* The shares by which miners are rewarded.
Credited(n) == [m \in Miners |-> MinerOf(n, m).shares]

\* Rewards are computed from MinerData.shares, the archive that other nodes
\* verify them with from the share pool.  The two counts are changed and reset by
\* different steps, but a miner is never rewarded for fewer shares than are in
\* the pool, and for as many until a restart or until the pool was full.
SharesMatchPool ==
    /\ \A m \in Miners : node.share_count[m] <= MinerOf(node, m).shares
    /\ crashes = 0 /\ SumFunction(Credited(node)) < MaxPool
       => \A m \in Miners : MinerOf(node, m).shares = node.share_count[m]

\* Loyalty counts an epoch at most once, although it is updated with the first
\* share of the epoch and again at its end, and although an epoch may be
\* closed twice after a crash.
LoyaltyOncePerEpoch ==
    \A m \in DOMAIN node.loyalty :
        /\ node.loyalty[m].value <= node.loyalty[m].last_epoch
        /\ node.loyalty[m].last_epoch <= node.epoch

OutputKeys == {k \in DOMAIN disk : k[1] \in {"treasury", "reward"}}
Minted == SumFunction([k \in OutputKeys |-> disk[k]])

\* Without a crash the outputs that closing epochs has created are covered by
\* the emission counter that the supply cap is tested with.
MintedIsCounted == crashes = 0 => Minted + GenesisSupply <= node.total_emitted

\* What closing epochs creates stays within the supply cap, whatever own blocks
\* have counted, until a crash repeats a closing; the rewards of blocks do not.
PaidWithinSupply ==
    crashes = 0 => Minted = 0 \/ Minted + GenesisSupply <= MaxSupply

\* "If the node crashes, load_state will see this marker on restart and will
\* not pay rewards twice": what the local miner has been credited with is in
\* outputs of its own.
NotPaidTwice ==
    LET mine == {k \in OutputKeys : k[1] = "reward" /\ k[4] = Self}
    IN MinerOf(node, Self).total_rewards <= SumFunction([k \in mine |-> disk[k]])

=============================================================================

------------------------------- MODULE Bonds --------------------------------
(***************************************************************************)
(* Bonds and slashing on one node: how an entry comes into the bond table  *)
(* (bond outputs of blocks, BondBroadcast messages, add_bond at start-up), *)
(* how evidence of equivocation is verified, pooled and executed at the    *)
(* end of an epoch, and what rollbacks, crashes and restarts do to both    *)
(* (src/src/consensus.rs, src/src/node.rs, src/src/storage.rs).            *)
(*                                                                         *)
(* What is abstracted, and why nothing below depends on it:                *)
(*  - a header is an element of Headers and stands for its own hash; a     *)
(*    proof carries two of them and the two hashes it claims.  A proof     *)
(*    that lacks a block fails like one whose blocks are not signed;       *)
(*  - an entry is put into the table in memory and into the one in RocksDB *)
(*    in one step.  What a crash inside process_pending_slashes leaves of  *)
(*    the miners and of their loyalty is in EpochEnd, with rewards and the *)
(*    order of the epoch end;                                              *)
(*  - MinerData.bond is never read, nor is the slash record: left out;     *)
(*  - bond outputs, once spent or rolled back, leave the UTXO set and not  *)
(*    the table, so only their creation matters here.                      *)
(***************************************************************************)
EXTENDS Integers, Sequences, FiniteSets, Functions

CONSTANTS
    Miners, Self,
    Headers,       \* the headers of all blocks that anybody shows
    Parent,        \* Parent[h]: header.prev_hash
    EpochOf,       \* EpochOf[h]: header.epoch_index
    Signer,        \* Signer[h]: the miner whose key signed it
    Unsigned,      \* headers of blocks without a valid signature
    WeakWork,      \* headers whose hash misses their own difficulty
    Proofs,        \* the proofs that can arrive
    Amounts,       \* the values of bond outputs and of BondBroadcast
    ConfigBond,    \* config.mining.bond
    MinimumBond,   \* MINIMUM_BOND_LYT
    EpochBlocks,   \* EPOCH_BLOCKS
    MaxHeight, MaxRollbacks, MaxRestarts   \* bounds

Proof == [named : Miners, miner_id : Miners, block_1 : Headers, block_2 : Headers,
          block_hash_1 : Headers, block_hash_2 : Headers]

ASSUME BondsAssumption ==
    /\ Self \in Miners
    /\ Signer \in [Headers -> Miners] /\ EpochOf \in [Headers -> Nat]
    /\ DOMAIN Parent = Headers
    /\ Unsigned \subseteq Headers /\ WeakWork \subseteq Headers
    /\ Proofs \subseteq Proof
    /\ Amounts \subseteq Nat /\ ConfigBond \in Nat /\ MinimumBond \in Nat \ {0}
    /\ EpochBlocks \in Nat \ {0}
    /\ {MaxHeight, MaxRollbacks, MaxRestarts} \subseteq Nat

VARIABLES
    height,     \* Node.height
    bonds,      \* Node.bonds: miner -> amount
    stored,     \* the table in RocksDB (CF_BONDS)
    pending,    \* SlashingPool.pending_slashes
    processed,  \* SlashingPool.processed_slashes
    banned,     \* the peer that sends proofs is banned
    slashes,    \* history: how often each miner was slashed
    rollbacks, restarts

vars == <<height, bonds, stored, pending, processed, banned, slashes, rollbacks, restarts>>

----------------------------------------------------------------------------
(* Evidence *)

\* Mutant of SameSlot: two headers of different heights will do.
SameEpoch(p) == EpochOf[p.block_1] = EpochOf[p.block_2]
\* Two headers over the same parent and of the same epoch.
SameSlot(p) ==
    /\ Parent[p.block_1] = Parent[p.block_2]
    /\ EpochOf[p.block_1] = EpochOf[p.block_2]

\* The checks of EquivocationProof::verify before the signatures.
Plausible(p) ==
    /\ SameSlot(p)
    /\ p.block_hash_1 = p.block_1 /\ p.block_hash_2 = p.block_2
    /\ p.block_1 # p.block_2
    /\ {p.block_1, p.block_2} \cap WeakWork = {}

\* verify returns Err when extract_miner_id_from_block does, else a Boolean.
VerifyFails(p) == Plausible(p) /\ {p.block_1, p.block_2} \cap Unsigned # {}
Verified(p) ==
    /\ Plausible(p) /\ ~VerifyFails(p)
    /\ Signer[p.block_1] = Signer[p.block_2]
    /\ Signer[p.block_1] = p.miner_id

\* The same two hashes the other way round count as another proof.
SameProof(p, q) ==
    /\ p.miner_id = q.miner_id
    /\ p.block_hash_1 = q.block_hash_1 /\ p.block_hash_2 = q.block_hash_2

AddProof(p) ==
    pending' = IF p.miner_id \in processed \/ \E i \in DOMAIN pending : SameProof(pending[i], p)
               THEN pending ELSE Append(pending, p)

\* P2PMessage::SlashProof, from a peer that is still connected.
ReceiveProof(p) ==
    /\ ~banned
    /\ IF p.named # p.miner_id \/ VerifyFails(p)
       THEN banned' = TRUE /\ UNCHANGED pending
       ELSE /\ IF Verified(p) THEN AddProof(p) ELSE UNCHANGED pending
            /\ UNCHANGED banned
    /\ UNCHANGED <<height, bonds, stored, processed, slashes, rollbacks, restarts>>

\* The peer connects again once process_messages has dropped it.
Reconnect ==
    /\ banned /\ banned' = FALSE
    /\ UNCHANGED <<height, bonds, stored, pending, processed, slashes, rollbacks, restarts>>

----------------------------------------------------------------------------
(* The bond table *)

\* HashMap::insert.
Put(t, m, amount) == [k \in DOMAIN t \cup {m} |-> IF k = m THEN amount ELSE t[k]]

\* P2PMessage::BondBroadcast: nothing is compared with the chain, the sender or
\* earlier slashes.
BondBroadcast(m, amount) ==
    /\ amount >= MinimumBond
    /\ bonds' = Put(bonds, m, amount)
    /\ stored' = Put(stored, m, amount)
    /\ UNCHANGED <<height, pending, processed, banned, slashes, rollbacks, restarts>>

\* The part of update_utxo_set that is about bonds: `created` are the bond
\* outputs of the block, the last of each miner.
Bonded(t, created) ==
    LET new == {m \in DOMAIN created : created[m] >= MinimumBond}
    IN [m \in DOMAIN t \cup new |-> IF m \in new THEN created[m] ELSE t[m]]

----------------------------------------------------------------------------
(* Execution at the end of an epoch *)

\* process_all on the table t in RocksDB: proofs are verified again; one against
\* a miner without a bond there is dropped.
Slashed(t) ==
    {m \in DOMAIN t \ processed :
        \E i \in DOMAIN pending : pending[i].miner_id = m /\ Verified(pending[i])}

Without(t, S) == Restrict(t, DOMAIN t \ S)

\* Mutant of Processed: the miner may be slashed again.
ForgetSlashed(S) == processed
Processed(S) == processed \cup S

\* Mutant of AtEpochEnd: the slashes come before the bonds of the block.
SlashThenBond(t, created) == Bonded(Without(t, Slashed(stored)), created)
\* What a block that ends an epoch makes of the table t: who is slashed is asked
\* of RocksDB, and goes from both tables.
AtEpochEnd(t, created) == Without(Bonded(t, created), Slashed(Bonded(stored, created)))

CountSlashes(S) == [m \in Miners |-> slashes[m] + (IF m \in S THEN 1 ELSE 0)]

EndsEpoch(h) == h % EpochBlocks = 0

\* accept_block and commit_mining_result: update_utxo_set, then the epoch
\* transition.
ConnectBlock(created) ==
    /\ height < MaxHeight
    /\ height' = height + 1
    /\ IF EndsEpoch(height + 1)
       THEN LET S == Slashed(Bonded(stored, created))
            IN /\ bonds' = AtEpochEnd(bonds, created)
               /\ stored' = AtEpochEnd(stored, created)
               /\ processed' = Processed(S)
               /\ slashes' = CountSlashes(S)
               /\ pending' = <<>>
       ELSE /\ bonds' = Bonded(bonds, created)
            /\ stored' = Bonded(stored, created)
            /\ UNCHANGED <<processed, pending, slashes>>
    /\ UNCHANGED <<banned, rollbacks, restarts>>

\* rollback_to: neither bonds nor slashes are undone, and the epoch may end again.
RollbackTip ==
    /\ rollbacks < MaxRollbacks /\ height > 0
    /\ height' = height - 1
    /\ rollbacks' = rollbacks + 1
    /\ UNCHANGED <<bonds, stored, pending, processed, banned, slashes, restarts>>

----------------------------------------------------------------------------
(* Restarts *)

NoBonds == [m \in {} |-> 0]

\* Node::new reads the table of RocksDB in load_state, which at height 0 is not
\* called: the node starts without bonds.
Loaded(table, h) == IF h = 0 THEN NoBonds ELSE table

\* Node::new at the saved height h, then main: the evidence is gone, and a node
\* that sees no bond of its own adds the configured one, slashed or not.
StartWith(table, h) ==
    /\ restarts < MaxRestarts
    /\ restarts' = restarts + 1
    /\ height' = h
    /\ LET amount == IF ConfigBond > MinimumBond THEN ConfigBond ELSE MinimumBond
       IN IF Self \in DOMAIN Loaded(table, h)
          THEN bonds' = Loaded(table, h) /\ stored' = table
          ELSE /\ bonds' = Put(Loaded(table, h), Self, amount)
               /\ stored' = Put(table, Self, amount)
    /\ pending' = <<>> /\ processed' = {} /\ banned' = FALSE
    /\ UNCHANGED rollbacks

Restart == StartWith(stored, height) /\ UNCHANGED slashes

\* The process dies between two calls of execute_slash: accept_block has saved
\* the height by then, commit_mining_result has not.
CrashInEpochEnd(created) ==
    /\ height < MaxHeight /\ EndsEpoch(height + 1)
    /\ \E S \in SUBSET Slashed(Bonded(stored, created)) \ {{}}, h \in {height, height + 1} :
          /\ StartWith(Without(Bonded(stored, created), S), h)
          /\ slashes' = CountSlashes(S)

----------------------------------------------------------------------------

Init ==
    /\ height = 0
    /\ bonds = NoBonds /\ stored = NoBonds
    /\ pending = <<>> /\ processed = {} /\ banned = FALSE
    /\ slashes = [m \in Miners |-> 0]
    /\ rollbacks = 0 /\ restarts = 0

Next ==
    \/ \E p \in Proofs : ReceiveProof(p)
    \/ Reconnect
    \/ \E m \in Miners, amount \in Amounts : BondBroadcast(m, amount)
    \/ \E S \in SUBSET Miners : \E created \in [S -> Amounts] :
          ConnectBlock(created) \/ CrashInEpochEnd(created)
    \/ RollbackTip
    \/ Restart

Spec == Init /\ [][Next]_vars

----------------------------------------------------------------------------
(* Properties *)

\* m has signed two headers over one parent in one epoch.
Equivocates(m) == \E h, k \in Headers \ (Unsigned \cup WeakWork) :
    /\ h # k /\ Signer[h] = m /\ Signer[k] = m
    /\ Parent[h] = Parent[k] /\ EpochOf[h] = EpochOf[k]

\* A bond leaves RocksDB, by whatever proofs, rollbacks, crashes and restarts,
\* only when its miner has really signed two blocks of one slot; and so does one
\* that the node holds, except in a restart at height 0 (node.rs:361), after
\* which the node does not see the bonds it has stored.
InnocentKeepsBond ==
    [][/\ \A m \in DOMAIN stored \ DOMAIN stored' : Equivocates(m)
       /\ restarts' = restarts \/ height' # 0
          => \A m \in DOMAIN bonds \ DOMAIN bonds' : Equivocates(m)]_vars

\* After the block that ends an epoch nobody with accepted evidence against it
\* has a bond, in memory or in RocksDB, not even one that this block creates,
\* unless it was slashed before and bonded again.
EvidenceActedOn ==
    [][height' > height /\ EndsEpoch(height') /\ restarts' = restarts
       => \A i \in DOMAIN pending : pending[i].miner_id \notin processed
             => pending[i].miner_id \notin DOMAIN bonds' \cup DOMAIN stored']_vars

\* However often the evidence is repeated, swapped, or the epoch ended again
\* after a rollback, a miner is slashed once in the life of a process.
SlashedOnce == \A m \in Miners : slashes[m] <= 1 + restarts

=============================================================================

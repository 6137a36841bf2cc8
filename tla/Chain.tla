------------------------------- MODULE Chain -------------------------------
(***************************************************************************)
(* The block chain of one node (src/src/node.rs, src/src/p2p.rs): how      *)
(* accept_block, the two fork switches, the batch synchronisation and the  *)
(* mining thread change the header vector, its hash index, the database    *)
(* and the heights that the peer-to-peer layer works with.                 *)
(*                                                                         *)
(* What is abstracted, and why nothing below depends on it:                *)
(*  - a block is an element of Blocks and stands for its own hash (the     *)
(*    hashes are taken to be injective);  Parent is header.prev_hash, Work *)
(*    is header.difficulty.to_difficulty();                                *)
(*  - the checks of accept_block that look only at the block and at its    *)
(*    ancestors (proof of work, signature, timestamp, Merkle root, coinbase*)
(*    amount, double spend inside the block) are the set Malformed; the    *)
(*    checks that look at the node (known, parent, checkpoint, existence   *)
(*    of the spent outputs) are kept;                                      *)
(*  - a handler runs under the write lock of Arc<RwLock<Node>>.  Handlers  *)
(*    that loop (rollback_to, verify_and_accept_blocks) are steps of the   *)
(*    variable handler, and nothing else runs before handler is Idle;      *)
(*  - the stash `forks` is never read and `abort_mining` only shortens a   *)
(*    search that the generation test stops as well: both are left out, as *)
(*    are the truncation to max_checkpoints and the failure of any         *)
(*    database call but save_block.                                        *)
(***************************************************************************)
EXTENDS Integers, Sequences, FiniteSets, Functions

CONSTANTS
    Blocks,             \* every block that is ever built, by anybody
    Genesis,            \* the block of height 0
    ZeroHash,           \* last_hash() of an empty header vector
    Parent,             \* Parent[b]: the hash in header.prev_hash
    Work,               \* Work[b]: the difficulty in the header of b
    Creates,            \* Creates[b]: the outputs of the transactions of b
    Spends,             \* Spends[b]: the outputs that b consumes
    Malformed,          \* blocks that fail a check on their own content
    Own,                \* blocks this node may find itself
    Peers,              \* connections
    Honest,             \* peers that send only Sound blocks
    Sound,              \* blocks of a chain that a correct node would hold
    Batches,            \* the Blocks(..) messages that can arrive
    NoPeer, NoJob,
    EpochBlocks,        \* EPOCH_BLOCKS
    CheckpointInterval, \* config.advanced.checkpoint_interval, 0 for never
    StorageMayFail,     \* whether save_block may return an error
    MaxGeneration       \* bound: no new handler starts past this generation

ASSUME BlocksAssumption ==
    /\ Genesis \in Blocks
    /\ ZeroHash \notin Blocks
    /\ Parent \in [Blocks -> Blocks \cup {ZeroHash}]
    /\ Parent[Genesis] = ZeroHash
    /\ Work \in [Blocks -> Nat \ {0}]
    /\ Malformed \subseteq Blocks
    /\ Own \subseteq Blocks
    /\ Sound \subseteq Blocks

ASSUME PeersAssumption ==
    /\ Honest \subseteq Peers
    /\ NoPeer \notin Peers
    /\ Batches \subseteq Seq(Blocks) \ {<<>>}

ASSUME ParametersAssumption ==
    /\ EpochBlocks \in Nat \ {0}
    /\ CheckpointInterval \in Nat
    /\ StorageMayFail \in BOOLEAN
    /\ MaxGeneration \in Nat

ASSUME OutputsAssumption ==
    /\ DOMAIN Creates = Blocks
    /\ DOMAIN Spends = Blocks

VARIABLES
    blocks,            \* Node.blocks: the headers, Genesis first
    block_hashes,      \* Node.block_hashes: block -> height
    height, epoch,     \* Node.height, Node.epoch
    checkpoints,       \* Node.checkpoints: height -> block
    chain_generation,  \* the atomic that mining jobs are tagged with
    disk,              \* RocksDB: blocks by height, height, UTXO set, checkpoints
    local_height,      \* P2PNode.local_height: the height sent in Version
    sync_local_height, \* SyncManager.local_height: the height sync starts from
    banned,            \* connections with PeerConnection.banned
    job,               \* the MiningJob the mining thread searches on, or NoJob
    handler            \* the handler that holds the write lock, or Idle

chainVars == <<blocks, block_hashes, height, epoch, checkpoints, chain_generation, disk>>
p2pVars == <<local_height, sync_local_height, banned>>
vars == <<chainVars, p2pVars, job, handler>>

----------------------------------------------------------------------------
(* Helpers *)

Put(f, k, v) == [x \in DOMAIN f \cup {k} |-> IF x = k THEN v ELSE f[x]]
Drop(f, k) == Restrict(f, DOMAIN f \ {k})

\* Pops the last header; Vec::pop on an empty vector does nothing.
Pop(s) == IF s = <<>> THEN s ELSE SubSeq(s, 1, Len(s) - 1)

\* last_hash()
Tip == IF blocks = <<>> THEN ZeroHash ELSE blocks[Len(blocks)]

TotalWork(s) == SumFunction([i \in DOMAIN s |-> Work[s[i]]])

Known(b) == b \in DOMAIN block_hashes

\* The handler record.  `was` is a history variable: the chain when the lock
\* was taken.
Idle == [op |-> "idle", kind |-> "none", to |-> 0, queue |-> <<>>,
         peer |-> NoPeer, was |-> <<>>]

MayStart == handler = Idle /\ chain_generation < MaxGeneration

----------------------------------------------------------------------------
(* The database writes, one operator per call *)

SaveBlock(d, h, b) == [d EXCEPT !.blocks = Put(d.blocks, h, b)]
\* Mutant of DeleteBlock: the abandoned block stays in the database.
KeepBlock(d, h) == d
DeleteBlock(d, h) == [d EXCEPT !.blocks = Drop(d.blocks, h)]
SaveOutputs(d, b) == [d EXCEPT !.utxo = d.utxo \cup Creates[b]]
DeleteInputs(d, b) == [d EXCEPT !.utxo = d.utxo \ Spends[b]]
SaveHeight(d, h) == [d EXCEPT !.height = h]
SaveCheckpoint(d, h, b) == [d EXCEPT !.checkpoints = Put(d.checkpoints, h, b)]

UpdateUtxoSet(d, b) == DeleteInputs(SaveOutputs(d, b), b)

\* Outputs are deleted; consumed inputs are not restored (no undo data).
RollbackUtxoSet(d, b) == [d EXCEPT !.utxo = d.utxo \ Creates[b]]

\* Everything accept_block and commit_mining_result write for b, except the
\* checkpoint.
Persisted(d, h, b) == SaveHeight(UpdateUtxoSet(SaveBlock(d, h, b), b), h)

----------------------------------------------------------------------------
(* Appending a block *)

\* The in-memory part that accept_block and commit_mining_result share:
\* push the header, index it, advance the height and the generation, and
\* close the epoch on its last block.
Connect(b) ==
    /\ blocks' = Append(blocks, b)
    /\ block_hashes' = Put(block_hashes, b, height + 1)
    /\ height' = height + 1
    /\ chain_generation' = chain_generation + 1
    /\ epoch' = IF (height + 1) % EpochBlocks = 0 THEN epoch + 1 ELSE epoch

\* The checks of accept_block after the parent test; each failure is_attack.
Acceptable(b) ==
    /\ b \notin Malformed
    /\ height + 1 \in DOMAIN checkpoints => checkpoints[height + 1] = b
    /\ Spends[b] \subseteq disk.utxo

\* Mutant of Extends: the test of prev_hash is lost.
ExtendsAnything(b) == ~Known(b)

Extends(b) == ~Known(b) /\ Parent[b] = Tip

AcceptBlock(b) ==
    /\ Extends(b) /\ Acceptable(b)
    /\ Connect(b)
    /\ disk' = Persisted(disk, height + 1, b)
    /\ UNCHANGED checkpoints

Ban(p) == banned' = banned \cup {p}

\* What the Block and Blocks handlers set once the chain has its new height.
SetLocalHeights(h) == local_height' = h /\ sync_local_height' = h

----------------------------------------------------------------------------
(* P2PMessage::Block *)

Sends(p, b) == p \in Honest => b \in Sound

\* The block extends the tip and passes every check.
ReceiveBlock(p, b) ==
    /\ MayStart /\ Sends(p, b)
    /\ AcceptBlock(b)
    /\ SetLocalHeights(height + 1)
    /\ UNCHANGED <<banned, job, handler>>

\* The block extends the tip and fails a check: the sender is banned.
RejectBlock(p, b) ==
    /\ handler = Idle /\ Sends(p, b)
    /\ Extends(b) /\ ~Acceptable(b)
    /\ Ban(p)
    /\ UNCHANGED <<chainVars, local_height, sync_local_height, job, handler>>

Forks(b) == ~Known(b) /\ Parent[b] # Tip /\ Known(Parent[b])
ForkHeight(b) == block_hashes[Parent[b]]

\* Mutant of HeavierThanOurs: a tie switches too.
AsHeavyAsOurs(b) ==
    /\ ForkHeight(b) < height
    /\ ForkHeight(b) + 1 \in DOMAIN disk.blocks
    /\ Work[b] >= Work[disk.blocks[ForkHeight(b) + 1]]

\* The only difficulty both switches compare with: our block after the fork.
HeavierThanOurs(b) ==
    /\ ForkHeight(b) < height
    /\ ForkHeight(b) + 1 \in DOMAIN disk.blocks
    /\ Work[b] > Work[disk.blocks[ForkHeight(b) + 1]]

\* try_fork_switch takes the forks below the tip, try_multi_block_reorg the
\* deeper ones.
SwitchKind(b) == IF ForkHeight(b) + 1 = height THEN "fork" ELSE "multi"

\* Rolling back begins at once; rollback_to(h) with h >= height does nothing.
StartRollback(kind, to, queue, p, was) ==
    handler' = [op |-> IF height > to THEN "rollback" ELSE "apply",
                kind |-> kind, to |-> to, queue |-> queue, peer |-> p, was |-> was]

SwitchFork(p, b) ==
    /\ MayStart /\ Sends(p, b)
    /\ Forks(b) /\ HeavierThanOurs(b)
    /\ StartRollback(SwitchKind(b), ForkHeight(b), <<b>>, p, blocks)
    /\ UNCHANGED <<chainVars, p2pVars, job>>

\* A known block, one whose parent is unknown, and a fork that is not heavier
\* leave the node as it is.
IgnoreBlock(b) ==
    /\ handler = Idle
    /\ Known(b) \/ (~Known(Parent[b]) /\ Parent[b] # Tip) \/ (Forks(b) /\ ~HeavierThanOurs(b))
    /\ UNCHANGED vars

----------------------------------------------------------------------------
(* P2PMessage::Blocks: SyncManager::verify_and_accept_blocks *)

ReceiveBlocks(p, q) ==
    /\ MayStart
    /\ \A i \in DOMAIN q : Sends(p, q[i])
    /\ handler' = [Idle EXCEPT !.op = "batch", !.kind = "batch",
                               !.queue = q, !.peer = p, !.was = blocks]
    /\ UNCHANGED <<chainVars, p2pVars, job>>

Advance == handler' = [handler EXCEPT !.queue = Tail(handler.queue)]

\* The handler returns Err: nothing is told to the P2P layer.
Fail == handler' = Idle /\ UNCHANGED <<local_height, sync_local_height>>

InQueue(ops) == handler.op \in ops /\ handler.queue # <<>>

\* Phase 1, and apply_foreign_branch in phase 2: the next block is known or
\* is accepted.
TakeNext ==
    /\ handler.kind = "batch" /\ InQueue({"batch", "apply"})
    /\ \/ /\ Known(Head(handler.queue))
          /\ UNCHANGED chainVars
       \/ AcceptBlock(Head(handler.queue))
    /\ Advance
    /\ UNCHANGED <<p2pVars, job>>

\* A check fails: the batch stops there and its sender is banned.
BatchInvalid ==
    /\ handler.kind = "batch" /\ InQueue({"batch", "apply"})
    /\ LET b == Head(handler.queue) IN Extends(b) /\ ~Acceptable(b)
    /\ Ban(handler.peer)
    /\ Fail
    /\ UNCHANGED <<chainVars, job>>

\* save_block fails.  Of the two handlers this one bans on any error but a
\* parent mismatch; the Block handler leaves the sender alone.
BatchStorageError ==
    /\ StorageMayFail
    /\ handler.kind = "batch" /\ InQueue({"batch", "apply"})
    /\ LET b == Head(handler.queue) IN Extends(b) /\ Acceptable(b)
    /\ Ban(handler.peer)
    /\ Fail
    /\ UNCHANGED <<chainVars, job>>

\* In phase 2 a parent that is not the tip ends the batch as a race.
BatchRace ==
    /\ handler.kind = "batch" /\ InQueue({"apply"})
    /\ LET b == Head(handler.queue) IN ~Known(b) /\ Parent[b] # Tip
    /\ Fail
    /\ UNCHANGED <<chainVars, banned, job>>

\* The whole batch went through.
BatchDone ==
    /\ handler.kind = "batch" /\ handler.op \in {"batch", "apply"} /\ handler.queue = <<>>
    /\ SetLocalHeights(height)
    /\ handler' = Idle
    /\ UNCHANGED <<chainVars, banned, job>>

\* find_common_ancestor(fork_blocks, start): the offsets i for which our
\* header at height start + i is the parent of the block at offset i.
CommonAncestors(q, start) ==
    {i \in 0 .. Len(q) - 1 : /\ start + i < Len(blocks)
                             /\ blocks[start + i + 1] = Parent[q[i + 1]]}

OurWork(h) == TotalWork([i \in 1 .. height - h |-> disk.blocks[h + i]])

\* The batch's work, scaled to the height that the peer claims.
TheirWork(q, h, claimed) ==
    IF claimed - h <= Len(q) THEN TotalWork(q)
    ELSE (TotalWork(q) * (claimed - h)) \div Len(q)

\* Phase 2: the next block does not extend the tip.  Without an ancestor the
\* node rolls back to genesis before any work is compared.
BatchFork(claimed) ==
    /\ handler.op = "batch" /\ InQueue({"batch"})
    /\ LET q == handler.queue
           hits == CommonAncestors(q, height)
           h == height + (CHOOSE i \in hits : \A j \in hits : i <= j)
       IN /\ ~Known(Head(q)) /\ Parent[Head(q)] # Tip
          /\ CASE hits = {} ->
                    /\ StartRollback("batch", 0, q, handler.peer, handler.was)
                    /\ sync_local_height' = 0
                    /\ UNCHANGED local_height
               [] hits # {} /\ TheirWork(q, h, claimed) > OurWork(h) ->
                    /\ StartRollback("batch", h, q, handler.peer, handler.was)
                    /\ UNCHANGED <<local_height, sync_local_height>>
               [] hits # {} /\ TheirWork(q, h, claimed) <= OurWork(h) ->
                    /\ handler' = Idle
                    /\ SetLocalHeights(height)
    /\ UNCHANGED <<chainVars, banned, job>>

----------------------------------------------------------------------------
(* rollback_to and the rollback of try_fork_switch, one block per step *)

\* The height is saved after the last block; rollback_to then bumps the
\* generation, try_fork_switch does not.
Rewind(d) ==
    /\ height' = height - 1
    /\ IF height - 1 > handler.to
       THEN disk' = d /\ UNCHANGED <<chain_generation, handler>>
       ELSE /\ disk' = SaveHeight(d, height - 1)
            /\ handler' = [handler EXCEPT !.op = "apply"]
            /\ chain_generation' = IF handler.kind = "fork" THEN chain_generation
                                   ELSE chain_generation + 1
    /\ UNCHANGED <<epoch, checkpoints, p2pVars, job>>

\* Mutant of RollbackBlock: the hash of the removed block stays indexed.
RollbackKeepsHash ==
    /\ handler.op = "rollback" /\ height \in DOMAIN disk.blocks
    /\ blocks' = Pop(blocks)
    /\ UNCHANGED block_hashes
    /\ Rewind(RollbackUtxoSet(DeleteBlock(disk, height), disk.blocks[height]))

\* The block is always found (DiskMirrorsChain) unless a crash tore an earlier
\* rollback: ChainCrash has that branch.
RollbackBlock ==
    /\ handler.op = "rollback" /\ height \in DOMAIN disk.blocks
    /\ LET b == disk.blocks[height]
       IN /\ blocks' = Pop(blocks)
          /\ block_hashes' = Drop(block_hashes, b)
          /\ Rewind(RollbackUtxoSet(DeleteBlock(disk, height), b))

\* The accept_block call after the rollback of a fork switch, and what the
\* Block handler does with its result.
SwitchDone ==
    /\ handler.op = "apply" /\ handler.kind \in {"fork", "multi"}
    /\ AcceptBlock(Head(handler.queue))
    /\ SetLocalHeights(height + 1)
    /\ handler' = Idle
    /\ UNCHANGED <<banned, job>>

\* accept_block refuses the block: our own blocks are gone already.
SwitchFailed ==
    /\ handler.op = "apply" /\ handler.kind \in {"fork", "multi"}
    /\ \/ StorageMayFail
       \/ ~(Extends(Head(handler.queue)) /\ Acceptable(Head(handler.queue)))
    /\ Fail
    /\ UNCHANGED <<chainVars, banned, job>>

----------------------------------------------------------------------------
(* The mining thread: prepare under the lock, search without it, commit *)

PrepareMiningJob(b) ==
    /\ handler = Idle /\ job = NoJob
    /\ Parent[b] = Tip /\ Spends[b] \subseteq disk.utxo
    /\ job' = [block |-> b, prev_hash |-> Tip, height |-> height + 1,
               epoch |-> epoch, generation |-> chain_generation]
    /\ UNCHANGED <<chainVars, p2pVars, handler>>

\* Mutant of JobCurrent: the generation is not compared.
JobOnTip ==
    /\ job.prev_hash = Tip
    /\ job.height = height + 1
    /\ ~Known(job.block)

\* The guards of commit_mining_result.
JobCurrent ==
    /\ job.generation = chain_generation
    /\ job.prev_hash = Tip
    /\ job.height = height + 1
    /\ ~Known(job.block)

CreatesCheckpoint(h) == CheckpointInterval > 0 /\ h % CheckpointInterval = 0

CommitBlock ==
    /\ MayStart /\ job # NoJob
    /\ JobCurrent
    /\ Connect(job.block)
    /\ LET d == Persisted(disk, job.height, job.block)
       IN IF CreatesCheckpoint(job.height)
          THEN /\ disk' = SaveCheckpoint(d, job.height, job.block)
               \* lookups take the first entry of a height
               /\ checkpoints' = IF job.height \in DOMAIN checkpoints THEN checkpoints
                                 ELSE Put(checkpoints, job.height, job.block)
          ELSE disk' = d /\ UNCHANGED checkpoints
    /\ SetLocalHeights(job.height)
    /\ job' = NoJob
    /\ UNCHANGED <<banned, handler>>

\* The search found no block (at most a share, see SharePool), the job is
\* stale, or the last peer left.
DropJob ==
    /\ handler = Idle /\ job # NoJob
    /\ job' = NoJob
    /\ UNCHANGED <<chainVars, p2pVars, handler>>

\* process_messages removes a banned connection; the peer may connect again.
Disconnect(p) ==
    /\ handler = Idle /\ p \in banned
    /\ banned' = banned \ {p}
    /\ UNCHANGED <<chainVars, local_height, sync_local_height, job, handler>>

----------------------------------------------------------------------------

\* init_genesis on an empty database, then set_local_state.
Init ==
    /\ blocks = <<Genesis>>
    /\ block_hashes = [b \in {Genesis} |-> 0]
    /\ height = 0
    /\ epoch = 1
    /\ checkpoints = [h \in {} |-> Genesis]
    /\ chain_generation = 0
    /\ disk = [blocks |-> [h \in {0} |-> Genesis], height |-> 0,
               utxo |-> Creates[Genesis], checkpoints |-> [h \in {} |-> Genesis]]
    /\ local_height = 0
    /\ sync_local_height = 0
    /\ banned = {}
    /\ job = NoJob
    /\ handler = Idle

HandleMessage ==
    \/ \E p \in Peers, b \in Blocks : ReceiveBlock(p, b)
    \/ \E p \in Peers, b \in Blocks : RejectBlock(p, b)
    \/ \E p \in Peers, b \in Blocks : SwitchFork(p, b)
    \/ \E b \in Blocks \ {Genesis} : IgnoreBlock(b)
    \/ \E p \in Peers, q \in Batches : ReceiveBlocks(p, q)

HandlerStep ==
    \/ TakeNext
    \/ BatchInvalid
    \/ BatchStorageError
    \/ BatchRace
    \/ BatchDone
    \/ \E claimed \in 0 .. Cardinality(Blocks) : BatchFork(claimed)
    \/ RollbackBlock
    \/ SwitchDone
    \/ SwitchFailed

Mine ==
    \/ \E b \in Own : PrepareMiningJob(b)
    \/ CommitBlock
    \/ DropJob

Next ==
    \/ HandleMessage
    \/ HandlerStep
    \/ Mine
    \/ \E p \in Peers : Disconnect(p)

Spec == Init /\ [][Next]_vars

----------------------------------------------------------------------------
(* Properties *)

ChainTypeOK ==
    /\ blocks \in Seq(Blocks)
    /\ DOMAIN block_hashes \subseteq Blocks
    /\ \A b \in DOMAIN block_hashes : block_hashes[b] \in Nat
    /\ height \in Nat /\ epoch \in Nat /\ chain_generation \in Nat
    /\ DOMAIN checkpoints \subseteq Nat
    /\ \A h \in DOMAIN checkpoints : checkpoints[h] \in Blocks
    /\ DOMAIN disk = {"blocks", "height", "utxo", "checkpoints"}
    /\ DOMAIN disk.blocks \subseteq Nat
    /\ \A h \in DOMAIN disk.blocks : disk.blocks[h] \in Blocks
    /\ disk.height \in Nat

P2PTypeOK ==
    /\ local_height \in Nat /\ sync_local_height \in Nat
    /\ banned \subseteq Peers

JobTypeOK ==
    \/ job = NoJob
    \/ job \in [block : Blocks, prev_hash : Blocks \cup {ZeroHash}, height : Nat,
                 epoch : Nat, generation : Nat]

HandlerTypeOK ==
    handler \in [op : {"idle", "batch", "rollback", "apply"},
                 kind : {"none", "fork", "multi", "batch"}, to : Nat,
                 queue : Seq(Blocks), peer : Peers \cup {NoPeer}, was : Seq(Blocks)]

\* Types of the variables.
TypeOK == ChainTypeOK /\ P2PTypeOK /\ JobTypeOK /\ HandlerTypeOK

\* The header vector is a chain: it starts at genesis, every header has the
\* one before it as parent, and height is the index of the last one, through
\* every interleaving of blocks, switches, batches and mined blocks.
ChainLinked ==
    /\ Len(blocks) = height + 1
    /\ blocks[1] = Genesis
    /\ \A i \in 1 .. height : Parent[blocks[i + 1]] = blocks[i]

\* block_hashes, by which forks find their ancestor and known blocks are
\* recognised, indexes exactly the current chain: no block of an abandoned
\* branch stays known, none of the current branch is missing.
IndexExact ==
    /\ DOMAIN block_hashes = {blocks[i] : i \in 1 .. Len(blocks)}
    /\ \A i \in 1 .. Len(blocks) : block_hashes[blocks[i]] = i - 1

\* The database holds the current chain and nothing above it, so GetBlocks
\* never serves a block of an abandoned branch; the saved height is the
\* node's unless a rollback is under way.
DiskMirrorsChain ==
    /\ DOMAIN disk.blocks = 0 .. height
    /\ \A h \in 0 .. height : disk.blocks[h] = blocks[h + 1]
    /\ disk.height >= height
    /\ handler.op # "rollback" => disk.height = height

\* A job that passes the guards of commit_mining_result was built for this
\* very state: for the current epoch, and out of outputs that are still
\* unspent, whatever happened while the search ran without the lock.
JobFresh ==
    handler = Idle /\ job # NoJob /\ JobCurrent =>
        /\ job.epoch = epoch
        /\ Spends[job.block] \subseteq disk.utxo

=============================================================================

----------------------------- MODULE ChainCrash -----------------------------
(***************************************************************************)
(* Chain with a process that may die at any point and is started again.    *)
(*                                                                         *)
(* Every put and delete of src/src/storage.rs reaches RocksDB on its own   *)
(* (there is no write batch), so a crash inside a handler leaves the       *)
(* writes done so far.  Memory is rebuilt by Node::new and load_state.     *)
(***************************************************************************)
EXTENDS Chain

CONSTANT MaxCrashes    \* bound on the number of crashes

ASSUME CrashAssumption == MaxCrashes \in Nat

VARIABLE crashes       \* number of crashes so far

----------------------------------------------------------------------------
(* The images a crash can leave *)

\* Mutant of AppendImages: the height is saved with the block.
HeightFirstImages(b) ==
    LET saved == SaveHeight(SaveBlock(disk, height + 1, b), height + 1)
    IN {saved, SaveOutputs(saved, b), UpdateUtxoSet(saved, b)}

\* While b is being appended: block, then its outputs, then its inputs; the
\* height comes last.
AppendImages(b) ==
    LET saved == SaveBlock(disk, height + 1, b)
    IN {saved, SaveOutputs(saved, b), UpdateUtxoSet(saved, b)}

\* The block that a handler may be appending, if any.
Appending(b) ==
    \/ /\ handler = Idle /\ Extends(b) /\ Acceptable(b)
       /\ chain_generation < MaxGeneration
    \/ /\ handler.op \in {"batch", "apply"} /\ handler.queue # <<>>
       /\ b = Head(handler.queue) /\ Extends(b) /\ Acceptable(b)
    \/ /\ handler = Idle /\ job # NoJob
       /\ JobCurrent /\ b = job.block

\* commit_mining_result saves the checkpoint after the height.
UncheckpointedImages ==
    IF handler = Idle /\ job # NoJob /\ JobCurrent
    THEN {Persisted(disk, job.height, job.block)}
    ELSE {}

\* While a block is rolled back: the block, then its outputs; not the height.
RollbackImages ==
    IF handler.op = "rollback" /\ height \in DOMAIN disk.blocks
    THEN LET deleted == DeleteBlock(disk, height)
         IN {deleted, RollbackUtxoSet(deleted, disk.blocks[height])}
    ELSE {}

CrashImages ==
    {disk} \cup (UNION {AppendImages(b) : b \in {c \in Blocks : Appending(c)}})
           \cup UncheckpointedImages \cup RollbackImages

----------------------------------------------------------------------------
(* Node::new on the database d *)

\* Heights up to the saved one at which load_state finds a block, in order: the
\* i-th has i - 1 below it.
Present(d) == {h \in 0 .. d.height : h \in DOMAIN d.blocks}
LoadedHeights(d) ==
    [i \in 1 .. Cardinality(Present(d)) |->
        CHOOSE h \in Present(d) : Cardinality({k \in Present(d) : k < h}) = i - 1]

\* Mutant of LoadState: a block is indexed under its position in the vector.
LoadStateByPosition(d) ==
    LET hs == LoadedHeights(d)
    IN /\ blocks' = [i \in 1 .. Len(hs) |-> d.blocks[hs[i]]]
       /\ block_hashes' =
            [b \in {d.blocks[hs[i]] : i \in DOMAIN hs} |->
                (CHOOSE i \in DOMAIN hs : d.blocks[hs[i]] = b) - 1]
       /\ disk' = d

\* A missing block is skipped, and the headers after it move up.
LoadState(d) ==
    LET hs == LoadedHeights(d)
    IN /\ blocks' = [i \in 1 .. Len(hs) |-> d.blocks[hs[i]]]
       /\ block_hashes' =
            [b \in {d.blocks[hs[i]] : i \in DOMAIN hs} |->
                CHOOSE h \in 0 .. d.height :
                    /\ h \in DOMAIN d.blocks /\ d.blocks[h] = b
                    /\ \A k \in h + 1 .. d.height :
                            k \in DOMAIN d.blocks => d.blocks[k] # b]
       /\ disk' = d

InitGenesis(d) ==
    /\ blocks' = <<Genesis>>
    /\ block_hashes' = [b \in {Genesis} |-> 0]
    /\ disk' = SaveBlock(SaveOutputs(d, Genesis), 0, Genesis)

Restart(d) ==
    /\ IF d.height = 0 THEN InitGenesis(d) ELSE LoadState(d)
    /\ height' = d.height
    /\ epoch' = d.height \div EpochBlocks + 1
    /\ checkpoints' = d.checkpoints
    /\ chain_generation' = 0
    /\ SetLocalHeights(d.height)
    /\ banned' = {}
    /\ job' = NoJob
    /\ handler' = Idle

Crash ==
    /\ crashes < MaxCrashes
    /\ \E d \in CrashImages : Restart(d)
    /\ crashes' = crashes + 1

\* rollback_to finds no block at this height: it drops the last header.
RollbackMissing ==
    /\ handler.op = "rollback" /\ height \notin DOMAIN disk.blocks
    /\ blocks' = Pop(blocks)
    /\ block_hashes' = Drop(block_hashes, Tip)
    /\ Rewind(disk)
    /\ UNCHANGED crashes

crashVars == <<vars, crashes>>

CrashInit == Init /\ crashes = 0

CrashNext == (Next /\ UNCHANGED crashes) \/ RollbackMissing \/ Crash

CrashSpec == CrashInit /\ [][CrashNext]_crashVars

----------------------------------------------------------------------------
(* Properties *)

\* Whatever was torn, a fork is only ever resolved against blocks that exist:
\* each entry of the hash index names the height at which the database holds
\* that very block.
IndexOnDisk ==
    \A b \in DOMAIN block_hashes :
        /\ block_hashes[b] \in DOMAIN disk.blocks
        /\ disk.blocks[block_hashes[b]] = b

\* A crash while a block is being appended, by a peer's message or by the
\* mining thread, costs at most that block: the node comes back with the
\* chain it had (the saved height is written after everything else), or with
\* the whole block.
AppendIsAtomic ==
    [][crashes' # crashes /\ handler.op # "rollback" /\ ChainLinked /\ DiskMirrorsChain =>
        \/ blocks' = blocks
        \/ \E b \in Blocks : blocks' = Append(blocks, b) /\ Spends[b] \cap disk'.utxo = {}]_crashVars

=============================================================================

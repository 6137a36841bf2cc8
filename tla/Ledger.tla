------------------------------- MODULE Ledger -------------------------------
(***************************************************************************)
(* The money of one node: the UTXO set, the mempool, the table of          *)
(* processed transaction ids and the fees that mining jobs claim           *)
(* (src/src/node.rs, src/src/block.rs, src/src/p2p.rs), while blocks come  *)
(* and go and the process dies and restarts.                               *)
(*                                                                         *)
(* What is abstracted, and why nothing below depends on it:                *)
(*  - a transaction is an element of Txs, an output a record that carries  *)
(*    its value; every transaction is signed by the owners of its inputs;  *)
(*  - which block extends the chain and when blocks are abandoned is the   *)
(*    business of Chain: here any payable block may come and the tip may   *)
(*    be rolled back at any moment.  A rollback on its own is the outcome  *)
(*    of a fork switch whose block is refused, one followed by AcceptBlock *)
(*    that of a switch that succeeds;                                      *)
(*  - the mempool is a set.  The code keeps it sorted by fee, which decides*)
(*    what is evicted and what fits in a block: both pick by fee below, any*)
(*    among equal fees.  A transaction whose inputs vanish and come back   *)
(*    between two sorts keeps its old, last place in the code;             *)
(*  - transactions have unit size, so 1 MB is MaxBlockTxs of them.         *)
(* A crash inside rollback_to and the header vector after a restart are in *)
(* ChainCrash; bond outputs are in Bonds.                                  *)
(***************************************************************************)
EXTENDS Integers, Sequences, FiniteSets, FiniteSetsExt, Functions

CONSTANTS
    Txs,           \* the transactions that are ever made
    Inputs,        \* Inputs[t]: the outputs that t consumes
    Outputs,       \* Outputs[t]: the outputs that t creates
    Miners, Me,    \* who coinbases pay; Me is this node
    BaseUtxo,      \* the UTXO set of the chain that the model starts on
    BaseHeight,    \* and its height
    BlockReward,   \* BLOCK_REWARD_LYT
    MinimumFee,    \* MINIMUM_FEE_LYT
    DustLimit,     \* DUST_LIMIT_LYT
    MaxMempool,    \* config.advanced.max_mempool_size
    MaxBlockTxs,   \* transactions that fit in a block
    Retention,     \* PROCESSED_TXIDS_RETENTION
    NoJob,
    MaxBlocks,     \* bound: blocks above BaseHeight
    MaxAppends,    \* bound: blocks appended in a behaviour
    MaxCrashes     \* bound: crashes in a behaviour

\* An output: the transaction (or, for a coinbase, the miner and the height)
\* that creates it, its index and its value.
Outpoint == [tx : Txs \cup Miners, height : Nat, index : Nat, value : Nat]

ASSUME LedgerAssumption ==
    /\ Me \in Miners /\ Miners \cap Txs = {}
    /\ Inputs \in [Txs -> SUBSET Outpoint]
    /\ Outputs \in [Txs -> SUBSET Outpoint]
    /\ \A t \in Txs : \A o \in Outputs[t] : o.tx = t
    /\ BaseUtxo \subseteq Outpoint
    /\ \A o \in BaseUtxo : o.tx \in Miners /\ o.height <= BaseHeight
    /\ {BaseHeight, BlockReward, MinimumFee, DustLimit, MaxBlockTxs,
        Retention, MaxBlocks, MaxAppends, MaxCrashes} \subseteq Nat
    /\ MaxMempool \in Nat \ {0}
    /\ IsFiniteSet(Txs) /\ IsFiniteSet(BaseUtxo)
    /\ \A t \in Txs : IsFiniteSet(Inputs[t]) /\ IsFiniteSet(Outputs[t])

VARIABLES
    chain,         \* the blocks above BaseHeight
    utxo,          \* RocksDB: the unspent outputs
    mempool,       \* Node.mempool
    saved_mempool, \* RocksDB: the mempool that load_mempool returns
    processed,     \* Node.processed_txids: transaction -> height
    job,           \* the mining job under way, or NoJob
    generation,    \* chain_generation
    abandoned,     \* history: transactions of blocks that were rolled back
    torn,          \* history: a crash cut the update of the UTXO set short
    crashes        \* number of crashes so far

vars == <<chain, utxo, mempool, saved_mempool, processed, job, generation,
          abandoned, torn, crashes>>

----------------------------------------------------------------------------
(* Values and fees *)

Value(outs) == MapThenSumSet(LAMBDA o : o.value, outs)

\* Transaction::is_coinbase: its one input consumes no output.
IsCoinbase(t) == Inputs[t] = {}

\* Transaction::fee returns Ok.  Nothing is asked of a coinbase, which need not be
\* the first transaction of a block, or in one at all.
Payable(t) ==
    \/ IsCoinbase(t)
    \/ Inputs[t] \subseteq utxo /\ Value(Inputs[t]) >= Value(Outputs[t])
Fee(t) == IF IsCoinbase(t) THEN 0 ELSE Value(Inputs[t]) - Value(Outputs[t])
Fees(T) == MapThenSumSet(Fee, T)

\* What the mempool is sorted by: an error counts as 0.
SortFee(t) == IF Payable(t) THEN Fee(t) ELSE 0

\* validate_basic and validate.
Valid(t) ==
    /\ Outputs[t] # {} /\ \A o \in Outputs[t] : o.value >= DustLimit
    /\ Payable(t)
    /\ IsCoinbase(t) \/ Fee(t) >= MinimumFee

Compatible(t, u) == Inputs[t] \cap Inputs[u] = {}

(* A block is the output of its first coinbase and the set of the other        *)
(* transactions.  Of their order one thing matters: an output that one of them  *)
(* spends and another creates again is there afterwards if it was created last. *)

Height == BaseHeight + Len(chain)
Coinbase(m, h, v) == [tx |-> m, height |-> h, index |-> 0, value |-> v]
Creates(b) == {b.reward} \cup UNION {Outputs[t] : t \in b.txs}
Consumes(b) == UNION {Inputs[t] : t \in b.txs}
Respent(T) == (UNION {Outputs[t] : t \in T}) \cap (UNION {Inputs[t] : t \in T})

\* Those that a block marks as processed and takes out of the mempool.
Ordinary(b) == {t \in b.txs : ~IsCoinbase(t)}
Confirmed == UNION {chain[i].txs : i \in DOMAIN chain}

\* validate_block_coinbase: only the first coinbase is compared with the fees.
CoinbaseValid(b) ==
    /\ \A t \in b.txs : Payable(t)
    /\ b.reward.value <= BlockReward + Fees(b.txs)

\* validate_block_no_double_spend
NoDoubleSpend(b) == \A t, u \in b.txs : t # u => Compatible(t, u)

\* Mutant of UpdateUtxoSet: the inputs stay spendable.
UpdateOutputsOnly(b) == utxo \cup Creates(b)
UpdateUtxoSet(b) == ((utxo \cup Creates(b)) \ Consumes(b)) \cup b.again

\* Mutant of RollbackUtxoSet: the outputs of the abandoned block stay.
RollbackNothing(b) == utxo
\* Outputs are deleted; consumed inputs are not restored (no undo data).
RollbackUtxoSet(b) == utxo \ Creates(b)

----------------------------------------------------------------------------
(* processed_txids *)

Mark(p, T, h) == [t \in DOMAIN p \cup T |-> IF t \in T THEN h ELSE p[t]]
Unmark(p, T) == Restrict(p, DOMAIN p \ T)

\* prune_processed_txids at height h with the mempool `pool`.
Prune(p, h, pool) ==
    LET cutoff == IF h > Retention THEN h - Retention ELSE 0
    IN Restrict(p, {t \in DOMAIN p : p[t] > cutoff \/ t \in pool})

\* load_state: the marks of the transactions in the last blocks of c.
Rebuilt(c) ==
    LET recent == {i \in DOMAIN c : Len(c) - i <= Retention}
        HeightOf(t) == BaseHeight + Max({i \in recent : t \in c[i].txs})
    IN [t \in UNION {Ordinary(c[i]) : i \in recent} |-> HeightOf(t)]

----------------------------------------------------------------------------
(* add_transaction_to_mempool *)

\* Mutant of Admissible: inputs of pooled transactions are not looked at.
AdmitConflicts(t) == Valid(t) /\ t \notin DOMAIN processed /\ t \notin mempool
Admissible(t) ==
    /\ Valid(t)
    /\ t \notin DOMAIN processed
    /\ t \notin mempool
    /\ \A u \in mempool : Compatible(t, u)

\* What the last place of a full, sorted mempool may hold.
Cheapest(pool) == {t \in pool : \A u \in pool : SortFee(t) <= SortFee(u)}

\* Mutant of Evict: the evicted transaction stays marked.
EvictKeepsMark(pool, marks) ==
    /\ \E victim \in Cheapest(pool) : mempool' = pool \ {victim}
    /\ processed' = marks
Evict(pool, marks) ==
    \E victim \in Cheapest(pool) :
        /\ mempool' = pool \ {victim}
        /\ processed' = Unmark(marks, {victim})

\* The new transaction may be the one evicted; the caller sees Ok all the same.
AddTransaction(t) ==
    /\ Admissible(t)
    /\ LET pool == mempool \cup {t}
           marks == Mark(processed, {t}, Height)
       IN IF Cardinality(pool) <= MaxMempool
          THEN mempool' = pool /\ processed' = marks
          ELSE Evict(pool, marks)
    /\ saved_mempool' = mempool'
    /\ UNCHANGED <<chain, utxo, job, generation, abandoned, torn, crashes>>

----------------------------------------------------------------------------
(* Blocks *)

Append1(b) ==
    /\ chain' = Append(chain, b)
    /\ utxo' = UpdateUtxoSet(b)
    /\ generation' = generation + 1

CanAppend == Len(chain) < MaxBlocks /\ generation < MaxAppends

\* The blocks of T by m that claim `extra` more than they may.
BlocksOf(T, m, extra) ==
    {[txs |-> T, again |-> A, reward |-> Coinbase(m, Height + 1, BlockReward + Fees(T) + extra)] :
        A \in SUBSET Respent(T)}

\* A block that another node may send, with any transactions, other coinbases
\* among them, claiming at most one unit more than it may.
ForeignBlocks ==
    UNION {BlocksOf(T, m, extra) :
        T \in {S \in SUBSET Txs : \A t \in S : Payable(t)}, m \in Miners \ {Me}, extra \in {0, 1}}

AcceptBlock(b) ==
    /\ CanAppend
    /\ CoinbaseValid(b) /\ NoDoubleSpend(b)
    /\ Append1(b)
    /\ processed' = Mark(Prune(processed, Height + 1, mempool), Ordinary(b), Height + 1)
    /\ mempool' = mempool \ Ordinary(b)
    /\ saved_mempool' = mempool'
    /\ UNCHANGED <<job, abandoned, torn, crashes>>

\* The tip is rolled back.  Neither the marks nor the mempool hear of it.
RollbackTip ==
    /\ chain # <<>>
    /\ LET b == chain[Len(chain)]
       IN /\ utxo' = RollbackUtxoSet(b)
          /\ abandoned' = abandoned \cup b.txs
    /\ chain' = SubSeq(chain, 1, Len(chain) - 1)
    /\ UNCHANGED <<mempool, saved_mempool, processed, job, generation, torn, crashes>>

----------------------------------------------------------------------------
(* Mining *)

\* The payable transactions that pay most, as many as fit.
BestTxs ==
    LET payable == {t \in mempool : Payable(t)}
    IN {T \in SUBSET payable :
            /\ Cardinality(T) = Min({MaxBlockTxs, Cardinality(payable)})
            /\ \A t \in T, u \in payable \ T : Fee(t) >= Fee(u)}

PrepareMiningJob ==
    /\ job = NoJob
    /\ \E T \in BestTxs : \E b \in BlocksOf(T, Me, 0) :
          job' = [block |-> b, prev |-> chain, generation |-> generation]
    /\ UNCHANGED <<chain, utxo, mempool, saved_mempool, processed, generation,
                   abandoned, torn, crashes>>

\* The guards of commit_mining_result.
JobCurrent == job.generation = generation /\ job.prev = chain

\* The marks of all transactions that stay in the mempool are dropped; a coinbase
\* stays there, and is in the next job again.
CommitBlock ==
    /\ CanAppend /\ job # NoJob
    /\ JobCurrent
    /\ NoDoubleSpend(job.block)
    /\ Append1(job.block)
    /\ mempool' = mempool \ Ordinary(job.block)
    /\ processed' = Prune(Unmark(Mark(processed, Ordinary(job.block), Height + 1), mempool'),
                          Height + 1, mempool')
    /\ saved_mempool' = mempool'
    /\ job' = NoJob
    /\ UNCHANGED <<abandoned, torn, crashes>>

\* No block was found, or the job is stale.
DropJob ==
    /\ job # NoJob
    /\ job' = NoJob
    /\ UNCHANGED <<chain, utxo, mempool, saved_mempool, processed, generation,
                   abandoned, torn, crashes>>

----------------------------------------------------------------------------
(* Crashes *)

\* update_utxo_set cut short: the coinbase first, then for one transaction
\* after the other its outputs and then its inputs.
PartialUpdates(b) ==
    {((utxo \cup {b.reward} \cup UNION {Outputs[t] : t \in p[1]}) \ (UNION {Inputs[t] : t \in p[2]}))
        \cup (b.again \cap (UNION {Outputs[t] : t \in p[1]})) :
        p \in {q \in (SUBSET b.txs) \X (SUBSET b.txs) :
                  q[2] \subseteq q[1] /\ Cardinality(q[1] \ q[2]) <= 1}}

Image(c, u, pool, cut) == [chain |-> c, utxo |-> u, mempool |-> pool, torn |-> cut]

\* accept_block saves the block, the UTXO set, the height and the mempool;
\* load_state drops a block above the saved height.
AcceptImages(b) ==
    {Image(chain, u, saved_mempool, TRUE) : u \in PartialUpdates(b)}
    \cup {Image(Append(chain, b), UpdateUtxoSet(b), saved_mempool, torn)}

\* commit_mining_result saves the mempool before the height.
CommitImages(b) ==
    {Image(chain, u, saved_mempool, TRUE) : u \in PartialUpdates(b)}
    \cup {Image(chain, UpdateUtxoSet(b), mempool \ Ordinary(b), TRUE)}

CrashImages ==
    {Image(chain, utxo, saved_mempool, torn)}
    \cup (UNION {AcceptImages(b) :
                   b \in {f \in ForeignBlocks : CanAppend /\ CoinbaseValid(f) /\ NoDoubleSpend(f)}})
    \cup (IF CanAppend /\ job # NoJob /\ JobCurrent THEN CommitImages(job.block) ELSE {})

\* Mutant of Restart: the mempool is not loaded.
RestartEmpty(image) ==
    /\ chain' = image.chain /\ utxo' = image.utxo
    /\ mempool' = {} /\ saved_mempool' = image.mempool
    /\ processed' = Rebuilt(image.chain)
    /\ job' = NoJob
    /\ torn' = image.torn

\* load_state: the mempool is taken as it was saved, and not marked.
Restart(image) ==
    /\ chain' = image.chain /\ utxo' = image.utxo
    /\ mempool' = image.mempool /\ saved_mempool' = image.mempool
    /\ processed' = Rebuilt(image.chain)
    /\ job' = NoJob
    /\ torn' = image.torn

Crash ==
    /\ crashes < MaxCrashes
    /\ \E image \in CrashImages : Restart(image)
    /\ crashes' = crashes + 1
    /\ UNCHANGED <<generation, abandoned>>

----------------------------------------------------------------------------

Init ==
    /\ chain = <<>>
    /\ utxo = BaseUtxo
    /\ mempool = {} /\ saved_mempool = {}
    /\ processed = [t \in {} |-> 0]
    /\ job = NoJob
    /\ generation = 0
    /\ abandoned = {} /\ torn = FALSE /\ crashes = 0

Next ==
    \/ \E t \in Txs : AddTransaction(t)
    \/ \E b \in ForeignBlocks : AcceptBlock(b)
    \/ RollbackTip
    \/ PrepareMiningJob
    \/ CommitBlock
    \/ DropJob
    \/ Crash

Spec == Init /\ [][Next]_vars

----------------------------------------------------------------------------
(* Properties *)

\* What the blocks of the chain create out of nothing beside their reward.
Unfunded(b) == Value(UNION {Outputs[t] : t \in b.txs \ Ordinary(b)})
AllUnfunded == MapThenSumSet(LAMBDA i : Unfunded(chain[i]), DOMAIN chain)

\* Whatever is confirmed, abandoned, mined or evicted, the unspent outputs are
\* never worth more than the base, one reward per block of the chain and the
\* further coinbases in it, as long as no crash cut update_utxo_set short: the
\* fees that a job claims are still paid when it is committed, and a rollback
\* takes back what its block paid out.
NoInflation ==
    ~torn => Value(utxo) <= Value(BaseUtxo) + BlockReward * Len(chain) + AllUnfunded

\* The coinbases besides the first ones are each in one block of the chain.
CoinbasesOnce ==
    \A i, j \in DOMAIN chain :
        i # j => (chain[i].txs \ Ordinary(chain[i])) \cap chain[j].txs = {}

\* An output is consumed at most once along the chain, and one that was
\* consumed is not in the UTXO set: a confirmed transaction cannot be confirmed
\* again, whether its mark was pruned, dropped by a mined block or lost in a
\* crash.  It holds as long as no crash cut update_utxo_set short, and while no
\* coinbase is on the chain twice, which creates the same outputs again.
SpentOnce == ~torn /\ CoinbasesOnce =>
    /\ \A i, j \in DOMAIN chain : i # j => Consumes(chain[i]) \cap Consumes(chain[j]) = {}
    /\ \A i \in DOMAIN chain : Consumes(chain[i]) \cap utxo = {}

\* A job that passes the guards of commit_mining_result is a block that any
\* other node accepts: its transactions are payable and exclude each other, and
\* its coinbase claims what they still pay.
JobAcceptable ==
    job # NoJob /\ JobCurrent => CoinbaseValid(job.block) /\ NoDoubleSpend(job.block)

\* A marked transaction is pooled, confirmed, or was in a block that the node
\* abandoned: eviction, mining and restarts lock no transaction out.
NoStrayMark == DOMAIN processed \subseteq mempool \cup Confirmed \cup abandoned

\* A pooled transaction leaves the mempool only by being confirmed, by being
\* the cheapest of a full mempool, or by a crash while this node commits a
\* block that holds it.
PooledNotLost ==
    [][\A t \in mempool \ mempool' :
        \/ t \in UNION {chain'[i].txs : i \in DOMAIN chain'}
        \/ mempool' \ mempool # {} /\ \A u \in mempool' : SortFee(t) <= SortFee(u)
        \/ crashes' # crashes /\ torn' /\ t \in job.block.txs]_vars

=============================================================================

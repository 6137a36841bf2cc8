# A TLA+ model of the ACCUM node

This directory specifies and checks the node in `src/` (a full node of a
proof-of-work chain with epochs of shares, bonds and loyalty). Every definition
is translated from the Rust source; `PROJECT.json` maps it to the lines it
stands for. TLC checks the modules on small instances; TLAPS proves for every
instance every safety property that a run checks: of the chain and its database,
the ledger, the bonds, the closing of epochs, the shares and their
resynchronisation, of difficulty and timestamps, of synchronisation sessions and
of connections; and that the chain implements its abstract specification.

## 1. The system

`main.rs` starts one process with four threads around one `Arc<RwLock<Node>>`:

- the **node loop** takes the write lock for one `Node::tick` every 100 ms: read
  all sockets, handle every message, accept connections, start or time out a
  synchronisation, request blocks;
- the **mining thread** takes the write lock to prepare a job, searches for a
  nonce *without* the lock, and takes it again to commit the result;
- the **RPC server** and the **dashboard** take the lock for a request.

Three atomics are read without the lock: `chain_generation`, `abort_mining` and
`mining_paused`. State that must survive is in RocksDB, written by independent
puts and deletes (no write batch, no transaction).

| Component | State | Operations | Hard because |
|---|---|---|---|
| Chain and fork choice (`node.rs`, `p2p.rs`) | `blocks`, `block_hashes`, `height`, `epoch`, `checkpoints`, `chain_generation` | `accept_block`, `try_fork_switch`, `try_multi_block_reorg`, `rollback_to`, `verify_and_accept_blocks`, `prepare_mining_job`, `commit_mining_result` | the job outlives the lock; reorganisations can stop half way; spent outputs cannot be restored |
| Database and restart (`storage.rs`, `Node::new`, `load_state`) | blocks, UTXO set, `height`, `epoch`, miners, bonds, checkpoints | put, delete, load | a crash falls between any two writes |
| Mempool and transactions (`block.rs`, `node.rs`) | `mempool`, `processed_txids`, UTXO set | `add_transaction_to_mempool`, pruning, `update_utxo_set`, `rollback_utxo_set`, selection for a job | conflicting spends, eviction, rollbacks, a job that claims fees while the chain moves |
| Bonds and slashing (`consensus.rs`) | `bonds`, `slashing_pool` | `add_bond`, `BondBroadcast`, bond outputs, `add_proof`, `process_all` | evidence arrives at any time, twice, swapped; the epoch may end twice |
| Epoch closing (`process_epoch_end`) | `total_emitted`, rewards, loyalty, epoch commits, marker `epoch_processing` | pay, archive, commit, reset | some thirty writes in a row; two callers save the height on different sides of it |
| Contribution and loyalty (`consensus.rs`, `miner.rs`) | `LoyaltyData` | `calculate_poci`, `update`, `apply_decay` | rounding; an epoch is counted from two places |
| Share pool (`miner.rs`) | shares of the epoch, counts, archive | `add_share`, `evict_oldest`, `new_epoch` | limits, eviction, two copies of every count |
| Share resynchronisation | `received_commits`, `archive`, `epoch_roots` | `handle_epoch_commit`, `handle_get_shares`, `handle_share_reply` | votes of several peers, paging by offset |
| Difficulty and timestamps (`difficulty.rs`, `block.rs`) | `timestamps`, `cached_difficulty` | retarget, median, `validate_timestamp` | clocks differ; a cache keyed by height; an own block is not checked |
| Mining search (`main.rs`) | nonce, hash and flag shared by threads | `mine_multithreaded` | three stores, one lock |
| Block synchronisation (`SyncManager`) | peers, one session, its status | `start_sync`, `request_blocks_from_peer`, `on_blocks_received`, `check_timeouts` | timeouts, retries, bans; mining waits for it |
| Peer connections (`p2p.rs`, `network.rs`) | `peers`, `known_peers`, ban flags | `accept_connections`, `connect_to`, `process_messages`, `ban`, reconnection | both ends remove and ban on their own; a node may dial itself; messages behind a ban are already read |

Not compiled (main.rs does not declare them), hence not part of the system:
`pool.rs`, `epoch.rs`, `slash.rs`, `state.rs`, `transaction.rs`, `share.rs`,
`sync_shares.rs`, `error.rs`.

What makes each component correct: the header vector is one chain and the index
and the database agree with it; a mined block is committed only on the state it
was built for; a reorganisation pays in work; a crash costs at most the
operation it interrupts; an epoch is paid once, within its reward; a count is
the number of things counted; a session ends and a reachable longer chain is
reached; a vote counts once; an output is spent once; only proven equivocation
costs a bond.

## 2. How the project is laid out

1. `Chain`, `ChainCrash`, `Chain_proofs`: blocks, forks, batches, mining,
   crashes. `ForkChoice` is the abstract specification of what the node promises
   about its choice of chain; `ChainForks` states that `Chain` implements it.
   `Chain_proofs` is about all three.
2. `EpochEnd`, with `Loyalty` and `Contribution`, `EpochEnd_proofs`: the writes of
   closing an epoch one by one, from both callers, with crashes; emission,
   rewards, commits.
3. `Ledger`, `Ledger_proofs`: mempool, `processed_txids`, UTXO set and the fees
   of jobs, across rollbacks and crashes.
4. `Bonds`, `Bonds_proofs`: bonds, evidence, slashing.
5. `SyncSession`, `SyncSession_proofs`: the session automaton against timely,
   late and silent peers, with liveness. `Connections`, `Connections_proofs`: the
   tables of connections below it.
6. `SharePool`, `ShareSync`, `Shares_proofs`: counts, limits, eviction; votes,
   paging, merging, reloading. The proofs about both are in one module, which is
   why the specification, the restart and the bound of `ShareSync` carry names of
   their own (`SyncSpec`, `RestartNode`, `MaxNodeRestarts`).
7. `Retarget`, `Retarget_proofs`, `MiningSearch`: time, difficulty and the search
   for a nonce.

`MC*` modules give the constants of a run, `MC*.cfg` the run. Modules are joined
where one needs the state of the other: `EpochEnd` evaluates `Loyalty` and
`Contribution`, `ChainForks` puts `Chain` under `ForkChoice`, `ChainCrash`
extends `Chain` with the database. Elsewhere the neighbour is replaced by
anything that it may do: `Ledger` lets any payable block come and the tip be
rolled back at any moment, `Retarget` lets any node take any other's next block.

What is worth adding: the rate limits and heartbeats of a connection, and the
composition of `SyncSession` with `Connections`.

## 3. The modules

### Chain

A block is a model value that stands for its own hash. `Parent`, `Work`,
`Creates` and `Spends` are constants; the checks of `accept_block` that look
only at the block and its ancestors are the set `Malformed`, those that look at
the node (already known, parent, checkpoint, existence of the spent outputs)
are guards. Variables are the node's fields; `disk` is the database, `job` the
mining job held without the lock, `handler` the handler that holds it. The
handlers that loop (`rollback_to`, `verify_and_accept_blocks`) are steps of
`handler`, so that a crash can fall inside them; nothing else runs until the
handler is idle, because it holds the write lock.

| Action | Code |
|---|---|
| `ReceiveBlock`, `RejectBlock`, `IgnoreBlock` | `P2PMessage::Block`: `accept_block` and what its result does to the P2P heights or the sender |
| `SwitchFork`, then `RollbackBlock`*, then `SwitchDone` or `SwitchFailed` | `try_fork_switch` and `try_multi_block_reorg` |
| `ReceiveBlocks`, `TakeNext`*, `BatchFork`, `RollbackBlock`*, `BatchDone` / `BatchInvalid` / `BatchRace` / `BatchStorageError` | `P2PMessage::Blocks`: both phases of `verify_and_accept_blocks` |
| `PrepareMiningJob`, `CommitBlock`, `DropJob` | the mining thread |
| `Disconnect` | a banned connection is removed |

Left out: `forks` (written, never read), `local_best_hash` (only sent),
`abort_mining` (the generation test stops the same search), the truncation to
`max_checkpoints`, and the failure of any database call but `save_block`.

### ChainCrash

`Crash` leaves one of the disk images that the running append or rollback can
have produced so far, and runs `Node::new` on it: `init_genesis` at height 0,
`load_state` otherwise, epoch from height, checkpoints from disk, generation 0.
`load_state` skips a missing block: the i-th header is the block at the height
that has i - 1 stored heights below it (`LoadedHeights`).

### MCTree, MCChain, MCChainCrash

The block tree of the runs: a branch this node mines, a heavier branch from
genesis, a block that spends the same output, two competing blocks holding the
same transaction, and a heavy malformed block.

### ForkChoice, ChainForks

`ForkChoice` has two variables: `view`, the chain as anyone sees it who takes
the lock, and `busy`, whether a switch or a batch is at work. Its four actions
are what may become of `view`: it grows by a block; a switch replaces a suffix
by one block that is heavier than the first block of that suffix, or only cuts
the suffix off; a batch appends some of its blocks to the chain, or to genesis.
`ChainForks` maps `view` to `blocks` while no handler runs and to the chain the
handler started from (`handler.was`) while one does. So the property
`ChoosesForks` says that whatever a handler goes through between taking and
releasing the lock (removed blocks, refused blocks, failed writes, batches cut
short), the outcome is one of these.

### Ledger, MCLedger

A transaction is an element of `Txs` with constant inputs and outputs, an output
a record with a value. `Append1` and `RollbackTip` change chain, UTXO set and
generation; `ForeignBlocks` are the blocks another node may send, one of which
claims a unit too much.

Nothing is asked of a transaction without real inputs (`IsCoinbase`), wherever it
stands: it may be pooled, mined by this node or be in a block of another, its fee
is 0, and no block marks it or takes it out of the mempool (`Ordinary`). The
order of a block's transactions matters only for an output that one of them
spends and a repeated coinbase creates again (`again`, a subset of `Respent`).

| Action | Code |
|---|---|
| `AddTransaction(t)` | `add_transaction_to_mempool`: validate, conflicts, mark, sort, evict |
| `AcceptBlock(b)` | `accept_block`: coinbase and double spend validation, UTXO set, marks, pruning, mempool |
| `RollbackTip` | the rollback of `try_fork_switch`, and of `rollback_to` a block at a time |
| `PrepareMiningJob`, `CommitBlock`, `DropJob` | the mining thread: selection by fee, the guards, the commit without validation |
| `Crash` | a crash between handlers, or after any write of an append, and `load_state` |

### Bonds, MCBonds

A header stands for its own hash; a proof names a miner and carries two headers
and two hashes. `bonds` is the table in memory, `stored` the one in RocksDB: an
entry is put into both together, who is slashed is asked of the second, and at
height 0 a restart does not read it (`Loaded`).

| Action | Code |
|---|---|
| `ReceiveProof(p)` | `SlashProof`: `verify`, `add_proof`, or a ban of the sender |
| `BondBroadcast(m, amount)` | the message, with `add_bond` |
| `ConnectBlock(created)` | a block with bond outputs, and at the end of an epoch `process_pending_slashes` |
| `RollbackTip` | a rollback, which undoes neither bonds nor slashes |
| `Restart`, `CrashInEpochEnd(created)` | evidence and processed slashes are lost, `load_state` reads the bonds unless the height is 0, `main` adds the configured bond |
| `Reconnect` | the sender of an invalid proof comes back |

### Retarget, MCRetarget

Several nodes, each with its clock and its chain of headers. `SiblingsTie`
compares blocks of different nodes on the same parent, so it needs all of them
in one state.

| Action | Code |
|---|---|
| `PrepareMiningJob(n)` | `prepare_mining_job` with `compute_difficulty_for_next_block` and its cache |
| `CommitBlock(n)`, `DropJob(n)` | the end of a search |
| `AcceptBlock(n, m)` | `accept_block` of the next block of `m`: `validate_timestamp` with parent and median |
| `RollbackToGenesis(n, m)` | a batch of a longer chain that has parted from ours |
| `Restart(n)`, `Tick` | `load_state`; real time |

### MiningSearch, MCSearch

One step per access to the shared cells of `mine_multithreaded`; a hash is a
number. `Commit` is `commit_mining_result` on what the threads left.

### Connections, MCConnections

A connection has two ends, each an entry in the table of its owner with the
bytes that wait for it. An end is closed by its owner alone; the other one finds
out when it reads.

| Action | Code |
|---|---|
| `ReadAll(n)` | `process_messages` (remove, read everything) and the dispatch of what was read |
| `Accept(e)` | `accept_connections` |
| `Reconnect(n)` | step 3b of `tick`, and the start |
| `Gossip(n, S)` | the `Peers` message (no node of this program sends one) |
| `Offend(e)`, `Fail(c)` | a message that earns a ban; a socket that breaks |

### EpochEnd, Loyalty, Contribution

`node` is the part of `Node` that closing an epoch reads or writes, `disk` a
function from the database keys that are present. A handler holds the write
lock, so nothing but a crash can see it half done, and after a crash only the
database is left. A handler is therefore one action: it computes the new memory
and the list of its writes in the order of the code (`Step`), and `Perform`
either applies them all (`Finish`), or stops at any of the images in between and
restarts the node with `LoadState` and `Recovered` (`Crash`). `PutIn` and `PutAll`
are the insertion of one and of several records into a map. The order in which a
hash map is walked is a parameter of the action.

| Action | Code |
|---|---|
| `AcceptBlock(order)` | `accept_block`: height saved, then `process_epoch_end`, then epoch saved |
| `CommitBlock(order)` | `commit_mining_result`: the block as a share, the block reward counted, `process_epoch_end`, then height and epoch saved |
| `AddShare`, `AddBond`, `RegisterMiner`, `ReportEquivocation` | the handlers that change what the epoch end reads |

Inside `EpochEndStep`: `SlashStep`, `PayStep` (treasury, rewards, trimming),
`CommitStep` (archive, share root, commit), `ResetStep` (loyalty, shares), the
emission, the epoch, the marker. `Loyalty` holds the arithmetic of
`LoyaltyData`, `Contribution` that of `calculate_poci`, which reaches `EpochEnd`
as its constant `PoCI`. The share pool is here its counts: `Roomy` is what
`evict_oldest` leaves of them, before `ShareStep` tests the limit. Left out:
whether a miner at its limit is banned (`SharePool`), amounts of bonds, the
roots inside a commit, database errors, and rollbacks (those are in `Chain`).

### SyncSession, MCSync

The chain of the node, and of each peer, is the block it ends in. `sync` is the
`SyncManager`, `conn` the connections, `pending[p]` the requests that `p` has not
answered, `job` whether the mining thread holds a job. An answer is handled in
one step (the lock is held), with the chain the peer has at that moment. `Spends`
says which outputs a block spends, named by the block that creates them; a rollback
loses the outputs that the removed blocks had spent (`gone`), and a valid block that
spends one of them is refused (`refused`).

| Action | Code |
|---|---|
| `Version(p)`, `Reply(p)`, `PushBlock(p)` | the handlers of `Version`, `Blocks` and `Block` |
| `Uninvited(p)` | `Blocks` that nobody asked for, from a peer that is not timely: known blocks, a piece of any chain, blocks that link to nothing, none at all |
| `Tick(throttled)` | steps 3 to 5 of `tick`: `needs_sync`, `start_sync`, `check_timeouts`, `request_blocks_from_peer` |
| `TimeoutTick` | the same when `SYNC_TIMEOUT_SECS` have passed without an answer |
| `PushFork(p)` | a `Block` that competes with one of ours: `try_fork_switch`, which may fail and cost our block |
| `RemoveBanned`, `Disconnect`, `DisconnectOne`, `DropStale`, `Connect` | `process_messages`, `broadcast`, `accept_connections`, `connect_to` |
| `PeerGrows`, `PeerReorganises` | the peer's own node, which switches branches and rolls back as well |
| `PrepareMiningJob`, `CommitBlock` | the mining thread and its gate |

Which pushed block is the heavier one is a free choice here; a batch that does
not link rolls back to genesis (`AncestorNotFound` in
`Chain_proofs` shows that it always does). Answers from a banned connection stay
possible until it is removed; the code allows it for the messages read in the
same tick.

### SharePool, MCSharePool

A share is a model value with a miner, a height and a verdict (its hash is right
and meets the target); memory is counted in shares. The miner is the one that the
share names: nothing in a share shows who sent it (`miner.rs:171-241`,
`node.rs:1695-1705`), so `invalid`, `credit` and `ban` say what was done in a
miner's name, and no property speaks of what a miner did. Shares whose hash is right
but which belong to another height or epoch are refused by the code before
anything is counted and have no action.

| Action | Code |
|---|---|
| `AddValid(s)`, `AddOverLimit(s)`, `AddInvalid(s)` | `Node::add_share` with the three results of `SharePool::add_share`: counted, `Err` for the limit, `Ok(false)` |
| `BanEnds(m)` | the clock passes `banned_until` |
| `NewBlock` | the next height; at the end of an epoch `new_epoch` and `reset_miner_shares` |
| `Restart` | `load_state`: miners are loaded, the pool is empty |

The eviction inside `AddValid` and `AddOverLimit` comes before the test of the
limit, as in the code; among several miners with the most shares the walk over
a hash map picks any. All miners are bonded here (the bond test is in
`EpochEnd`). The history counters of a miner are left out.

### ShareSync, MCShareSync

One epoch, followed by several nodes. A share is a number, in the canonical
order of the code, and a Merkle root is the set it is computed from, so two
roots are equal exactly when the sets are. `net[m][n]` is the connection from
`m` to `n`: reliable, in order, reset by a restart.

| Action | Code |
|---|---|
| `CloseEpoch(n)` | `process_epoch_end`: `new_epoch`, `save_shares_archive`, the key `epoch_share_root`, `save_epoch_commit` with its broadcast |
| `HandleEpochCommit(n, p)`, `HandleGetShares(n, p)`, `HandleShareReply(n, p)` | the handlers of the three messages, dispatched by `tick` |
| `RestartNode(n)` | `Node::new` and `load_state`: archives that are not empty, and beside them what the keys of their roots hold |
| `CrashInClose(n)` | the process dies in the close before, between or after the writes of archive and root, and starts again: with the epoch completed, or open once more when the closing block was its own and its height not yet saved |

The constants say what each node had collected when it closed the epoch, what it
may collect in it after a restart, and which shares meet the difficulty it has
now (validation of a reply uses the present target, not that of the epoch).
Archive and root are two keys (`node.rs:3725`, `3745`), `savedShares` and
`savedRoot`; `torn` is a history variable, the nodes whose last close died between
the two. Such a node reloads an archive without a root, or, when the epoch had
been closed before and was opened again, with the root of the first close.
Pruning of old epochs is left out, and so are the messages for proofs of single
shares, whose handlers do nothing. The copies of these handlers inside
`handle_p2p_message` are never reached.

## 4. Runs

| Run | Checks | Bounds |
|---|---|---|
| `MCChain` | `ChainLinked`, `IndexExact`, `DiskMirrorsChain`, `JobFresh`, refinement `ChoosesForks` | 8 blocks, 2 peers, batches of up to 2 blocks, no handler starts past generation 5, epochs of 2 blocks, a checkpoint every 2 blocks, storage may fail |
| `MCChainCrash` | `IndexOnDisk`, `AppendIsAtomic` | the same tree, generation 2, 2 crashes |
| `MCLedger` | `NoInflation`, `SpentOnce`, `JobAcceptable`, `NoStrayMark`, `PooledNotLost` | 4 transactions, one of them a coinbase, 1 output to begin with, mempool of 2, 2 transactions per block, marks kept 1 block, 2 blocks on the chain, 2 appends, 1 crash |
| `MCBonds` | `SlashedOnce`, `InnocentKeepsBond`, `EvidenceActedOn` | 2 miners, 11 proofs, amounts 1 to 3 with a minimum of 2, epochs of 2 blocks, height up to 5, 2 rollbacks, 2 restarts |
| `MCRetarget` | `SiblingsTie`, `RefusedForSkew` | 2 nodes a second apart, retarget every 2 blocks, block time 3, genesis target 12, clamp 75 % to 150 %, a search takes at least 1 second, time 10 to 18, height up to 4 |
| `MCSearch_nonce` (violation) | `NonceOfHash` | 2 threads, 4 nonces |
| `MCEpoch` | `ReloadIsIdentity`, `SharesMatchPool`, `LoyaltyOncePerEpoch`, `MintedIsCounted`, `PaidWithinSupply` | 2 miners, epochs of 2 blocks, 4 heights (2 epochs), a pool of 2 shares, 1 per miner in it, no share sent for a miner that is credited with 1, own blocks as further shares, 1 crash after any write, supply cap reached in the second epoch |
| `MCEpoch_twice` (violation) | `NotPaidTwice` | as `MCEpoch` |
| `MCSync` | `NeverBlind`, `FlagFollowsSession`, `NotAheadOfChain`, `TimelyNotBanned`, `SessionEnds`, `CatchesUp` | a timely peer on 2 blocks, the second of which spends an output of genesis, one that starts on 1 and may grow to a malformed second, a third block to switch to, one own block; batches of 1, ban at the second timeout, 2 disturbances: connections closed or reopened, late answers, pushed forks, replaced chains, uninvited batches |
| `MCConnections` | `SlotsBounded`, `BansDoNotEcho`, `SelfLinksEnd`, `Rejoins` | 2 nodes, room for 2 peers, 1 address per message, 3 connections, 1 broken socket, 1 offence, 1 `Peers` message |
| `MCSharePool` | `CountsExact`, `EvictionIsFair` | 2 miners, 9 shares on 3 heights (2 epochs), room for 3 shares, 2 per miner, 5 counted per miner and pool, 1 restart |
| `MCShareSync` | `RootIsOfArchive`, `OwnSharesServed`, `OnlyAcceptable`, `SmallExchangeEnds` | 3 nodes with 1, 3 and 0 of 3 shares, pages of 1 share, one node that refuses a share, margin 1, 2 restarts or crashes in a close of the node with 3 shares, which then collects 2 of them again or none |

Every action of every module fires in a run, and each property is broken by a
mutant of the code under its own bounds (`PROJECT.json`, "mutants").

Why the bounds are enough:

- `MCChain`: five generations allow two reorganisations around a mined block.
  Two crashes in `MCChainCrash` allow one during the recovery from a torn
  rollback.
- `MCLedger`: a pair of conflicting transactions, a child of one of them and a
  coinbase whose output the other one spends are the least with which a
  transaction is evicted, confirmed by somebody else, rolled back and offered
  again, and a spent output is created again; a mempool of two is full with two
  of them, and a retention of one block prunes a mark while the block is still on
  the chain.
- `MCBonds`: height 5 is two ends of an epoch with a rollback over the first one;
  the eleven proofs are right in both orders or wrong in one respect each.
- `MCRetarget`: four blocks hold two retargets, the second over blocks that the
  nodes mined; the first is capped at the genesis target, the second is not. Both
  nodes can hold rival blocks, cache a target, fall back and compute it again.
- `MCConnections`: three connections are the least with which a node that is
  full (2) is dialed once more, or has a connection to itself beside one to its
  bootnode.
- `MCEpoch`: two epochs are the least that update loyalty across an epoch, and
  the cap of 50 against rewards of 30 and 20 makes the second epoch trim. With
  own blocks as shares, a pool of two is the least in which a share is evicted,
  and one is refused for the limit.
- `MCSync`: two blocks above genesis with batches of one are the least with which
  a session spans several requests, an uninvited batch makes it overtake the chain
  or restart, and a rollback loses an output that the timely peer's chain spends;
  two disturbances are the least that lose two requests to the timely peer.
- `MCSharePool`: room for three shares with a limit of two is the least at which
  an eviction lowers the count of a miner that is at its limit.
- `MCShareSync`: pages of one share make every exchange of two shares or more
  take several requests; three nodes are the least with which a node has shares
  from a second peer while it pages through those of a third; two crashes are the
  least that leave an archive beside the root of an earlier close.

Deadlock is not checked in `MCLedger`, `MCRetarget`, `MCConnections`,
`MCSharePool` and `MCShareSync`: there the bounds on blocks, time, connections
or messages bring the model to a stop that the program does not know.

What the violations show:

- **Rewards** (`MCEpoch_twice`). The marker that should keep a crash from paying
  an epoch twice is deleted by `load_state`; a node killed while its own block
  closes an epoch has not saved the new height yet and closes the same epoch
  again. The outputs are overwritten, `total_rewards` (and, depending on the
  write, `total_emitted`) counts twice.
- **Search** (`MCSearch_nonce`). A thread that finds a block stores its nonce
  without the lock under which another stores nonce and hash of a share, so the
  pair that is committed may belong to two different hits.

### What the model shows besides

Behaviour that follows from the code, was seen while modelling it, and has no
run of its own. Where a property depends on it, its premise says so.

Chain:

- A disagreement of code and comments: `p2p.rs:1250` says "Find common ancestor for
  the whole batch" and `p2p.rs:1268-1269` "reorg only if the foreign branch is
  strictly heavier than ours from the fork point". But `find_common_ancestor` is
  called with our own height (`p2p.rs:1251`), where no block of a fork has its
  parent: it never finds an ancestor (the lemma `AncestorNotFound`), and every
  batch that does not extend the tip rolls the node back to genesis before any
  work is compared. `ForkChoice` therefore lets a batch put its blocks on genesis.
- A deeper switch compares a single block, so total work can fall (a comment says
  so). Between honest miners that comparison is a tie (`SiblingsTie`).
- `total_emitted` is not held at the maximum: `commit_mining_result` counts the
  reward of every own block (`node.rs:3486`) without comparing it with the cap,
  and blocks have no last rewarded height. `README.md:39` says "Total Supply: Fixed
  at exactly 150,000,000 ACM", `SPEC.md.txt:57` "Maximum supply | 150,000,000 ACM",
  and the sketch at `SPEC.md.txt:544-551` fails with `ExceedsMaxSupply` above it.
  Only the outputs of epochs keep to it (`PaidWithinSupply`).
- Only the first transaction of a block is compared with reward and fees
  (`p2p.rs:47-58`), although the comment above it says "the sum of the coinbase
  outputs" (`p2p.rs:41`) and `SPEC.md.txt:129` "First transaction is valid
  coinbase". Every other transaction with `is_coinbase()` passes with fee 0
  (`block.rs:475-477`, `block.rs:514-516`), in a block and through the mempool, and
  `prepare_mining_job` takes it although its comment says "Collect non-coinbase
  txs" (`node.rs:2915`). Its outputs are created from nothing, again and again, as
  no block removes it from the mempool (`node.rs:2533`, `node.rs:3493`).
  `NoInflation` counts such outputs apart (`AllUnfunded`), and `SpentOnce` holds
  only while none of these transactions is on the chain twice (`CoinbasesOnce`).
- A rollback cannot restore consumed outputs: a valid block that spends one is
  refused, and its sender banned (`is_attack`, `node.rs:51`). It does not undo
  the epoch, emission, bonds or slashes either.
- A switch that fails leaves the P2P heights as they were before (`lost` in
  `SyncSession`). A storage error in a batch bans its sender.
- A rollback torn by a crash leaves a hole that `load_state` skips, after which
  `height` and the header vector no longer correspond and `RollbackMissing` drops
  the wrong header. A torn `update_utxo_set` leaves inputs that can be spent
  again (`torn` in `Ledger`).
- The map of orphan blocks (`forks`) is never read and never pruned.

Time and search:

- An own block is not validated (`node.rs:3455`), although `SPEC.md.txt:126` makes
  "`timestamp > median(last_11_blocks.timestamp)`" a condition of every block: if
  a search takes no longer than the clocks differ, as it may in the run, a node
  keeps a block that its peers refuse and ban it for, and mines on it. It happens
  in `MCRetarget` (clocks a second apart, a search of one second); `RefusedForSkew`
  says when, and that nothing but clocks can cause it.
- The first retarget window holds the genesis timestamp, although the comment at
  `node.rs:853-854` says it does not; only clamp and cap keep the target in range.
- The miner prefilters nonces on a header with nonce 0, the receiver on the header
  itself (`miner.rs:227`).

Epochs, shares, bonds:

- Rewards are computed from the shares that this node happened to receive and
  paid into its own UTXO set, so two nodes with one chain may hold different
  outputs. The reward of an own block is added to `total_emitted`, that of a
  received one is not.
- A slash record is stored under the height alone: of two miners slashed at one
  height the last one is kept. The bond table is never debited when the bond
  output is spent.
- At height 0 `Node::new` runs `init_genesis` instead of `load_state` (`node.rs:361`),
  also on a node that was rolled back to genesis: its table of bonds is empty but
  for its own, although RocksDB still has the others, and `add_share` refuses the
  shares of their miners until they broadcast them again. `InnocentKeepsBond`
  excepts that restart for the table in memory, not for RocksDB.
- The next offset of a share page is the number of shares the node has after the
  merge (`node.rs:2319-2322`), but the peer counts offsets in its own order:
  a node whose own shares come late in that order repeats the request for ever,
  and so does one that refuses what it is served. Exchanges that fit into one
  reply of acceptable shares end (`SmallExchangeEnds`).
- The root that is broadcast is the hash of the `EpochCommit`, never a root of
  shares: a commit is taken for a mismatch by every node that has closed the
  epoch. `new_epoch` discards shares merged before the node closed the epoch, and
  merged shares are never saved.
- Eviction lowers the count the limit is tested on, not the one that is paid
  (`SharesMatchPool`), so credit can exceed the limit of `SPEC.md.txt`, and the
  archive holds fewer shares than were rewarded. A miner that only sends invalid
  shares is not banned, because the ratio is looked at only when a share is
  refused for the limit; a ratio between 10 % and 30 %, named a warning, bans.
  The `miner_id` of a share is not authenticated, so invalid shares that others
  send in a miner's name count against it, and ban it at its limit.
- The key of an epoch's archive is written before that of its root: a crash
  between them leaves an archive that is served with no root, or with the root of
  an earlier close of the same epoch, until a reply or another close corrects it
  (`RootIsOfArchive` names exactly this exception). An epoch that an own block
  closes and a crash opens again loses the archive of its first close to the second.

Connections:

- `banned_peers` is compared with an identity drawn before the peer has told its
  own, and is never written: a banned peer may connect again at once. A message
  that exceeds the rate bans (`p2p.rs:660`), where the comment at
  `network.rs:161-165` says that it is rejected and the peer may retry.
- `write_all` on a non-blocking socket may fail half way; every caller ignores
  it. `broadcast` removes connections without telling the `SyncManager`.

### Fairness

- `SyncSession`: weak fairness of the tick (the node loop never stops and the
  clock runs), of removing banned connections (the first thing a tick does), and
  that a peer in `Timely` keeps answering or broadcasting its version, which it
  does every 30 seconds. A timely peer sends `Blocks` only when asked and its
  chain gets no lower. Nothing is assumed of other peers, of new connections or
  of the miner, except that there are at most `MaxDisturbances` disturbances:
  `SessionEnds` and `CatchesUp` say what happens once they stop. That is a real
  premise: the code handles `Blocks` from any peer at any time (`node.rs:1620`),
  and a peer that goes on sending batches that do not link restarts the session
  each time (`node.rs:1674-1680`), is not banned for it, and keeps `sync_in_progress`
  set as long as it likes. `CatchesUp` also excepts a failed switch (`lost`) and a
  valid block refused for an output that a rollback lost (`refused`): its sender
  is banned, timely or not. `NotAheadOfChain` is claimed only without late answers,
  switches and uninvited batches; after one it is false, and `CatchesUp` is what
  remains.
- `ShareSync`: weak fairness of handling the messages of each connection: every
  tick reads every socket and handles all it read. Closing an epoch and restarts
  are not assumed to happen.
- `Connections`: weak fairness of reading and of reconnecting for each node (both
  are in every tick) and of accepting what waits in the listener's backlog. The
  bounds on failures and offences make them stop; nothing assumes that they
  happen.

## 5. Proofs

All proofs start from the assumptions on the constants alone: trees of blocks,
peers, batches, transactions, outputs, evidence, nodes, shares, page size and
every bound are arbitrary. What the assumptions ask for beyond types is what the
program's constants give: no block descends from itself; a peer survives its
first timeout (`MaxRetries`, 3 in the code); an output names its transaction,
and a transaction has finitely many; a `Peers` message has room for an address;
the clamp of a retarget never lets a target fall to zero; the miners are
finitely many.

| Theorem of `Spec` | Module |
|---|---|
| `TypeOK`, `ChainLinked`, `IndexExact`, `DiskMirrorsChain`, `JobFresh`; refinement `ChoosesForks`; with crashes `IndexOnDisk`, `AppendIsAtomic` | `Chain_proofs` |
| `SpentOnce`, `NoStrayMark`, `NoInflation`, `JobAcceptable`, `PooledNotLost` | `Ledger_proofs` |
| `SlashedOnce`, `InnocentKeepsBond`, `EvidenceActedOn` | `Bonds_proofs` |
| `SiblingsTie`, `RefusedForSkew` | `Retarget_proofs` |
| `FlagFollowsSession`, `NeverBlind`, `NotAheadOfChain`, `TimelyNotBanned` | `SyncSession_proofs` |
| `SlotsBounded`, `BansDoNotEcho` | `Connections_proofs` |
| `CountsExact`, `EvictionIsFair`; of `SyncSpec` `RootIsOfArchive`, `OwnSharesServed`, `OnlyAcceptable` | `Shares_proofs` |
| `ReloadIsIdentity`, `SharesMatchPool`, `LoyaltyOncePerEpoch`, `MintedIsCounted`, `PaidWithinSupply` | `EpochEnd_proofs` |

`Chain_proofs`, part 1. The inductive invariant `Inv` adds to the properties what
a running handler needs: that `to` is below the height during a rollback, that
the saved height lags only then, and how far a job can still be valid: a job of
the current generation is either on the chain it was built for with nothing
consumed since, or that chain was cut below its parent by a failed one-block
switch (which does not advance the generation) and any block accepted since
advanced it. The proof has one lemma per kind of move (append, remove, handler
only) and one step per action.

Part 2 is the refinement, `ForkChoice`'s specification under the mapping of
`ChainForks`. `ChainLinked` does not say where the chain came from, so the proof
adds `ForkInv`: while a switch is at work the header vector is a prefix of the
chain it started from and the waiting block is heavier than the one after the
fork point; while a batch is at work the chain is that chain, or genesis once it
was rolled back, followed by blocks of the message. Each way a handler can end is
then one abstract step (`SwitchEnds`, `SwitchFails`, `BatchEnds`), and every step
before it is hidden. It rests on `AncestorNotFound`: a batch rolls back to genesis
or not at all.

Part 3 is about `ChainCrash`. Of `Inv` a crash in a rollback leaves little:
headers may be missing, so the header vector is no longer the chain on disk.
What survives is `CrashInv`: every hash in the index belongs to a height that is
stored, and no header is above the height, so that an ancestor search still finds
nothing. A disk image of a running operation keeps it because `load_state` builds
the index from what it finds; there is an i-th stored height for every i up to
their number (`IthHeight`). `AppendIsAtomic` goes through the images of an append
one by one.

`Ledger_proofs`. The UTXO set alone does not say what was spent, so the invariant
adds `NothingFromNowhere`: what is unspent was created on this chain, and what a
block consumed was created below it. An output belongs to one transaction or to
one height, and a transaction whose inputs are unspent is not on the chain, so a
new block creates nothing that an earlier one has created, unless it repeats a
coinbase (`CreatedOnce`). Neither `SpentOnce` nor `NoInflation` is inductive: a
rollback does not restore what its block consumed, and it may take away the
repetition of a coinbase that excused the chain. So both are claimed for every
prefix of the chain and for what a rollback to it would leave unspent (`Left`): a
rollback only forgets the last prefix, a block adds one and leaves the others no
more than they had.

A block adds at most its reward and what its further coinbases create to the
bound (`AppendKeepsBound`), since a job claims exactly reward and fees, a foreign
block was checked, and what transactions take in covers what they pay out and
their fees, coinbases apart (`FeesAreCovered`). Sums are the folds of the
community modules; a section of lemmas proves what they do to a union, a removal
and a subset.

`JobOK` says that since a job was prepared the chain was only cut, unless the
generation moved; so a job that is still current can be paid
(`CurrentJobIsPayable`). Both parts of a crash matter: a torn UTXO set leaves
everything but `SpentOnce` and `NoInflation` (whose premise says so), a whole
block leaves the invariant as an append does.

`Bonds_proofs`. The invariant says that only verified evidence is pooled, that
a miner has at most one slash for each restart and one for being in the list of
the slashed, and that a bond in memory is in RocksDB too, where `process_all` looks
for it; verification of a proof, in either order of its two headers, implies
that the miner signed both blocks of one slot.

`Retarget_proofs`. `TargetInv`: on every chain each target is what the blocks
below it determine (`Computed`), and so is a cached one that would be used, and
the one in a job. Two blocks on one parent then tie, whoever made them.
Timestamps need not increase along a chain. What does is the real time at which a
block's maker prepared it, `RealTime`: its timestamp without the skew of that
maker's clock, and each block adds at least a search (`TimeInv`). A refusal means
that a time of the chain, its last one or its median, is not below the new one.
That the median is one of the times is proved for unsorted windows
(`MedianExists`: the smallest number that more than half of them do not exceed),
so the difference is one of skews, less the searches in between.

`SyncSession_proofs`. `Path` is recursive over the tree of blocks; that no block
descends from itself makes it well-founded, and its equations follow. `GoodSync`
is what every operation of the `SyncManager` keeps. `SyncInv` adds what the
messages under way mean: a timely peer was only asked for blocks that it has
(`AskedInv`), other peers may have replaced their chains by lower ones; a timeout
counted for a timely peer leaves an answer of it under way, which resets the
count, or a ban that makes the node forget it (`TimelyInv`); without late answers,
switches and uninvited batches the only request under way is that of the session
that waits, and it starts right above the chain (`AheadInv`).

`Connections_proofs`. What waits on a connection tells the truth about its two
ends, a peer is known by no name but its own, and a version comes before anything
else (`ConnectionsInv`). So a `BanPeer` names its receiver, the receiver knows the
sender by another name, and nothing is banned back, unless the node talks to
itself. `Digest` reads all messages before it handles any, and the lemmas say so:
one fold for each pass (`FoldsGo`), what a pass keeps (`FineSoFar`). The bound of
the table follows action by action: only accepting, reconnecting and gossip
enlarge it, each from a table of known size.

`Shares_proofs`, part 1. `GoodPool` states the four counts by positions in the lists:
no share is listed twice or under another miner, the set of hashes is what is
listed, and memory is its size. Taking out the oldest share and putting in a new
one keep it; add_share is a sequence of these. `SharesInv` adds the types of the
other counts and that no miner is credited with less than it holds.

Part 2 is about `ShareSync`. Its invariant `SyncInv` adds the types of the
stores and that what a node persists, or still holds for the running epoch, is
what it collected. A restart and a crash in the close end in the same start of
the process, so one lemma (`StartsInv`) says that it keeps the invariant
whatever the two keys hold, as long as they agree or the node is `torn`.
Messages need no invariant: whatever a reply contains, only its acceptable
shares are merged. `NothingUnacceptable` needs that addition, because after a
restart the archive is the persisted one. A share leaves an archive only when
the node closes the epoch or restarts (`LossesAreKnown`).

`EpochEnd_proofs`. A restart finds only the database, so the invariant has to
say what the database is worth at every write, and one statement cannot do both
jobs. `Settled` is for the moments between handlers: a record is on disk exactly
when it is in memory and equal to it, the counters too, the epoch follows from
the height. Inside a handler that is false. `DiskOK` is for every image of the
database in between: each key holds something of its kind, and loyalty has not
counted an epoch ahead of the stored height. It depends on single keys only, so
it holds of all images of a handler when every write is fine by itself
(`ImagesOK`); and it is enough for a restart from any image to be `Settled`
again (`RestartFacts`), because `load_state` derives the rest from what it
finds. That is the whole treatment of crashes. The end of an epoch is then put
together step by step (`SlashFacts`, `PayFacts`, `CommitFacts`, `ResetFacts`,
`EpochEndFacts`): the last write to each record is the value in memory
(`Tracks`), whatever order the map is walked in, and what each step creates is
at most what it adds to the emission (`PayMints`). Both callers close an epoch
with the height in memory ahead of, or behind, the one on disk; `AcceptSound`
and `CommitBlockSound` show that either order ends mirrored. That no miner is
paid for fewer shares than the pool holds survives eviction, because `Roomy`
only lowers counts (`RoomyFacts`), and a restart, because it empties the pool.
The other half of `SharesMatchPool`, `MintedIsCounted` and `PaidWithinSupply`
hold only until a crash (the pool is not persisted, and an epoch may be closed
twice), which is why the properties and the invariant claim them for a process
that has not died. The cap is a matter of one handler (`PaysWithin`): what it
pays is trimmed to what the counter leaves, and the counter covers all that was
paid before.

A section of lemmas gives the folds of the model their meaning: the images of the
database as its successive updates, the concatenation of the writes of a loop, and
sums over records, their updates and their bounds. `DecayTimes`, `FlattenSeq` and
the square root are recursive functions over a bounded range, whose equations
follow from well-founded recursion.

These theorems have one hypothesis about the constant `PoCI`, that a contribution
is a natural number (`ContributionsAreNat`). `CodeContributionsAreNat` discharges
it for the contribution of the code, with any weights, maxima and bond.
`IsqrtIsFloor` says that Newton's iteration of `isqrt` ends at the integer square
root of every number (the run evaluates it up to 300), and `ContributionIsFair`
that a contribution stays within the sum of the weights and never falls when a
miner has more shares, loyalty or bond. Integers are unbounded here; in the code
they are 64 and 128 bits wide.

### Model-checked only

- Liveness (`SessionEnds`, `CatchesUp`, `SelfLinksEnd`, `Rejoins`,
  `SmallExchangeEnds`): it rests on fairness and ENABLED, which TLAPS does not
  treat.
- The two disagreements with the documentation, which are counterexamples. One of
  them is the only run of `MiningSearch`.

## 6. Not modelled

- Cryptography (signatures, Argon2, Merkle trees, canonical encoding): its
  results are taken as right, a check that fails is an input (`Malformed`,
  `Valid`, `Unsigned`).
- RPC server, dashboard, wallet commands: they read the node under its lock, or
  change it by operations that are modelled (`add_transaction_to_mempool`). Coin
  selection of `create_p2pkh` is left out.
- Configuration and the contents of the genesis block: values.
- Rate limits, heartbeats and framing of a connection; backup, restore and export
  of the database directory (file copies).
- Hazards known and not covered: the debit of the bond table, the overwritten
  slash record, the growth of `forks`, half-written messages, and that a silent
  peer whose socket still takes bytes is never stale (`p2p.rs:321`).

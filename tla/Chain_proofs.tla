---------------------------- MODULE Chain_proofs ----------------------------
(***************************************************************************)
(* Proofs about Chain, ChainForks and ChainCrash, for every block tree,    *)
(* every set of peers and every interleaving.                              *)
(*                                                                         *)
(* Part 1, Chain: the types, and that the header vector, its hash index and*)
(* the database stay one and the same chain through appended blocks, fork  *)
(* switches, batches and mined blocks;  that an ancestor search never      *)
(* succeeds;  that a mining job accepted by its guards is up to date.      *)
(* Whatever a step does, it leaves the chain alone, appends a child of the *)
(* tip (Appends) or removes the tip (Removes), and each of the three keeps *)
(* ChainOK.                                                                *)
(*                                                                         *)
(* Part 2, ChainForks: Chain implements ForkChoice.  While a switch is at  *)
(* work the header vector is a prefix of the chain it started from         *)
(* (SwitchOK); while a batch is at work it is that chain, or genesis,      *)
(* followed by blocks of the batch (BatchOK).  The last step of the handler*)
(* then is one of the abstract ones, the others change nothing that a      *)
(* reader of the node can see.                                             *)
(*                                                                         *)
(* Part 3, ChainCrash: what a torn write leaves of this is CrashInv: the   *)
(* index points into the database, and no header is above the height.  A   *)
(* crash while a block is appended leaves the chain as it was, or with that*)
(* block.                                                                  *)
(***************************************************************************)
EXTENDS ChainForks, ChainCrash, SequenceTheorems, FiniteSetTheorems, WellFoundedInduction, TLAPS

----------------------------------------------------------------------------
(* Part 1, Chain: the parts of the inductive invariant *)

StoreMatches ==
    /\ DOMAIN disk.blocks = 0 .. height
    /\ \A h \in 0 .. height : disk.blocks[h] = blocks[h + 1]

ChainOK == ChainTypeOK /\ ChainLinked /\ IndexExact /\ StoreMatches

\* The saved height lags only while blocks are being removed; a rollback
\* still has a block to remove; a fork switch has the block it switches to;
\* a handler works for a peer.
HandlerOK ==
    /\ handler.op # "rollback" => disk.height = height
    /\ disk.height >= height
    /\ handler.op = "rollback" => handler.to < height
    /\ handler.kind \in {"fork", "multi"} => handler.queue # <<>>
    /\ handler.op # "idle" => handler.peer \in Peers

\* As long as the generation is the job's, the chain has not grown; if it is
\* as high as it was, it is the same chain, in the same epoch, with the same
\* outputs.
JobOK ==
    job # NoJob =>
        /\ Parent[job.block] = job.prev_hash
        /\ job.generation <= chain_generation
        /\ job.generation = chain_generation =>
              /\ height + 1 <= job.height
              /\ height + 1 = job.height =>
                    job.epoch = epoch /\ Spends[job.block] \subseteq disk.utxo

Inv == ChainOK /\ P2PTypeOK /\ JobTypeOK /\ HandlerTypeOK /\ HandlerOK /\ JobOK

\* What a step can do to the chain.
Appends(b) ==
    /\ ~Known(b) /\ Parent[b] = Tip
    /\ Connect(b)
    /\ disk'.blocks = Put(disk.blocks, height + 1, b)

Removes ==
    /\ height > 0
    /\ blocks' = Pop(blocks)
    /\ block_hashes' = Drop(block_hashes, disk.blocks[height])
    /\ height' = height - 1
    /\ disk'.blocks = Drop(disk.blocks, height)

----------------------------------------------------------------------------
(* Lemmas about the helpers *)

\* Pop (Vec::pop) of a non-empty vector removes its last element only.
LEMMA PopLast ==
    ASSUME NEW S, NEW s \in Seq(S), s # <<>>
    PROVE  /\ Pop(s) \in Seq(S)
           /\ Len(Pop(s)) = Len(s) - 1
           /\ \A i \in 1 .. Len(s) - 1 : Pop(s)[i] = s[i]
<1> DEFINE n == Len(s) - 1
<1>1. n \in Nat /\ \A i \in 1 .. n : s[i] \in S
    OBVIOUS
<1>2. Pop(s) = SubSeq(s, 1, n)
    BY DEF Pop
<1>3. /\ SubSeq(s, 1, n) \in Seq(S)
      /\ Len(SubSeq(s, 1, n)) = IF 1 <= n THEN n - 1 + 1 ELSE 0
      /\ \A i \in 1 .. n - 1 + 1 : SubSeq(s, 1, n)[i] = s[1 + i - 1]
  <2> HIDE DEF n
  <2> QED
    BY <1>1, SubSeqProperties
<1>4. QED
  <2> HIDE DEF n
  <2>1. Len(s) - 1 = n
    BY DEF n
  <2>2. /\ \A i \in 1 .. n : 1 + i - 1 = i /\ i \in 1 .. n - 1 + 1
        /\ (IF 1 <= n THEN n - 1 + 1 ELSE 0) = n
    BY <1>1
  <2>3. QED
    BY <2>1, <2>2, <1>1, <1>2, <1>3

\* On a chain, the tip (last_hash) is the header at the node's height.
LEMMA TipIsLast ==
    ASSUME ChainOK
    PROVE  /\ Len(blocks) = height + 1 /\ blocks # <<>>
           /\ Tip = blocks[height + 1] /\ Tip = disk.blocks[height]
           /\ Tip \in Blocks
BY DEF ChainOK, ChainTypeOK, ChainLinked, StoreMatches, Tip

----------------------------------------------------------------------------
(* The chain grows by a child of its tip *)

\* accept_block and commit_mining_result keep the chain in one piece.
LEMMA AppendsKeepsChain ==
    ASSUME ChainOK, NEW b \in Blocks, Appends(b)
    PROVE  ChainLinked' /\ IndexExact' /\ StoreMatches'
<1>1. /\ Len(blocks) = height + 1 /\ height \in Nat /\ blocks \in Seq(Blocks)
      /\ Parent[b] = blocks[height + 1]
    BY TipIsLast DEF ChainOK, ChainTypeOK, Appends
<1>2. /\ Len(blocks') = height + 2 /\ height' = height + 1
      /\ blocks'[height + 2] = b
      /\ \A i \in 1 .. height + 1 : blocks'[i] = blocks[i]
    BY <1>1 DEF Appends, Connect
<1>3. ChainLinked'
  <2>1. Len(blocks') = height' + 1 /\ blocks'[1] = Genesis
    BY <1>1, <1>2 DEF ChainLinked, ChainOK
  <2>2. ASSUME NEW i \in 1 .. height'
        PROVE  Parent[blocks'[i + 1]] = blocks'[i]
    <3>1. CASE i = height + 1
        BY <3>1, <1>1, <1>2
    <3>2. CASE i \in 1 .. height
      <4>1. Parent[blocks[i + 1]] = blocks[i]
        BY <3>2 DEF ChainLinked, ChainOK
      <4>2. QED
        BY <4>1, <3>2, <1>1, <1>2
    <3>3. QED
        BY <3>1, <3>2, <1>1, <1>2
  <2>3. QED
    BY <2>1, <2>2 DEF ChainLinked
<1>4. IndexExact'
  <2>1. /\ DOMAIN block_hashes = {blocks[i] : i \in 1 .. height + 1}
        /\ \A i \in 1 .. height + 1 : block_hashes[blocks[i]] = i - 1
    BY <1>1 DEF ChainOK, IndexExact
  <2>2. /\ DOMAIN block_hashes' = DOMAIN block_hashes \cup {b}
        /\ block_hashes'[b] = height + 1
        /\ \A x \in DOMAIN block_hashes : block_hashes'[x] = block_hashes[x]
    BY DEF Put, Appends, Connect, Known
  <2>3. DOMAIN block_hashes' = {blocks'[i] : i \in 1 .. height + 2}
    <3>1. 1 .. height + 2 = (1 .. height + 1) \cup {height + 2}
        BY <1>1
    <3>2. {blocks'[i] : i \in 1 .. height + 2} = {blocks[i] : i \in 1 .. height + 1} \cup {b}
        BY <3>1, <1>2
    <3>3. QED
        BY <2>1, <2>2, <3>2
  <2>4. ASSUME NEW i \in 1 .. height + 2
        PROVE  block_hashes'[blocks'[i]] = i - 1
    <3>1. CASE i = height + 2
        BY <3>1, <1>1, <1>2, <2>2
    <3>2. CASE i \in 1 .. height + 1
        BY <3>2, <1>2, <2>1, <2>2
    <3>3. QED
        BY <3>1, <3>2, <1>1
  <2>5. QED
    BY <1>2, <2>3, <2>4 DEF IndexExact
<1>5. StoreMatches'
  <2>1. DOMAIN disk.blocks = 0 .. height /\ \A h \in 0 .. height : disk.blocks[h] = blocks[h + 1]
    BY DEF ChainOK, StoreMatches
  <2>2. /\ DOMAIN disk'.blocks = DOMAIN disk.blocks \cup {height + 1}
        /\ disk'.blocks[height + 1] = b
        /\ \A x \in DOMAIN disk.blocks : x # height + 1 => disk'.blocks[x] = disk.blocks[x]
    BY DEF Put, Appends
  <2>3. DOMAIN disk'.blocks = 0 .. height + 1
    BY <1>1, <2>1, <2>2
  <2>4. ASSUME NEW h \in 0 .. height + 1
        PROVE  disk'.blocks[h] = blocks'[h + 1]
    <3>1. CASE h = height + 1
        BY <3>1, <1>1, <1>2, <2>2
    <3>2. CASE h \in 0 .. height
        BY <3>2, <1>1, <1>2, <2>1, <2>2
    <3>3. QED
        BY <3>1, <3>2, <1>1
  <2>5. QED
    BY <1>2, <2>3, <2>4 DEF StoreMatches
<1>6. QED
    BY <1>3, <1>4, <1>5

----------------------------------------------------------------------------
(* The chain loses its tip *)

\* One turn of the rollback loop keeps the rest of the chain in one piece.
LEMMA RemovesKeepsChain ==
    ASSUME ChainOK, Removes
    PROVE  ChainLinked' /\ IndexExact' /\ StoreMatches'
<1>1. /\ Len(blocks) = height + 1 /\ height \in Nat \ {0} /\ blocks \in Seq(Blocks)
      /\ blocks # <<>> /\ disk.blocks[height] = blocks[height + 1]
    BY TipIsLast DEF ChainOK, ChainTypeOK, Removes
<1>2. /\ Len(blocks') = height /\ height' = height - 1
      /\ \A i \in 1 .. height : blocks'[i] = blocks[i]
    BY <1>1, PopLast DEF Removes
<1>3. ChainLinked'
    BY <1>1, <1>2 DEF ChainOK, ChainLinked
<1>4. IndexExact'
  <2>0. \A i \in 1 .. height + 1 : block_hashes[blocks[i]] = i - 1
    BY <1>1 DEF ChainOK, IndexExact
  <2>1. DOMAIN block_hashes = {blocks[i] : i \in 1 .. height + 1}
    BY <1>1 DEF ChainOK, IndexExact
  <2>2. /\ DOMAIN block_hashes' = DOMAIN block_hashes \ {blocks[height + 1]}
        /\ \A x \in DOMAIN block_hashes :
                x # blocks[height + 1] => block_hashes'[x] = block_hashes[x]
    BY <1>1 DEF Drop, Restrict, Removes
  <2>3. \A i \in 1 .. height : blocks[i] # blocks[height + 1]
    <3>1. SUFFICES ASSUME NEW i \in 1 .. height, blocks[i] = blocks[height + 1]
                   PROVE  FALSE
        OBVIOUS
    <3>2. i \in 1 .. height + 1 /\ height + 1 \in 1 .. height + 1
        BY <1>1
    <3>3. block_hashes[blocks[i]] = i - 1
        BY <3>2, <2>0
    <3>4. block_hashes[blocks[height + 1]] = height + 1 - 1
        BY <3>2, <2>0, <1>1
    <3>5. QED
        BY <3>1, <3>3, <3>4, <1>1
  <2>4. DOMAIN block_hashes' = {blocks'[i] : i \in 1 .. height}
    <3>1. 1 .. height + 1 = (1 .. height) \cup {height + 1}
        BY <1>1
    <3>2. {blocks[i] : i \in 1 .. height + 1} = {blocks[i] : i \in 1 .. height}
                                                    \cup {blocks[height + 1]}
        BY <3>1
    <3>3. {blocks'[i] : i \in 1 .. height} = {blocks[i] : i \in 1 .. height}
        BY <1>2
    <3>4. QED
        BY <2>1, <2>2, <2>3, <3>2, <3>3
  <2>5. ASSUME NEW i \in 1 .. height
        PROVE  block_hashes'[blocks'[i]] = i - 1
    <3>1. i \in 1 .. height + 1
        BY <1>1
    <3>2. block_hashes[blocks[i]] = i - 1
        BY <3>1, <2>0
    <3>3. blocks[i] \in DOMAIN block_hashes
        BY <3>1, <2>1
    <3>4. QED
        BY <1>2, <2>2, <2>3, <3>2, <3>3
  <2>6. QED
    BY <1>2, <2>4, <2>5 DEF IndexExact
<1>5. StoreMatches'
  <2>1. DOMAIN disk.blocks = 0 .. height /\ \A h \in 0 .. height : disk.blocks[h] = blocks[h + 1]
    BY DEF ChainOK, StoreMatches
  <2>2. /\ DOMAIN disk'.blocks = DOMAIN disk.blocks \ {height}
        /\ \A x \in DOMAIN disk.blocks : x # height => disk'.blocks[x] = disk.blocks[x]
    BY DEF Drop, Restrict, Removes
  <2>3. DOMAIN disk'.blocks = 0 .. height - 1
    BY <1>1, <2>1, <2>2
  <2>4. ASSUME NEW h \in 0 .. height - 1
        PROVE  disk'.blocks[h] = blocks'[h + 1]
    <3>1. h \in 0 .. height /\ h # height /\ h + 1 \in 1 .. height
        BY <1>1
    <3>2. QED
        BY <3>1, <1>2, <2>1, <2>2
  <2>5. QED
    BY <1>2, <2>3, <2>4 DEF StoreMatches
<1>6. QED
    BY <1>3, <1>4, <1>5

----------------------------------------------------------------------------
(* What the actions do to the chain *)

\* accept_block, when it returns Ok, appends a child of the tip.
LEMMA AcceptAppends ==
    ASSUME ChainOK, NEW b \in Blocks, AcceptBlock(b)
    PROVE  /\ ChainOK' /\ Appends(b)
           /\ height' = height + 1 /\ disk'.height = height + 1
           /\ chain_generation' = chain_generation + 1
<1> USE DEF AcceptBlock, Connect
<1>1. /\ disk'.blocks = Put(disk.blocks, height + 1, b)
      /\ disk'.height = height + 1
      /\ DOMAIN disk' = DOMAIN disk
    BY DEF ChainOK, ChainTypeOK, Persisted, SaveHeight, UpdateUtxoSet, DeleteInputs,
           SaveOutputs, SaveBlock
<1>2. Appends(b)
    BY <1>1 DEF Appends, Extends
<1>3. ChainTypeOK'
  <2>1. height' \in Nat /\ epoch' \in Nat /\ chain_generation' \in Nat
    BY DEF ChainOK, ChainTypeOK
  <2>2. blocks' \in Seq(Blocks)
    BY DEF ChainOK, ChainTypeOK
  <2>3. /\ DOMAIN block_hashes' \subseteq Blocks
        /\ \A x \in DOMAIN block_hashes' : block_hashes'[x] \in Nat
    BY <2>1 DEF ChainOK, ChainTypeOK, Put
  <2>4. /\ DOMAIN disk'.blocks \subseteq Nat
        /\ \A h \in DOMAIN disk'.blocks : disk'.blocks[h] \in Blocks
    BY <1>1, <2>1 DEF ChainOK, ChainTypeOK, Put
  <2>5. QED
    BY <1>1, <2>1, <2>2, <2>3, <2>4 DEF ChainOK, ChainTypeOK
<1>4. QED
    BY <1>1, <1>2, <1>3, AppendsKeepsChain DEF ChainOK

\* commit_mining_result, past its guards, appends a child of the tip too.
LEMMA CommitAppends ==
    ASSUME Inv, CommitBlock
    PROVE  /\ ChainOK' /\ Appends(job.block) /\ job.block \in Blocks
           /\ height' = height + 1 /\ disk'.height = height + 1
           /\ job.height = height + 1
<1> DEFINE d == Persisted(disk, job.height, job.block)
<1>1. /\ job # NoJob /\ job.block \in Blocks /\ job.height = height + 1
      /\ Parent[job.block] = Tip /\ ~Known(job.block)
    BY DEF Inv, CommitBlock, JobCurrent, JobOK, JobTypeOK
<1>2. /\ Connect(job.block)
      /\ IF CreatesCheckpoint(job.height)
         THEN /\ disk' = SaveCheckpoint(d, job.height, job.block)
              /\ checkpoints' = IF job.height \in DOMAIN checkpoints THEN checkpoints
                                ELSE Put(checkpoints, job.height, job.block)
         ELSE disk' = d /\ UNCHANGED checkpoints
    BY DEF CommitBlock
<1>3. /\ d.blocks = Put(disk.blocks, height + 1, job.block)
      /\ d.height = height + 1
      /\ DOMAIN d = DOMAIN disk
    BY <1>1 DEF Inv, ChainOK, ChainTypeOK, Persisted, SaveHeight, UpdateUtxoSet,
                DeleteInputs, SaveOutputs, SaveBlock
<1>4. /\ disk'.blocks = Put(disk.blocks, height + 1, job.block)
      /\ disk'.height = height + 1
      /\ DOMAIN disk' = DOMAIN disk
  <2> HIDE DEF d
  <2>1. CASE disk' = d
    BY <2>1, <1>3
  <2>2. CASE disk' = SaveCheckpoint(d, job.height, job.block)
    BY <2>2, <1>3 DEF SaveCheckpoint
  <2>3. QED
    BY <2>1, <2>2, <1>2
<1>5. Appends(job.block)
    BY <1>1, <1>2, <1>4 DEF Appends
<1>6. ChainTypeOK'
  <2>1. height' \in Nat /\ epoch' \in Nat /\ chain_generation' \in Nat
    BY <1>2 DEF Inv, ChainOK, ChainTypeOK, Connect
  <2>2. blocks' \in Seq(Blocks)
    BY <1>1, <1>2 DEF Inv, ChainOK, ChainTypeOK, Connect
  <2>3. /\ DOMAIN block_hashes' \subseteq Blocks
        /\ \A x \in DOMAIN block_hashes' : block_hashes'[x] \in Nat
    BY <1>1, <1>2, <2>1 DEF Inv, ChainOK, ChainTypeOK, Put, Connect
  <2>4. /\ DOMAIN disk'.blocks \subseteq Nat
        /\ \A h \in DOMAIN disk'.blocks : disk'.blocks[h] \in Blocks
    BY <1>1, <1>2, <1>4, <2>1 DEF Inv, ChainOK, ChainTypeOK, Put, Connect
  <2>5. /\ DOMAIN checkpoints' \subseteq Nat
        /\ \A h \in DOMAIN checkpoints' : checkpoints'[h] \in Blocks
    <3>1. job.height \in Nat
        BY <1>1 DEF Inv, ChainOK, ChainTypeOK
    <3>2. CASE checkpoints' = checkpoints
        BY <3>2 DEF Inv, ChainOK, ChainTypeOK
    <3>3. CASE checkpoints' = Put(checkpoints, job.height, job.block)
        BY <3>1, <3>3, <1>1 DEF Inv, ChainOK, ChainTypeOK, Put
    <3>4. QED
        BY <3>2, <3>3, <1>2
  <2>6. QED
    BY <1>4, <2>1, <2>2, <2>3, <2>4, <2>5 DEF Inv, ChainOK, ChainTypeOK
<1>7. QED
    BY <1>1, <1>2, <1>4, <1>5, <1>6, AppendsKeepsChain DEF Inv, ChainOK, Connect

\* A turn of a rollback loop finds the block in the database and removes the
\* tip.
LEMMA RollbackRemoves ==
    ASSUME Inv, RollbackBlock
    PROVE  /\ ChainOK' /\ Removes
           /\ HandlerTypeOK' /\ HandlerOK'
           /\ height' = height - 1
           /\ chain_generation' \in {chain_generation, chain_generation + 1}
<1>1. /\ handler.op = "rollback" /\ handler.to < height /\ handler.to \in Nat
      /\ height \in Nat \ {0}
    BY DEF Inv, ChainOK, ChainTypeOK, HandlerOK, HandlerTypeOK, RollbackBlock
<1>2. height \in DOMAIN disk.blocks
    BY <1>1 DEF Inv, ChainOK, StoreMatches
<1> DEFINE b == disk.blocks[height]
           d == RollbackUtxoSet(DeleteBlock(disk, height), b)
<1>4. /\ blocks' = Pop(blocks) /\ block_hashes' = Drop(block_hashes, b)
      /\ Rewind(d)
    BY DEF RollbackBlock
<1>5. /\ d.blocks = Drop(disk.blocks, height)
      /\ d.height = disk.height /\ DOMAIN d = DOMAIN disk
    BY DEF Inv, ChainOK, ChainTypeOK, RollbackUtxoSet, DeleteBlock
<1>6. /\ disk'.blocks = Drop(disk.blocks, height) /\ DOMAIN disk' = DOMAIN disk
      /\ disk'.height \in {disk.height, height - 1}
  <2> HIDE DEF d
  <2>1. CASE disk' = d
    BY <2>1, <1>5
  <2>2. CASE disk' = SaveHeight(d, height - 1)
    BY <2>2, <1>5 DEF SaveHeight, Inv, ChainOK, ChainTypeOK
  <2>3. QED
    BY <2>1, <2>2, <1>4 DEF Rewind
<1>7. /\ height' = height - 1 /\ UNCHANGED <<epoch, checkpoints>>
      /\ chain_generation' \in {chain_generation, chain_generation + 1}
  <2> HIDE DEF d
  <2> QED
    BY <1>4 DEF Rewind
<1>8. Removes
    BY <1>1, <1>4, <1>6, <1>7 DEF Removes
<1>9. ChainTypeOK'
  <2>1. height' \in Nat /\ chain_generation' \in Nat /\ disk'.height \in Nat
    BY <1>1, <1>6, <1>7 DEF Inv, ChainOK, ChainTypeOK
  <2>2. blocks' \in Seq(Blocks)
    BY <1>4, TipIsLast, PopLast DEF Inv, ChainOK, ChainTypeOK
  <2>3. /\ DOMAIN block_hashes' \subseteq Blocks
        /\ \A x \in DOMAIN block_hashes' : block_hashes'[x] \in Nat
    <3> HIDE DEF b
    <3> QED
        BY <1>4 DEF Inv, ChainOK, ChainTypeOK, Drop, Restrict
  <2>4. /\ DOMAIN disk'.blocks \subseteq Nat
        /\ \A h \in DOMAIN disk'.blocks : disk'.blocks[h] \in Blocks
    BY <1>6 DEF Inv, ChainOK, ChainTypeOK, Drop, Restrict
  <2>5. QED
    BY <1>6, <1>7, <2>1, <2>2, <2>3, <2>4 DEF Inv, ChainOK, ChainTypeOK
<1>10. HandlerTypeOK' /\ HandlerOK'
  <2> HIDE DEF d
  <2>1. CASE height - 1 > handler.to
    BY <2>1, <1>1, <1>4, <1>5 DEF Rewind, Inv, HandlerTypeOK, HandlerOK, ChainOK, ChainTypeOK
  <2>2. CASE ~(height - 1 > handler.to)
    <3>1. handler' = [handler EXCEPT !.op = "apply"] /\ disk' = SaveHeight(d, height - 1)
        BY <2>2, <1>4 DEF Rewind
    <3>2. disk'.height = height - 1
        BY <3>1, <1>5 DEF SaveHeight, Inv, ChainOK, ChainTypeOK
    <3>3. /\ handler'.op = "apply" /\ handler'.kind = handler.kind
          /\ handler'.queue = handler.queue /\ handler'.peer = handler.peer
          /\ HandlerTypeOK'
        BY <3>1 DEF Inv, HandlerTypeOK
    <3>4. QED
        BY <1>7, <3>2, <3>3, <1>1 DEF Inv, HandlerOK
  <2>3. QED
    BY <2>1, <2>2
<1>11. QED
    BY <1>7, <1>8, <1>9, <1>10, RemovesKeepsChain DEF Inv, ChainOK

----------------------------------------------------------------------------
(* The job of the mining thread *)

\* Every appended block takes the generation past the job's.
LEMMA JobOutlived ==
    ASSUME Inv, chain_generation' = chain_generation + 1, UNCHANGED job
    PROVE  JobOK' /\ JobTypeOK'
BY DEF Inv, ChainOK, ChainTypeOK, JobOK, JobTypeOK

\* A rollback that does not bump the generation leaves the chain too low.
LEMMA JobTooHigh ==
    ASSUME Inv, height' = height - 1, UNCHANGED job,
           chain_generation' \in {chain_generation, chain_generation + 1}
    PROVE  JobOK' /\ JobTypeOK'
BY DEF Inv, ChainOK, ChainTypeOK, JobOK, JobTypeOK

\* Nothing that a job depends on has changed.
LEMMA JobKept ==
    ASSUME Inv, UNCHANGED <<chainVars, job>>
    PROVE  JobOK' /\ JobTypeOK'
BY DEF Inv, JobOK, JobTypeOK, chainVars

\* The invariant only reads the variables it names.
LEMMA ChainKept ==
    ASSUME Inv, UNCHANGED chainVars
    PROVE  ChainOK'
BY DEF Inv, ChainOK, ChainTypeOK, ChainLinked, IndexExact, StoreMatches, chainVars

----------------------------------------------------------------------------
(* The invariant is inductive *)

LEMMA InitInv == Init => Inv
<1> SUFFICES ASSUME Init
             PROVE  Inv
    OBVIOUS
<1> USE DEF Init
<1>1. ChainTypeOK /\ P2PTypeOK /\ JobTypeOK
    BY BlocksAssumption DEF ChainTypeOK, P2PTypeOK, JobTypeOK
<1>2. HandlerTypeOK
    BY DEF HandlerTypeOK, Idle
<1>3. ChainLinked /\ IndexExact /\ StoreMatches
    BY BlocksAssumption DEF ChainLinked, IndexExact, StoreMatches
<1>4. HandlerOK /\ JobOK
    BY DEF HandlerOK, JobOK, Idle
<1>5. QED
    BY <1>1, <1>2, <1>3, <1>4 DEF Inv, ChainOK

\* The steps of HandleMessage keep the invariant.
LEMMA HandleMessageInv ==
    ASSUME Inv, HandleMessage
    PROVE  Inv'
<1>1. ASSUME NEW p \in Peers, NEW b \in Blocks, ReceiveBlock(p, b)
      PROVE  Inv'
  <2>1. AcceptBlock(b) /\ SetLocalHeights(height + 1) /\ UNCHANGED <<banned, job, handler>>
        /\ handler = Idle
    BY <1>1 DEF ReceiveBlock, MayStart
  <2>2. /\ ChainOK' /\ height' = height + 1 /\ disk'.height = height + 1
        /\ chain_generation' = chain_generation + 1
    BY <2>1, AcceptAppends DEF Inv
  <2>3. P2PTypeOK' /\ HandlerTypeOK' /\ HandlerOK'
    BY <2>1, <2>2 DEF Inv, ChainOK, ChainTypeOK, P2PTypeOK, HandlerTypeOK, HandlerOK,
                      SetLocalHeights, Idle
  <2>4. QED
    BY <2>1, <2>2, <2>3, JobOutlived DEF Inv
<1>2. ASSUME NEW p \in Peers, NEW b \in Blocks, RejectBlock(p, b)
      PROVE  Inv'
  <2>1. UNCHANGED <<chainVars, local_height, sync_local_height, job, handler>>
        /\ banned' = banned \cup {p}
    BY <1>2 DEF RejectBlock, Ban
  <2>2. P2PTypeOK' /\ HandlerTypeOK' /\ HandlerOK'
    BY <2>1 DEF Inv, P2PTypeOK, HandlerTypeOK, HandlerOK, chainVars
  <2>3. QED
    BY <2>1, <2>2, ChainKept, JobKept DEF Inv
<1>3. ASSUME NEW p \in Peers, NEW b \in Blocks, SwitchFork(p, b)
      PROVE  Inv'
  <2>1. /\ UNCHANGED <<chainVars, p2pVars, job>> /\ handler = Idle
        /\ Known(Parent[b]) /\ ForkHeight(b) < height
        /\ StartRollback(SwitchKind(b), ForkHeight(b), <<b>>, p, blocks)
    BY <1>3 DEF SwitchFork, MayStart, Forks, HeavierThanOurs
  <2>2. ForkHeight(b) \in Nat
    BY <2>1 DEF Inv, ChainOK, ChainTypeOK, Known, ForkHeight
  <2>3. HandlerTypeOK' /\ HandlerOK'
    <3>1. /\ handler' = [op |-> "rollback", kind |-> SwitchKind(b), to |-> ForkHeight(b),
                         queue |-> <<b>>, peer |-> p, was |-> blocks]
          /\ SwitchKind(b) \in {"fork", "multi"}
        BY <2>1, <2>2 DEF StartRollback, SwitchKind, Inv, ChainOK, ChainTypeOK
    <3>2. HandlerTypeOK'
        BY <3>1, <2>2 DEF HandlerTypeOK, Inv, ChainOK, ChainTypeOK
    <3>3. HandlerOK'
        BY <3>1, <2>1 DEF HandlerOK, Inv, chainVars, Idle
    <3>4. QED
        BY <3>2, <3>3
  <2>4. P2PTypeOK'
    BY <2>1 DEF Inv, P2PTypeOK, p2pVars
  <2>5. QED
    BY <2>1, <2>3, <2>4, ChainKept, JobKept DEF Inv
<1>4. ASSUME NEW b \in Blocks, IgnoreBlock(b)
      PROVE  Inv'
  <2>1. UNCHANGED vars
    BY <1>4 DEF IgnoreBlock
  <2>2. P2PTypeOK' /\ HandlerTypeOK' /\ HandlerOK'
    BY <2>1 DEF Inv, P2PTypeOK, HandlerTypeOK, HandlerOK, vars, chainVars, p2pVars
  <2>3. QED
    BY <2>1, <2>2, ChainKept, JobKept DEF Inv, vars
<1>5. ASSUME NEW p \in Peers, NEW q \in Batches, ReceiveBlocks(p, q)
      PROVE  Inv'
  <2>1. /\ UNCHANGED <<chainVars, p2pVars, job>> /\ handler = Idle
        /\ handler' = [Idle EXCEPT !.op = "batch", !.kind = "batch",
                                   !.queue = q, !.peer = p, !.was = blocks]
    BY <1>5 DEF ReceiveBlocks, MayStart
  <2>2. q \in Seq(Blocks)
    BY PeersAssumption
  <2>3. HandlerTypeOK' /\ HandlerOK' /\ P2PTypeOK'
    BY <2>1, <2>2 DEF HandlerTypeOK, HandlerOK, P2PTypeOK, Inv, ChainOK, ChainTypeOK,
                      chainVars, p2pVars, Idle
  <2>4. QED
    BY <2>1, <2>3, ChainKept, JobKept DEF Inv
<1>6. QED
    BY <1>1, <1>2, <1>3, <1>4, <1>5 DEF HandleMessage

\* find_common_ancestor(fork_blocks, self.height) returns None for every batch
\* that does not extend the tip.
LEMMA AncestorNotFound ==
    ASSUME Inv, handler.queue # <<>>, Parent[Head(handler.queue)] # Tip
    PROVE  CommonAncestors(handler.queue, height) = {}
<1> DEFINE q == handler.queue
<1>1. SUFFICES ASSUME NEW i \in 0 .. Len(q) - 1, height + i < Len(blocks),
                      blocks[height + i + 1] = Parent[q[i + 1]]
               PROVE  FALSE
    BY DEF CommonAncestors
<1>2. Len(blocks) = height + 1 /\ height \in Nat /\ Tip = blocks[height + 1]
    BY TipIsLast DEF Inv, ChainOK, ChainTypeOK
<1>3. i = 0
    BY <1>1, <1>2
<1>4. q[1] = Head(q)
    BY DEF Inv, HandlerTypeOK
<1>5. QED
    BY <1>1, <1>2, <1>3, <1>4

\* Taking the next block of a batch, or leaving a handler, keeps its type.
LEMMA HandlerMoves ==
    ASSUME Inv, handler.op # "rollback",
           disk'.height = height', height' \in Nat,
           \/ Advance /\ handler.queue # <<>> /\ handler.kind = "batch"
           \/ handler' = Idle
    PROVE  HandlerTypeOK' /\ HandlerOK'
<1>1. height' = disk'.height /\ height' >= height'
    OBVIOUS
<1>2. CASE Advance /\ handler.queue # <<>> /\ handler.kind = "batch"
  <2>1. Tail(handler.queue) \in Seq(Blocks)
    BY <1>2 DEF Inv, HandlerTypeOK
  <2>2. handler' = [handler EXCEPT !.queue = Tail(handler.queue)]
    BY <1>2 DEF Advance
  <2>3. HandlerTypeOK'
    BY <2>1, <2>2 DEF Inv, HandlerTypeOK
  <2>4. handler'.op = handler.op /\ handler'.kind = "batch" /\ handler'.peer = handler.peer
    BY <2>2, <1>2 DEF Inv, HandlerTypeOK
  <2>5. QED
    BY <1>1, <2>3, <2>4 DEF HandlerOK, Inv
<1>3. CASE handler' = Idle
    BY <1>1, <1>3 DEF HandlerTypeOK, HandlerOK, Idle
<1>4. QED
    BY <1>2, <1>3

\* The steps of HandlerStep keep the invariant.
LEMMA HandlerStepInv ==
    ASSUME Inv, HandlerStep
    PROVE  Inv'
<1> height \in Nat
    BY DEF Inv, ChainOK, ChainTypeOK
<1>1. CASE TakeNext
  <2> DEFINE b == Head(handler.queue)
  <2>1. /\ handler.kind = "batch" /\ handler.queue # <<>> /\ handler.op \in {"batch", "apply"}
        /\ UNCHANGED chainVars \/ AcceptBlock(b)
        /\ Advance /\ UNCHANGED <<p2pVars, job>> /\ b \in Blocks
    BY <1>1 DEF TakeNext, InQueue, Inv, HandlerTypeOK
  <2>2. P2PTypeOK'
    BY <2>1 DEF Inv, P2PTypeOK, p2pVars
  <2>3. CASE UNCHANGED chainVars
    <3>1. disk'.height = height' /\ height' \in Nat
        BY <2>1, <2>3 DEF Inv, HandlerOK, chainVars
    <3>2. HandlerTypeOK' /\ HandlerOK'
        BY <2>1, <3>1, HandlerMoves
    <3>3. QED
        BY <2>1, <2>2, <2>3, <3>2, ChainKept, JobKept DEF Inv
  <2>4. CASE AcceptBlock(b)
    <3>1. /\ ChainOK' /\ height' = height + 1 /\ disk'.height = height + 1
          /\ chain_generation' = chain_generation + 1
        BY <2>1, <2>4, AcceptAppends DEF Inv
    <3>2. HandlerTypeOK' /\ HandlerOK'
        BY <2>1, <3>1, HandlerMoves
    <3>3. QED
        BY <2>1, <2>2, <3>1, <3>2, JobOutlived DEF Inv
  <2>5. QED
    BY <2>1, <2>3, <2>4
<1>2. CASE BatchInvalid \/ BatchStorageError \/ BatchRace \/ BatchDone \/ SwitchFailed
  <2>1. /\ handler.op # "rollback" /\ handler' = Idle
        /\ UNCHANGED <<chainVars, job>>
    BY <1>2 DEF BatchInvalid, BatchStorageError, BatchRace, BatchDone, SwitchFailed,
                InQueue, Fail
  <2>2. P2PTypeOK'
    <3>1. CASE BatchInvalid \/ BatchStorageError
        BY <3>1 DEF BatchInvalid, BatchStorageError, Ban, Fail, InQueue, Inv, P2PTypeOK,
                    HandlerOK
    <3>2. CASE BatchRace \/ BatchDone \/ SwitchFailed
        BY <3>2 DEF BatchRace, BatchDone, SwitchFailed, SetLocalHeights, Fail, Inv, P2PTypeOK
    <3>3. QED
        BY <1>2, <3>1, <3>2
  <2>3. disk'.height = height' /\ height' \in Nat
    BY <2>1 DEF Inv, HandlerOK, chainVars
  <2>4. HandlerTypeOK' /\ HandlerOK'
    BY <2>1, <2>3, HandlerMoves
  <2>5. QED
    BY <2>1, <2>2, <2>4, ChainKept, JobKept DEF Inv
<1>3. ASSUME NEW claimed \in 0 .. Cardinality(Blocks), BatchFork(claimed)
      PROVE  Inv'
  <2> DEFINE q == handler.queue
  <2>1. /\ handler.op = "batch" /\ q # <<>> /\ Parent[Head(q)] # Tip
        /\ UNCHANGED <<chainVars, banned, job>>
    BY <1>3 DEF BatchFork, InQueue
  <2>2. CommonAncestors(q, height) = {}
    BY <2>1, AncestorNotFound
  <2>3. /\ StartRollback("batch", 0, q, handler.peer, handler.was)
        /\ sync_local_height' = 0 /\ UNCHANGED local_height
    BY <1>3, <2>2 DEF BatchFork
  <2>4. P2PTypeOK'
    BY <2>1, <2>3 DEF Inv, P2PTypeOK
  <2>5. HandlerTypeOK' /\ HandlerOK'
    <3>1. handler' = [op |-> IF height > 0 THEN "rollback" ELSE "apply", kind |-> "batch",
                      to |-> 0, queue |-> q, peer |-> handler.peer, was |-> handler.was]
        BY <2>3 DEF StartRollback
    <3>2. HandlerTypeOK'
        BY <3>1 DEF Inv, HandlerTypeOK
    <3>3. HandlerOK'
        BY <2>1, <3>1 DEF Inv, HandlerOK, chainVars
    <3>4. QED
        BY <3>2, <3>3
  <2>6. QED
    BY <2>1, <2>4, <2>5, ChainKept, JobKept DEF Inv
<1>4. CASE RollbackBlock
  <2>1. /\ ChainOK' /\ HandlerTypeOK' /\ HandlerOK'
        /\ height' = height - 1
        /\ chain_generation' \in {chain_generation, chain_generation + 1}
    BY <1>4, RollbackRemoves
  <2>2. UNCHANGED <<p2pVars, job>>
    BY <1>4 DEF RollbackBlock, Rewind
  <2>3. P2PTypeOK'
    BY <2>2 DEF Inv, P2PTypeOK, p2pVars
  <2>4. QED
    BY <2>1, <2>2, <2>3, JobTooHigh DEF Inv
<1>5. CASE SwitchDone
  <2> DEFINE b == Head(handler.queue)
  <2>1. /\ handler.op # "rollback" /\ handler' = Idle /\ b \in Blocks
        /\ AcceptBlock(b) /\ SetLocalHeights(height + 1) /\ UNCHANGED <<banned, job>>
    BY <1>5 DEF SwitchDone, Inv, HandlerOK, HandlerTypeOK
  <2>2. /\ ChainOK' /\ height' = height + 1 /\ disk'.height = height + 1
        /\ chain_generation' = chain_generation + 1
    BY <2>1, AcceptAppends DEF Inv
  <2>3. HandlerTypeOK' /\ HandlerOK'
    BY <2>1, <2>2, HandlerMoves
  <2>4. P2PTypeOK'
    BY <2>1 DEF Inv, P2PTypeOK, SetLocalHeights
  <2>5. QED
    BY <2>1, <2>2, <2>3, <2>4, JobOutlived DEF Inv
<1>6. QED
    BY <1>1, <1>2, <1>3, <1>4, <1>5 DEF HandlerStep

\* The steps of the mining thread keep the invariant.
LEMMA MineInv ==
    ASSUME Inv, Mine
    PROVE  Inv'
<1>1. ASSUME NEW b \in Own, PrepareMiningJob(b)
      PROVE  Inv'
  <2>1. /\ UNCHANGED <<chainVars, p2pVars, handler>>
        /\ Parent[b] = Tip /\ Spends[b] \subseteq disk.utxo
        /\ job' = [block |-> b, prev_hash |-> Tip, height |-> height + 1,
                   epoch |-> epoch, generation |-> chain_generation]
    BY <1>1 DEF PrepareMiningJob
  <2>2. b \in Blocks /\ Tip \in Blocks
    BY BlocksAssumption, TipIsLast DEF Inv
  <2>3. JobTypeOK' /\ JobOK'
    BY <2>1, <2>2 DEF Inv, ChainOK, ChainTypeOK, JobTypeOK, JobOK, chainVars
  <2>4. P2PTypeOK' /\ HandlerTypeOK' /\ HandlerOK'
    BY <2>1 DEF Inv, P2PTypeOK, HandlerTypeOK, HandlerOK, chainVars, p2pVars
  <2>5. QED
    BY <2>1, <2>3, <2>4, ChainKept DEF Inv
<1>2. CASE CommitBlock
  <2>1. /\ handler = Idle /\ job' = NoJob /\ UNCHANGED <<banned, handler>>
        /\ SetLocalHeights(job.height)
    BY <1>2 DEF CommitBlock, MayStart
  <2>2. ChainOK' /\ height' = height + 1 /\ disk'.height = height + 1 /\ job.height = height + 1
    BY <1>2, CommitAppends
  <2>3. P2PTypeOK' /\ HandlerTypeOK' /\ HandlerOK'
    BY <2>1, <2>2 DEF Inv, ChainOK, ChainTypeOK, P2PTypeOK, HandlerTypeOK, HandlerOK,
                      SetLocalHeights, Idle
  <2>4. JobTypeOK' /\ JobOK'
    BY <2>1 DEF JobTypeOK, JobOK
  <2>5. QED
    BY <2>2, <2>3, <2>4 DEF Inv
<1>3. CASE DropJob
  <2>1. job' = NoJob /\ UNCHANGED <<chainVars, p2pVars, handler>>
    BY <1>3 DEF DropJob
  <2>2. P2PTypeOK' /\ HandlerTypeOK' /\ HandlerOK' /\ JobTypeOK' /\ JobOK'
    BY <2>1 DEF Inv, P2PTypeOK, HandlerTypeOK, HandlerOK, JobTypeOK, JobOK, chainVars, p2pVars
  <2>3. QED
    BY <2>1, <2>2, ChainKept DEF Inv
<1>4. QED
    BY <1>1, <1>2, <1>3 DEF Mine

\* Every step keeps the invariant.
LEMMA NextInv == Inv /\ [Next]_vars => Inv'
<1> SUFFICES ASSUME Inv, [Next]_vars
             PROVE  Inv'
    OBVIOUS
<1>1. ASSUME NEW p \in Peers, Disconnect(p)
      PROVE  Inv'
  <2>1. UNCHANGED <<chainVars, local_height, sync_local_height, job, handler>>
        /\ banned' = banned \ {p}
    BY <1>1 DEF Disconnect
  <2>2. P2PTypeOK' /\ HandlerTypeOK' /\ HandlerOK'
    BY <2>1 DEF Inv, P2PTypeOK, HandlerTypeOK, HandlerOK, chainVars
  <2>3. QED
    BY <2>1, <2>2, ChainKept, JobKept DEF Inv
<1>2. CASE UNCHANGED vars
  <2>1. P2PTypeOK' /\ HandlerTypeOK' /\ HandlerOK'
    BY <1>2 DEF Inv, P2PTypeOK, HandlerTypeOK, HandlerOK, vars, chainVars, p2pVars
  <2>2. QED
    BY <1>2, <2>1, ChainKept, JobKept DEF Inv, vars
<1>3. QED
    BY <1>1, <1>2, HandleMessageInv, HandlerStepInv, MineInv DEF Next

THEOREM Invariance == Spec => []Inv
BY InitInv, NextInv, PTL DEF Spec

----------------------------------------------------------------------------
(* The properties that TLC checks, for every value of the constants *)

\* Every variable keeps its type.
THEOREM TypeCorrect == Spec => []TypeOK
<1>1. Inv => TypeOK
    BY DEF Inv, ChainOK, TypeOK
<1>2. QED
    BY <1>1, Invariance, PTL

\* Through every append, switch, batch and rollback the header vector is a
\* chain from genesis whose last index is the height.
THEOREM ChainIsLinked == Spec => []ChainLinked
<1>1. Inv => ChainLinked
    BY DEF Inv, ChainOK
<1>2. QED
    BY <1>1, Invariance, PTL

\* The hash index that decides what is known and where a branch forks holds
\* the current chain exactly.
THEOREM IndexIsExact == Spec => []IndexExact
<1>1. Inv => IndexExact
    BY DEF Inv, ChainOK
<1>2. QED
    BY <1>1, Invariance, PTL

\* The database holds the current chain, and its height but for a rollback in
\* progress.
THEOREM DiskFollows == Spec => []DiskMirrorsChain
<1>1. Inv => DiskMirrorsChain
    BY DEF Inv, ChainOK, HandlerOK, StoreMatches, DiskMirrorsChain
<1>2. QED
    BY <1>1, Invariance, PTL

\* The guards of commit_mining_result admit only jobs built for this state,
\* although a failed fork switch changes the tip under the same generation.
THEOREM JobsAreFresh == Spec => []JobFresh
<1>1. Inv => JobFresh
    BY DEF Inv, JobOK, JobFresh, JobCurrent
<1>2. QED
    BY <1>1, Invariance, PTL

----------------------------------------------------------------------------
(* Part 2, ChainForks: the invariant of a running handler *)

\* handler.was, and what is left of it.
SwitchOK ==
    handler.kind \in {"fork", "multi"} =>
        /\ handler.op \in {"rollback", "apply"}
        /\ handler.to + 1 < Len(handler.was)
        /\ Len(blocks) <= Len(handler.was)
        /\ \A i \in 1 .. Len(blocks) : blocks[i] = handler.was[i]
        /\ handler.op = "apply" => height = handler.to
        /\ \E b \in Blocks : /\ handler.queue = <<b>>
                             /\ Work[b] > Work[handler.was[handler.to + 2]]

\* The message at work holds the rest of the queue and what was appended.
FromBatch(q) ==
    /\ \A i \in DOMAIN handler.queue : handler.queue[i] \in Range(q)
    /\ handler.op = "batch" => Choice!Extended(blocks, handler.was, Range(q))
    /\ handler.op = "apply" => Choice!Extended(blocks, <<Genesis>>, Range(q))

BatchOK ==
    handler.kind = "batch" =>
        /\ handler.op # "idle"
        /\ handler.op # "batch" => handler.to = 0
        /\ \E q \in Batches : FromBatch(q)

ForkInv ==
    /\ handler.kind = "none" => handler = Idle
    /\ SwitchOK
    /\ BatchOK

----------------------------------------------------------------------------
(* Lemmas *)

\* A handler at work is not the idle one, and idle handlers see the chain.
LEMMA SeenAndBusy ==
    ASSUME Inv, ForkInv
    PROVE  /\ handler = Idle => Seen = blocks /\ Busy = "no" /\ handler.kind = "none"
           /\ handler.kind \in {"fork", "multi"} =>
                 handler # Idle /\ Seen = handler.was /\ Busy = "switch"
           /\ handler.kind = "batch" =>
                 handler # Idle /\ Seen = handler.was /\ Busy = "batch"
BY DEF Seen, Busy, Idle

\* The chain that is left when a switch has cut it down to its fork point.
LEMMA CutDown ==
    ASSUME Inv, SwitchOK, handler.kind \in {"fork", "multi"}, handler.op = "apply"
    PROVE  /\ blocks = SubSeq(handler.was, 1, handler.to + 1)
           /\ handler.to + 1 \in 1 .. Len(handler.was) - 1
<1> DEFINE w == handler.was
           n == handler.to + 1
<1>1. /\ w \in Seq(Blocks) /\ n \in Nat /\ 1 <= n /\ n < Len(w)
      /\ blocks \in Seq(Blocks) /\ Len(blocks) = n
      /\ \A i \in 1 .. n : blocks[i] = w[i]
    BY TipIsLast DEF SwitchOK, Inv, ChainOK, ChainTypeOK, HandlerTypeOK
<1> HIDE DEF w, n
<1>2. /\ SubSeq(w, 1, n) \in Seq(Blocks)
      /\ Len(SubSeq(w, 1, n)) = IF 1 <= n THEN n - 1 + 1 ELSE 0
      /\ \A i \in 1 .. n - 1 + 1 : SubSeq(w, 1, n)[i] = w[1 + i - 1]
  <2>1. \A i \in 1 .. n : w[i] \in Blocks
    BY <1>1
  <2>2. QED
    BY <1>1, <2>1, SubSeqProperties
<1>3. Len(SubSeq(w, 1, n)) = n /\ \A i \in 1 .. n : SubSeq(w, 1, n)[i] = w[i]
    BY <1>1, <1>2
<1>4. blocks = SubSeq(w, 1, n)
    BY <1>1, <1>2, <1>3, SeqEqual
<1>5. QED
    BY <1>1, <1>4 DEF w, n

\* A chain stays of the form "base, then blocks of S" when a block of S is
\* appended.
LEMMA ExtendedGrows ==
    ASSUME NEW s \in Seq(Blocks), NEW base \in Seq(Blocks), NEW S,
           NEW b \in S, Choice!Extended(s, base, S)
    PROVE  Choice!Extended(Append(s, b), base, S)
<1>1. /\ Len(Append(s, b)) = Len(s) + 1 /\ Len(s) \in Nat /\ Len(base) \in Nat
      /\ DOMAIN Append(s, b) = 1 .. Len(s) + 1 /\ DOMAIN s = 1 .. Len(s)
      /\ Append(s, b)[Len(s) + 1] = b
      /\ \A i \in 1 .. Len(s) : Append(s, b)[i] = s[i]
    OBVIOUS
<1>2. QED
    BY <1>1 DEF Choice!Extended

\* A handler that gives the lock back leaves no obligation.
LEMMA IdleOK ==
    ASSUME handler' = Idle
    PROVE  ForkInv'
BY DEF ForkInv, SwitchOK, BatchOK, Idle

\* Nothing happens to the chain or to its handler.
LEMMA Untouched ==
    ASSUME ForkInv, UNCHANGED <<blocks, height, handler>>
    PROVE  ForkInv' /\ UNCHANGED Choice!vars
<1>1. ForkInv'
    BY DEF ForkInv, SwitchOK, BatchOK, FromBatch, Choice!Extended
<1>2. UNCHANGED <<Seen, Busy>>
    BY DEF Seen, Busy
<1>3. QED
    BY <1>1, <1>2 DEF Choice!vars

\* A handler that works on shows nothing of it.
LEMMA NothingSeen ==
    ASSUME handler # Idle, handler' # Idle,
           handler'.kind = handler.kind, handler'.was = handler.was
    PROVE  UNCHANGED Choice!vars
<1>1. UNCHANGED <<Seen, Busy>>
    BY DEF Seen, Busy
<1>2. QED
    BY <1>1 DEF Choice!vars

\* Outside a handler, a child of the tip is an abstract Grow.
LEMMA AppendsGrows ==
    ASSUME Inv, handler = Idle, handler' = Idle, NEW b \in Blocks, Appends(b)
    PROVE  Choice!Grow
<1>1. Seen = blocks /\ Busy = "no" /\ Seen' = blocks' /\ Busy' = "no"
    BY DEF Seen, Busy
<1>2. Parent[b] = blocks[Len(blocks)] /\ blocks' = Append(blocks, b)
    BY TipIsLast DEF Appends, Connect, Inv
<1>3. QED
    BY <1>1, <1>2 DEF Choice!Grow

----------------------------------------------------------------------------
(* The steps of a switch *)

\* A switch takes the lock.
LEMMA SwitchBegins ==
    ASSUME Inv, NEW p \in Peers, NEW b \in Blocks, SwitchFork(p, b)
    PROVE  ForkInv' /\ Choice!Begin
<1>1. /\ handler = Idle /\ Known(Parent[b]) /\ ForkHeight(b) < height
      /\ Work[b] > Work[disk.blocks[ForkHeight(b) + 1]]
      /\ StartRollback(SwitchKind(b), ForkHeight(b), <<b>>, p, blocks)
      /\ UNCHANGED <<chainVars, p2pVars, job>>
    BY DEF SwitchFork, MayStart, Forks, HeavierThanOurs
<1>2. ForkHeight(b) \in Nat /\ height \in Nat /\ Len(blocks) = height + 1
    BY <1>1, TipIsLast DEF Inv, ChainOK, ChainTypeOK, Known, ForkHeight
<1>3. disk.blocks[ForkHeight(b) + 1] = blocks[ForkHeight(b) + 2]
  <2>1. ForkHeight(b) + 1 \in 0 .. height
    BY <1>1, <1>2
  <2>2. disk.blocks[ForkHeight(b) + 1] = blocks[ForkHeight(b) + 1 + 1]
    BY <2>1 DEF Inv, ChainOK, StoreMatches
  <2>3. QED
    BY <1>2, <2>2
<1>4. /\ handler' = [op |-> "rollback", kind |-> SwitchKind(b), to |-> ForkHeight(b),
                     queue |-> <<b>>, peer |-> p, was |-> blocks]
      /\ SwitchKind(b) \in {"fork", "multi"}
    BY <1>1, <1>2 DEF StartRollback, SwitchKind
<1>5. blocks' = blocks /\ height' = height
    BY <1>1 DEF chainVars
<1>6. ForkInv'
  <2>1. SwitchOK'
    BY <1>1, <1>2, <1>3, <1>4, <1>5 DEF SwitchOK
  <2>2. QED
    BY <1>4, <2>1 DEF ForkInv, BatchOK
<1>7. Choice!Begin
  <2>1. Seen = blocks /\ Busy = "no"
    BY <1>1 DEF Seen, Busy
  <2>2. handler' # Idle /\ handler'.was = blocks /\ handler'.kind # "batch"
    BY <1>4 DEF Idle
  <2>3. Seen' = blocks /\ Busy' = "switch"
    BY <2>2 DEF Seen, Busy
  <2>4. QED
    BY <2>1, <2>3 DEF Choice!Begin
<1>8. QED
    BY <1>6, <1>7

\* The block of the heavier branch is accepted.
LEMMA SwitchEnds ==
    ASSUME Inv, ForkInv, SwitchDone
    PROVE  ForkInv' /\ Choice!EndSwitch
<1> DEFINE h == handler.to + 1
           w == handler.was
<1>1. /\ handler.op = "apply" /\ handler.kind \in {"fork", "multi"}
      /\ AcceptBlock(Head(handler.queue)) /\ handler' = Idle
    BY DEF SwitchDone
<1>2. PICK b \in Blocks : handler.queue = <<b>> /\ Work[b] > Work[w[handler.to + 2]]
    BY <1>1 DEF ForkInv, SwitchOK
<1>3. AcceptBlock(b)
    BY <1>1, <1>2
<1>4. blocks = SubSeq(w, 1, h) /\ h \in 1 .. Len(w) - 1
    BY <1>1, CutDown DEF ForkInv
<1>5. Parent[b] = Tip /\ blocks' = Append(blocks, b)
    BY <1>3, AcceptAppends DEF Appends, Connect, Inv
<1>6. Tip = w[h]
  <2>1. Tip = blocks[Len(blocks)] /\ Len(blocks) = h /\ Len(blocks) \in Nat
    BY <1>1, TipIsLast DEF Inv, ChainOK, ChainTypeOK, ForkInv, SwitchOK
  <2>2. Len(blocks) \in 1 .. Len(blocks)
    BY <2>1, <1>4
  <2>3. blocks[Len(blocks)] = w[Len(blocks)]
    BY <1>1, <2>2 DEF ForkInv, SwitchOK
  <2>4. QED
    BY <2>1, <2>3
<1>7. w[handler.to + 2] = w[h + 1]
    BY DEF Inv, HandlerTypeOK
<1>8. Seen = w /\ Busy = "switch" /\ Seen' = blocks' /\ Busy' = "no"
  <2>1. Seen = w /\ Busy = "switch"
    BY <1>1, SeenAndBusy
  <2>2. QED
    BY <1>1, <2>1 DEF Seen, Busy
<1>9. Choice!EndSwitch
  <2> HIDE DEF w, h
  <2>1. /\ Parent[b] = w[h] /\ Work[b] > Work[w[h + 1]]
        /\ blocks' = Append(SubSeq(w, 1, h), b)
    BY <1>2, <1>4, <1>5, <1>6, <1>7
  <2>2. QED
    BY <1>4, <1>8, <2>1 DEF Choice!EndSwitch
<1>10. QED
    BY <1>1, <1>9, IdleOK

\* The block is refused, or cannot be stored, after our own were removed.
LEMMA SwitchFails ==
    ASSUME Inv, ForkInv, SwitchFailed
    PROVE  ForkInv' /\ Choice!EndSwitch
<1> DEFINE h == handler.to + 1
           w == handler.was
<1>1. /\ handler.op = "apply" /\ handler.kind \in {"fork", "multi"}
      /\ handler' = Idle /\ blocks' = blocks
    BY DEF SwitchFailed, Fail, chainVars
<1>2. blocks = SubSeq(w, 1, h) /\ h \in 1 .. Len(w) - 1
    BY <1>1, CutDown DEF ForkInv
<1>3. Seen = w /\ Busy = "switch" /\ Seen' = blocks' /\ Busy' = "no"
  <2>1. Seen = w /\ Busy = "switch"
    BY <1>1, SeenAndBusy
  <2>2. QED
    BY <1>1, <2>1 DEF Seen, Busy
<1>4. Choice!EndSwitch
  <2> HIDE DEF w, h
  <2> QED
    BY <1>1, <1>2, <1>3 DEF Choice!EndSwitch
<1>5. QED
    BY <1>1, <1>4, IdleOK

----------------------------------------------------------------------------
(* The steps of a batch *)

\* A batch takes the lock.
LEMMA BatchBegins ==
    ASSUME Inv, NEW p \in Peers, NEW q \in Batches, ReceiveBlocks(p, q)
    PROVE  ForkInv' /\ Choice!Begin
<1>1. /\ handler = Idle /\ blocks' = blocks
      /\ handler' = [Idle EXCEPT !.op = "batch", !.kind = "batch",
                                 !.queue = q, !.peer = p, !.was = blocks]
    BY DEF ReceiveBlocks, MayStart, chainVars
<1>2. /\ handler' # Idle /\ handler'.op = "batch" /\ handler'.kind = "batch"
      /\ handler'.queue = q /\ handler'.was = blocks
    BY <1>1 DEF Idle
<1>3. BatchOK'
  <2>1. Choice!Extended(blocks, blocks, Range(q))
    BY DEF Choice!Extended, Inv, ChainOK, ChainTypeOK
  <2>2. \A i \in DOMAIN q : q[i] \in Range(q)
    BY DEF Range
  <2>3. FromBatch(q)'
    BY <1>1, <1>2, <2>1, <2>2 DEF FromBatch, Choice!Extended
  <2>4. QED
    BY <1>2, <2>3 DEF BatchOK
<1>4. Choice!Begin
  <2>1. Seen = blocks /\ Busy = "no" /\ Seen' = blocks /\ Busy' = "batch"
    BY <1>1, <1>2 DEF Seen, Busy
  <2>2. QED
    BY <2>1 DEF Choice!Begin
<1>5. QED
    BY <1>2, <1>3, <1>4 DEF ForkInv, SwitchOK

\* The next block is known, or accepted.
LEMMA BatchTakes ==
    ASSUME Inv, ForkInv, TakeNext
    PROVE  ForkInv' /\ UNCHANGED Choice!vars
<1> DEFINE b == Head(handler.queue)
<1>1. /\ handler.kind = "batch" /\ handler.op \in {"batch", "apply"}
      /\ handler.queue # <<>> /\ handler.queue \in Seq(Blocks)
      /\ UNCHANGED chainVars \/ AcceptBlock(b)
      /\ handler' = [handler EXCEPT !.queue = Tail(handler.queue)]
    BY DEF TakeNext, InQueue, Advance, Inv, HandlerTypeOK
<1>2. PICK q \in Batches : FromBatch(q)
    BY <1>1 DEF ForkInv, BatchOK
<1>3. /\ b \in Blocks /\ b \in Range(q)
      /\ \A i \in DOMAIN Tail(handler.queue) : Tail(handler.queue)[i] \in Range(q)
    BY <1>1, <1>2 DEF FromBatch
<1>4. /\ handler'.op = handler.op /\ handler'.kind = "batch" /\ handler'.to = handler.to
      /\ handler'.was = handler.was /\ handler'.queue = Tail(handler.queue)
    BY <1>1 DEF Inv, HandlerTypeOK
<1>5. blocks' = blocks \/ blocks' = Append(blocks, b)
    BY <1>1 DEF chainVars, AcceptBlock, Connect
<1>6. ASSUME NEW base \in Seq(Blocks), Choice!Extended(blocks, base, Range(q))
      PROVE  Choice!Extended(blocks', base, Range(q))
  <2>1. CASE blocks' = blocks
    BY <1>6, <2>1 DEF Choice!Extended
  <2>2. CASE blocks' = Append(blocks, b)
    <3>1. Choice!Extended(Append(blocks, b), base, Range(q))
        BY <1>3, <1>6, ExtendedGrows DEF Inv, ChainOK, ChainTypeOK
    <3>2. QED
        BY <2>2, <3>1 DEF Choice!Extended
  <2>3. QED
    BY <1>5, <2>1, <2>2
<1>7. handler.was \in Seq(Blocks) /\ <<Genesis>> \in Seq(Blocks)
    BY BlocksAssumption DEF Inv, HandlerTypeOK
<1>8. FromBatch(q)'
  <2>1. handler.op = "batch" => Choice!Extended(blocks', handler.was, Range(q))
    BY <1>2, <1>6, <1>7 DEF FromBatch
  <2>2. handler.op = "apply" => Choice!Extended(blocks', <<Genesis>>, Range(q))
    BY <1>2, <1>6, <1>7 DEF FromBatch
  <2>3. QED
    BY <1>3, <1>4, <2>1, <2>2 DEF FromBatch, Choice!Extended
<1>9. ForkInv'
    BY <1>1, <1>4, <1>8 DEF ForkInv, SwitchOK, BatchOK
<1>10. handler # Idle /\ handler' # Idle
    BY <1>1, <1>4 DEF Idle
<1>11. QED
    BY <1>1, <1>4, <1>9, <1>10, NothingSeen

\* The batch does not extend the tip: back to genesis, since no ancestor is
\* found.
LEMMA BatchForks ==
    ASSUME Inv, ForkInv, NEW claimed \in 0 .. Cardinality(Blocks), BatchFork(claimed)
    PROVE  ForkInv' /\ UNCHANGED Choice!vars
<1> DEFINE q == handler.queue
<1>1. /\ handler.op = "batch" /\ handler.kind = "batch" /\ q # <<>>
      /\ Parent[Head(q)] # Tip /\ blocks' = blocks /\ height' = height
    BY DEF BatchFork, InQueue, chainVars, Inv, ForkInv, SwitchOK, Idle, HandlerTypeOK
<1>2. CommonAncestors(q, height) = {}
    BY <1>1, AncestorNotFound
<1>3. StartRollback("batch", 0, q, handler.peer, handler.was)
    BY <1>2 DEF BatchFork
<1>4. handler' = [op |-> IF height > 0 THEN "rollback" ELSE "apply", kind |-> "batch",
                  to |-> 0, queue |-> q, peer |-> handler.peer, was |-> handler.was]
    BY <1>3 DEF StartRollback
<1>5. handler # Idle /\ handler' # Idle
    BY <1>1, <1>4 DEF Idle
<1>6. BatchOK'
  <2>1. PICK m \in Batches : FromBatch(m)
    BY <1>1 DEF ForkInv, BatchOK
  <2>2. height = 0 => Choice!Extended(blocks, <<Genesis>>, Range(m))
    BY TipIsLast DEF Choice!Extended, Inv, ChainOK, ChainTypeOK, ChainLinked
  <2>3. FromBatch(m)'
    BY <1>1, <1>4, <2>1, <2>2 DEF FromBatch, Choice!Extended, Inv, ChainOK, ChainTypeOK
  <2>4. QED
    BY <1>4, <2>3 DEF BatchOK
<1>7. QED
    BY <1>1, <1>4, <1>5, <1>6, NothingSeen DEF ForkInv, SwitchOK

\* However a batch ends, the chain is linked and holds blocks of the message.
LEMMA BatchEnds ==
    ASSUME Inv, ForkInv, BatchInvalid \/ BatchStorageError \/ BatchRace \/ BatchDone
    PROVE  ForkInv' /\ Choice!EndBatch
<1>1. /\ handler.kind = "batch" /\ handler.op \in {"batch", "apply"}
      /\ handler' = Idle /\ blocks' = blocks
    BY DEF BatchInvalid, BatchStorageError, BatchRace, BatchDone, InQueue, Fail, chainVars
<1>2. PICK q \in Batches : FromBatch(q)
    BY <1>1 DEF ForkInv, BatchOK
<1>3. Seen = handler.was /\ Busy = "batch" /\ Seen' = blocks /\ Busy' = "no"
  <2>1. Seen = handler.was /\ Busy = "batch"
    BY <1>1, SeenAndBusy
  <2>2. QED
    BY <1>1, <2>1 DEF Seen, Busy
<1>4. Choice!Linked(blocks)
  <2>1. Len(blocks) = height + 1 /\ height \in Nat
    BY TipIsLast DEF Inv, ChainOK, ChainTypeOK
  <2>2. \A i \in 2 .. height + 1 : Parent[blocks[i - 1 + 1]] = blocks[i - 1]
    BY <2>1 DEF Inv, ChainOK, ChainLinked
  <2>3. QED
    BY <2>1, <2>2 DEF Choice!Linked
<1>5. \E base \in {handler.was, <<Genesis>>} : Choice!Extended(blocks, base, Range(q))
    BY <1>1, <1>2 DEF FromBatch
<1>6. Choice!EndBatch
  <2>1. Choice!Range(q) = Range(q)
    BY DEF Choice!Range, Range
  <2>2. PICK base \in {handler.was, <<Genesis>>} : Choice!Extended(blocks, base, Range(q))
    BY <1>5
  <2>3. Choice!Linked(Seen') /\ Choice!Extended(Seen', base, Choice!Range(q))
    BY <1>3, <1>4, <2>1, <2>2 DEF Choice!Linked, Choice!Extended
  <2>4. base \in {Seen, <<Genesis>>}
    BY <1>3
  <2>5. QED
    BY <1>3, <2>3, <2>4 DEF Choice!EndBatch
<1>7. QED
    BY <1>1, <1>6, IdleOK

----------------------------------------------------------------------------
(* The rollback of either *)

LEMMA RollbackHidden ==
    ASSUME Inv, ForkInv, RollbackBlock
    PROVE  ForkInv' /\ UNCHANGED Choice!vars
<1>1. /\ handler.op = "rollback" /\ handler.to < height
      /\ handler.to \in Nat /\ height \in Nat \ {0}
    BY DEF RollbackBlock, Inv, HandlerOK, HandlerTypeOK, ChainOK, ChainTypeOK
<1>2. ChainOK' /\ height' = height - 1 /\ blocks' = Pop(blocks)
  <2>1. ChainOK' /\ Removes
    BY RollbackRemoves
  <2>2. QED
    BY <2>1 DEF Removes
<1>3. /\ Len(blocks') = height /\ Len(blocks) = height + 1
      /\ \A i \in 1 .. height : blocks'[i] = blocks[i]
      /\ blocks' \in Seq(Blocks)
  <2>1. /\ blocks \in Seq(Blocks) /\ blocks # <<>>
        /\ Len(blocks) = height + 1 /\ Len(blocks) - 1 = height
    BY <1>1, TipIsLast DEF Inv, ChainOK, ChainTypeOK
  <2>2. /\ Pop(blocks) \in Seq(Blocks) /\ Len(Pop(blocks)) = Len(blocks) - 1
        /\ \A i \in 1 .. Len(blocks) - 1 : Pop(blocks)[i] = blocks[i]
    BY <2>1, PopLast
  <2>3. QED
    BY <1>2, <2>1, <2>2
<1>4. /\ handler'.kind = handler.kind /\ handler'.to = handler.to
      /\ handler'.was = handler.was /\ handler'.queue = handler.queue
      /\ handler'.op = IF height - 1 > handler.to THEN "rollback" ELSE "apply"
  <2>1. IF height - 1 > handler.to THEN handler' = handler
        ELSE handler' = [handler EXCEPT !.op = "apply"]
    BY DEF RollbackBlock, Rewind
  <2>2. QED
    BY <1>1, <2>1 DEF Inv, HandlerTypeOK
<1>5. handler # Idle /\ handler' # Idle
    BY <1>1, <1>4 DEF Idle
<1>6. SwitchOK'
    BY <1>1, <1>2, <1>3, <1>4 DEF ForkInv, SwitchOK
<1>7. BatchOK'
  <2>1. SUFFICES ASSUME handler.kind = "batch"
                 PROVE  BatchOK'
    BY <1>4 DEF BatchOK
  <2>2. PICK q \in Batches : FromBatch(q)
    BY <2>1 DEF ForkInv, BatchOK
  <2>3. handler.to = 0
    BY <1>1, <2>1 DEF ForkInv, BatchOK
  <2>4. handler'.op = "apply" => Choice!Extended(blocks', <<Genesis>>, Range(q))
    <3>1. SUFFICES ASSUME height = 1
                   PROVE  Choice!Extended(blocks', <<Genesis>>, Range(q))
        BY <1>1, <1>4, <2>3
    <3>2. blocks'[1] = Genesis /\ Len(blocks') = 1
        BY <3>1, <1>2, <1>3 DEF ChainOK, ChainLinked
    <3>3. QED
        BY <3>2, <1>3 DEF Choice!Extended
  <2>5. FromBatch(q)'
    BY <1>4, <2>2, <2>4 DEF FromBatch, Choice!Extended
  <2>6. QED
    BY <1>4, <2>3, <2>5 DEF BatchOK
<1>8. handler'.kind # "none"
    BY <1>1, <1>4 DEF ForkInv, Idle
<1>9. QED
    BY <1>4, <1>5, <1>6, <1>7, <1>8, NothingSeen DEF ForkInv

----------------------------------------------------------------------------
(* The refinement *)

\* A new node starts as the abstract one does.
LEMMA InitChoice == Init => ForkInv /\ Choice!Init
<1> SUFFICES ASSUME Init
             PROVE  ForkInv /\ Choice!Init
    OBVIOUS
<1>1. handler = Idle /\ blocks = <<Genesis>>
    BY DEF Init
<1>2. Seen = blocks /\ Busy = "no"
    BY <1>1 DEF Seen, Busy
<1>3. ForkInv
    BY <1>1 DEF ForkInv, SwitchOK, BatchOK, Idle
<1>4. QED
    BY <1>1, <1>2, <1>3 DEF Choice!Init

\* Every step of the node is a step of ForkChoice, or one that it does not
\* see.
LEMMA NextChoice ==
    Inv /\ ForkInv /\ [Next]_vars => ForkInv' /\ [Choice!Next]_(Choice!vars)
<1> SUFFICES ASSUME Inv, ForkInv, [Next]_vars
             PROVE  ForkInv' /\ (Choice!Next \/ UNCHANGED Choice!vars)
    OBVIOUS
<1>1. ASSUME NEW p \in Peers, NEW b \in Blocks, ReceiveBlock(p, b)
      PROVE  ForkInv' /\ Choice!Grow
  <2>1. handler = Idle /\ handler' = Idle /\ AcceptBlock(b)
    BY <1>1 DEF ReceiveBlock, MayStart
  <2>2. Appends(b)
    BY <2>1, AcceptAppends DEF Inv
  <2>3. QED
    BY <2>1, <2>2, AppendsGrows, IdleOK
<1>2. CASE CommitBlock
  <2>1. handler = Idle /\ handler' = Idle
    BY <1>2 DEF CommitBlock, MayStart
  <2>2. Appends(job.block) /\ job.block \in Blocks
    BY <1>2, CommitAppends
  <2>3. Choice!Grow
    BY <2>1, <2>2, AppendsGrows
  <2>4. QED
    BY <2>1, <2>3, IdleOK DEF Choice!Next
<1>3. ASSUME \/ \E p \in Peers, b \in Blocks : RejectBlock(p, b)
             \/ \E b \in Blocks : IgnoreBlock(b)
             \/ \E b \in Own : PrepareMiningJob(b)
             \/ DropJob
             \/ \E p \in Peers : Disconnect(p)
             \/ UNCHANGED vars
      PROVE  ForkInv' /\ UNCHANGED Choice!vars
  <2>1. UNCHANGED <<blocks, height, handler>>
    BY <1>3 DEF RejectBlock, IgnoreBlock, PrepareMiningJob, DropJob, Disconnect, vars, chainVars
  <2>2. QED
    BY <2>1, Untouched
<1>4. CASE HandleMessage
    BY <1>1, <1>3, <1>4, SwitchBegins, BatchBegins DEF HandleMessage, Choice!Next
<1>5. CASE HandlerStep
    BY <1>5, BatchTakes, BatchForks, BatchEnds, RollbackHidden, SwitchEnds, SwitchFails
       DEF HandlerStep, Choice!Next
<1>6. CASE Mine
    BY <1>2, <1>3, <1>6 DEF Mine
<1>7. QED
    BY <1>3, <1>4, <1>5, <1>6 DEF Next

\* Whatever a switch or a batch goes through between taking and releasing the
\* lock (removed blocks, refused blocks, failed writes), what is seen of the
\* chain afterwards is what ForkChoice allows.
THEOREM Refinement == Spec => ChoosesForks
<1>1. Spec => []Inv
    BY Invariance
<1>2. QED
    BY <1>1, InitChoice, NextChoice, PTL DEF Spec, ChoosesForks, Choice!Spec

----------------------------------------------------------------------------
(* Part 3, ChainCrash: the invariant of a node that may have been torn *)

DiskTypeOK(d) ==
    /\ DOMAIN d = {"blocks", "height", "utxo", "checkpoints"}
    /\ DOMAIN d.blocks \subseteq Nat
    /\ \A h \in DOMAIN d.blocks : d.blocks[h] \in Blocks
    /\ d.height \in Nat

\* After a torn write the header vector may lack headers, but it never has one
\* above the height, so an ancestor search still finds nothing.
TornOK ==
    /\ DiskTypeOK(disk)
    /\ height \in Nat
    /\ blocks \in Seq(Blocks) /\ Len(blocks) <= height + 1
    /\ job # NoJob => job.block \in Blocks

TornHandlerOK ==
    /\ HandlerTypeOK
    /\ handler.op = "rollback" => handler.to < height
    /\ handler.kind \in {"fork", "multi"} => handler.queue # <<>>

IndexBelow ==
    /\ DOMAIN block_hashes \subseteq Blocks
    /\ \A b \in DOMAIN block_hashes : block_hashes[b] \in 0 .. height
    /\ IndexOnDisk

CrashInv == TornOK /\ TornHandlerOK /\ IndexBelow

----------------------------------------------------------------------------
(* The heights that load_state finds *)

LEMMA LeastNumber ==
    ASSUME NEW S \in SUBSET Nat, S # {}
    PROVE  \E m \in S : \A k \in S : m <= k
<1> DEFINE R == OpToRel(<, Nat)
<1>1. IsWellFoundedOn(R, Nat)
    BY NatLessThanWellFounded
<1>2. \A k, m \in Nat : k < m => <<k, m>> \in R
    BY DEF OpToRel
<1> HIDE DEF R
<1>3. PICK m \in S : \A k \in S : ~(<<k, m>> \in R)
    BY <1>1, WFMin
<1>4. ASSUME NEW k \in S PROVE m <= k
  <2>1. k \in Nat /\ m \in Nat
    OBVIOUS
  <2>2. ~(k < m)
    BY <1>2, <1>3, <2>1
  <2>3. QED
    BY <2>1, <2>2
<1>5. QED
    BY <1>4

\* A set of heights below a bound has an i-th element, for every i up to its
\* size.
LEMMA IthHeight ==
    ASSUME NEW n \in Nat, NEW P \in SUBSET (0 .. n), NEW i \in 1 .. Cardinality(P)
    PROVE  \E h \in P : Cardinality({k \in P : k < h}) = i - 1
<1> DEFINE Below(m) == {k \in P : k < m}
           B == {m \in Nat : Cardinality(Below(m)) >= i}
<1>1. IsFiniteSet(P)
  <2>1. IsFiniteSet(0 .. n)
    BY FS_Interval
  <2>2. QED
    BY <2>1, FS_Subset
<1>2. \A m \in Nat : IsFiniteSet(Below(m)) /\ Cardinality(Below(m)) \in Nat
  <2> TAKE m \in Nat
  <2>1. Below(m) \subseteq P
    OBVIOUS
  <2>2. IsFiniteSet(Below(m))
    BY <1>1, <2>1, FS_Subset
  <2>3. QED
    BY <2>2, FS_CardinalityType
<1>3. Cardinality(P) \in Nat /\ i \in Nat \ {0} /\ i <= Cardinality(P)
    BY <1>1, FS_CardinalityType
<1>a. \A k \in P : k \in Nat /\ k <= n
    OBVIOUS
<1>4. n + 1 \in B
  <2>0. \A k \in P : k < n + 1
    BY <1>a
  <2>1. Below(n + 1) = P
    BY <2>0
  <2>2. QED
    BY <1>3, <2>1
<1>5. PICK m \in B : \A k \in B : m <= k
    BY <1>4, LeastNumber
<1>6. m \in Nat /\ Cardinality(Below(m)) >= i
    OBVIOUS
<1>7. m # 0
  <2>1. SUFFICES ASSUME m = 0 PROVE FALSE
    OBVIOUS
  <2>0. \A k \in P : ~(k < 0)
    BY <1>a
  <2>2. Below(m) = {}
    BY <2>0, <2>1
  <2>3. Cardinality(Below(m)) = 0
    BY <2>2, FS_EmptySet
  <2>4. QED
    BY <1>3, <1>6, <2>3
<1> DEFINE h == m - 1
<1>8. h \in Nat /\ h + 1 = m
    BY <1>6, <1>7
<1>9. Cardinality(Below(h)) < i
  <2>1. h \notin B
    BY <1>5, <1>8
  <2>2. Cardinality(Below(h)) \in Nat
    BY <1>2, <1>8
  <2>3. QED
    BY <1>3, <1>8, <2>1, <2>2
<1>10. h \in P
  <2>1. SUFFICES ASSUME h \notin P PROVE FALSE
    OBVIOUS
  <2>2. \A k \in P : k < m <=> k < h
    BY <1>a, <1>6, <1>8, <2>1
  <2>3. Below(m) = Below(h)
    BY <2>2
  <2>4. QED
    BY <1>2, <1>3, <1>6, <1>8, <1>9, <2>3
<1>11. Cardinality(Below(m)) = Cardinality(Below(h)) + 1
  <2>0. \A k \in P : k < m <=> k < h \/ k = h
    BY <1>a, <1>6, <1>8
  <2>1. Below(m) = Below(h) \cup {h}
    BY <2>0, <1>10
  <2>2. h \notin Below(h)
    BY <1>8
  <2>3. QED
    BY <1>2, <1>8, <2>1, <2>2, FS_AddElement
<1>12. Cardinality(Below(h)) = i - 1
  <2>1. Cardinality(Below(h)) \in Nat /\ Cardinality(Below(m)) \in Nat
    BY <1>2, <1>6, <1>8
  <2> HIDE DEF h, Below
  <2>2. QED
    BY <1>3, <1>6, <1>9, <1>11, <2>1
<1>13. QED
    BY <1>10, <1>12

\* load_state reads a block at each of the heights it lists.
LEMMA HeightsLoaded ==
    ASSUME NEW d, DiskTypeOK(d)
    PROVE  /\ Len(LoadedHeights(d)) \in 0 .. d.height + 1
           /\ DOMAIN LoadedHeights(d) = 1 .. Len(LoadedHeights(d))
           /\ \A i \in 1 .. Len(LoadedHeights(d)) :
                 LoadedHeights(d)[i] \in 0 .. d.height /\ LoadedHeights(d)[i] \in DOMAIN d.blocks
<1> DEFINE P == Present(d)
           n == Cardinality(P)
<1>1. d.height \in Nat /\ P \in SUBSET (0 .. d.height)
    BY DEF DiskTypeOK, Present
<1>2. n \in 0 .. d.height + 1
  <2>1. 0 \in Int /\ d.height \in Int
    BY <1>1
  <2>2. IsFiniteSet(0 .. d.height) /\ Cardinality(0 .. d.height) = d.height + 1
    BY <1>1, <2>1, FS_Interval
  <2>3. Cardinality(P) <= Cardinality(0 .. d.height) /\ IsFiniteSet(P)
    BY <1>1, <2>2, FS_Subset
  <2>4. Cardinality(P) \in Nat
    BY <2>3, FS_CardinalityType
  <2>5. QED
    BY <1>1, <2>2, <2>3, <2>4
<1>3. LoadedHeights(d) =
        [i \in 1 .. n |-> CHOOSE h \in P : Cardinality({k \in P : k < h}) = i - 1]
    BY DEF LoadedHeights
<1>4. \A i \in 1 .. n : LoadedHeights(d)[i] \in P
  <2> TAKE i \in 1 .. n
  <2>1. \E h \in P : Cardinality({k \in P : k < h}) = i - 1
    BY <1>1, IthHeight
  <2>2. QED
    BY <1>3, <2>1
<1> HIDE DEF n
<1>5. Len(LoadedHeights(d)) = n /\ DOMAIN LoadedHeights(d) = 1 .. n
    BY <1>2, <1>3
<1>6. QED
    BY <1>1, <1>2, <1>4, <1>5 DEF Present

\* When nothing is missing, they are all the heights.
LEMMA AllHeightsLoaded ==
    ASSUME NEW d, d.height \in Nat, 0 .. d.height \subseteq DOMAIN d.blocks
    PROVE  LoadedHeights(d) = [i \in 1 .. d.height + 1 |-> i - 1]
<1> DEFINE n == d.height
           Below(h) == {k \in 0 .. n : k < h}
<1>1. Present(d) = 0 .. n
    BY DEF Present
<1>2. \A h \in 0 .. n + 1 : Cardinality(Below(h)) = h
  <2> TAKE h \in 0 .. n + 1
  <2>1. Below(h) = 0 .. h - 1
    OBVIOUS
  <2>2. 0 \in Int /\ h - 1 \in Int
    OBVIOUS
  <2>3. Cardinality(0 .. h - 1) = IF 0 > h - 1 THEN 0 ELSE (h - 1) - 0 + 1
    BY <2>2, FS_Interval
  <2>4. h = 0 \/ ~(0 > h - 1)
    OBVIOUS
  <2>5. (h - 1) - 0 + 1 = h /\ (h = 0 => 0 > h - 1)
    OBVIOUS
  <2> HIDE DEF Below
  <2>6. QED
    BY <2>1, <2>3, <2>4, <2>5
<1>3. Cardinality(0 .. n) = n + 1
  <2>1. 0 \in Int /\ n \in Int /\ ~(0 > n)
    OBVIOUS
  <2>2. QED
    BY <2>1, FS_Interval
<1>4. LoadedHeights(d) =
        [i \in 1 .. n + 1 |-> CHOOSE h \in 0 .. n : Cardinality(Below(h)) = i - 1]
    BY <1>1, <1>3 DEF LoadedHeights
<1>5. ASSUME NEW i \in 1 .. n + 1
      PROVE  (CHOOSE h \in 0 .. n : Cardinality(Below(h)) = i - 1) = i - 1
  <2>1. i - 1 \in 0 .. n /\ Cardinality(Below(i - 1)) = i - 1
    BY <1>2
  <2>2. \A h \in 0 .. n : Cardinality(Below(h)) = h
    BY <1>2
  <2> HIDE DEF Below
  <2>3. QED
    BY <2>1, <2>2
<1>6. QED
    BY <1>4, <1>5

\* A non-empty set of heights below a bound has a last one.
LEMMA LastHeight ==
    ASSUME NEW n \in Nat, NEW H \in SUBSET (0 .. n), H # {}
    PROVE  \E m \in H : \A k \in H : k <= m
<1> DEFINE S == {k \in Nat : k <= n /\ n - k \in H}
<1>1. \A k \in H : k \in Nat /\ k <= n /\ n - k \in Nat /\ n - (n - k) = k
    OBVIOUS
<1>2. S # {}
  <2>1. PICK k \in H : TRUE
    OBVIOUS
  <2>2. n - k \in S
    BY <1>1, <2>1
  <2>3. QED
    BY <2>2
<1>3. PICK s \in S : \A k \in S : s <= k
    BY <1>2, LeastNumber
<1>4. ASSUME NEW k \in H PROVE k <= n - s
  <2>1. n - k \in S
    BY <1>1
  <2>2. s \in Nat /\ s <= n - k
    BY <1>3, <2>1
  <2>3. QED
    BY <1>1, <2>2
<1>5. QED
    BY <1>4

----------------------------------------------------------------------------
(* The databases that a crash leaves *)

\* Each call of src/src/storage.rs leaves a database of the right type.
LEMMA WritesTyped ==
    ASSUME NEW d, DiskTypeOK(d), NEW h \in Nat, NEW b \in Blocks
    PROVE  /\ DiskTypeOK(SaveBlock(d, h, b)) /\ DiskTypeOK(DeleteBlock(d, h))
           /\ DiskTypeOK(SaveOutputs(d, b)) /\ DiskTypeOK(DeleteInputs(d, b))
           /\ DiskTypeOK(RollbackUtxoSet(d, b)) /\ DiskTypeOK(SaveHeight(d, h))
           /\ DiskTypeOK(SaveCheckpoint(d, h, b))
<1>1. DiskTypeOK(SaveBlock(d, h, b))
    BY DEF DiskTypeOK, SaveBlock, Put
<1>2. DiskTypeOK(DeleteBlock(d, h))
    BY DEF DiskTypeOK, DeleteBlock, Drop, Restrict
<1>3. DiskTypeOK(SaveOutputs(d, b)) /\ DiskTypeOK(DeleteInputs(d, b))
    BY DEF DiskTypeOK, SaveOutputs, DeleteInputs
<1>4. DiskTypeOK(RollbackUtxoSet(d, b)) /\ DiskTypeOK(SaveHeight(d, h))
    BY DEF DiskTypeOK, RollbackUtxoSet, SaveHeight
<1>5. DiskTypeOK(SaveCheckpoint(d, h, b))
    BY DEF DiskTypeOK, SaveCheckpoint
<1>6. QED
    BY <1>1, <1>2, <1>3, <1>4, <1>5

LEMMA PersistedTyped ==
    ASSUME NEW d, DiskTypeOK(d), NEW h \in Nat, NEW b \in Blocks
    PROVE  /\ DiskTypeOK(Persisted(d, h, b)) /\ Persisted(d, h, b).height = h
           /\ Persisted(d, h, b).blocks = Put(d.blocks, h, b)
           /\ Persisted(d, h, b).utxo = (d.utxo \cup Creates[b]) \ Spends[b]
<1>1. DiskTypeOK(SaveBlock(d, h, b))
    BY WritesTyped
<1>2. DiskTypeOK(SaveOutputs(SaveBlock(d, h, b), b))
    BY <1>1, WritesTyped
<1>3. DiskTypeOK(UpdateUtxoSet(SaveBlock(d, h, b), b))
    BY <1>2, WritesTyped DEF UpdateUtxoSet
<1>4. DiskTypeOK(Persisted(d, h, b))
    BY <1>3, WritesTyped DEF Persisted
<1>5. QED
    BY <1>4 DEF DiskTypeOK, Persisted, SaveHeight, UpdateUtxoSet, DeleteInputs, SaveOutputs,
                SaveBlock

\* What is left of an append: the block at the next height, the saved height
\* as it was.
LEMMA AppendImage ==
    ASSUME CrashInv, NEW b \in Blocks, NEW d \in AppendImages(b)
    PROVE  /\ DiskTypeOK(d) /\ d.height = disk.height
           /\ d.blocks = Put(disk.blocks, height + 1, b)
<1> DEFINE saved == SaveBlock(disk, height + 1, b)
<1>1. DiskTypeOK(disk) /\ height + 1 \in Nat
    BY DEF CrashInv, TornOK
<1>2. DiskTypeOK(saved) /\ saved.height = disk.height
      /\ saved.blocks = Put(disk.blocks, height + 1, b)
    BY <1>1, WritesTyped DEF DiskTypeOK, SaveBlock
<1>3. d \in {saved, SaveOutputs(saved, b), UpdateUtxoSet(saved, b)}
    BY DEF AppendImages
<1> HIDE DEF saved
<1>4. DiskTypeOK(SaveOutputs(saved, b)) /\ SaveOutputs(saved, b).height = saved.height
      /\ SaveOutputs(saved, b).blocks = saved.blocks
    BY <1>1, <1>2, WritesTyped DEF DiskTypeOK, SaveOutputs
<1>5. DiskTypeOK(UpdateUtxoSet(saved, b)) /\ UpdateUtxoSet(saved, b).height = saved.height
      /\ UpdateUtxoSet(saved, b).blocks = saved.blocks
    BY <1>1, <1>4, WritesTyped DEF DiskTypeOK, DeleteInputs, UpdateUtxoSet
<1>6. QED
    BY <1>2, <1>3, <1>4, <1>5

LEMMA JobImage ==
    ASSUME CrashInv, NEW d \in UncheckpointedImages
    PROVE  /\ job.block \in Blocks /\ DiskTypeOK(d) /\ d.height = height + 1
           /\ d.blocks = Put(disk.blocks, height + 1, job.block)
           /\ d.utxo \cap Spends[job.block] = {}
<1>1. /\ job # NoJob /\ job.height = height + 1
      /\ d = Persisted(disk, job.height, job.block)
    BY DEF UncheckpointedImages, JobCurrent
<1>2. job.block \in Blocks /\ DiskTypeOK(disk) /\ height + 1 \in Nat
    BY <1>1 DEF CrashInv, TornOK
<1>3. QED
    BY <1>1, <1>2, PersistedTyped

LEMMA ImagesTyped ==
    ASSUME CrashInv, NEW d \in CrashImages
    PROVE  DiskTypeOK(d)
<1>1. CASE d = disk
    BY <1>1 DEF CrashInv, TornOK
<1>2. ASSUME NEW b \in Blocks, d \in AppendImages(b)
      PROVE  DiskTypeOK(d)
    BY <1>2, AppendImage
<1>3. CASE d \in UncheckpointedImages
    BY <1>3, JobImage
<1>4. CASE d \in RollbackImages
  <2> DEFINE b == disk.blocks[height]
             deleted == DeleteBlock(disk, height)
  <2>1. /\ height \in DOMAIN disk.blocks
        /\ d \in {deleted, RollbackUtxoSet(deleted, b)}
    BY <1>4 DEF RollbackImages
  <2>2. DiskTypeOK(disk) /\ b \in Blocks /\ height \in Nat
    BY <2>1 DEF CrashInv, TornOK, DiskTypeOK
  <2>3. DiskTypeOK(deleted)
    BY <2>2, WritesTyped
  <2>4. DiskTypeOK(RollbackUtxoSet(deleted, b))
    BY <2>2, <2>3, WritesTyped
  <2>5. QED
    BY <2>1, <2>3, <2>4
<1>5. QED
    BY <1>1, <1>2, <1>3, <1>4 DEF CrashImages

----------------------------------------------------------------------------
(* Node::new on any database *)

\* The index that load_state builds points into the database.
LEMMA LoadStateIndexes ==
    ASSUME NEW d, DiskTypeOK(d), LoadState(d), height' = d.height
    PROVE  /\ blocks' \in Seq(Blocks) /\ Len(blocks') <= height' + 1
           /\ IndexBelow'
<1> DEFINE hs == LoadedHeights(d)
           n == Len(hs)
<1>1. /\ n \in 0 .. d.height + 1 /\ DOMAIN hs = 1 .. n
      /\ \A i \in 1 .. n : hs[i] \in 0 .. d.height /\ hs[i] \in DOMAIN d.blocks
    BY HeightsLoaded
<1>2. d.height \in Nat /\ \A h \in DOMAIN d.blocks : d.blocks[h] \in Blocks
    BY DEF DiskTypeOK
<1>3. /\ blocks' = [i \in 1 .. n |-> d.blocks[hs[i]]]
      /\ block_hashes' =
            [b \in {d.blocks[hs[i]] : i \in DOMAIN hs} |->
                CHOOSE h \in 0 .. d.height :
                    /\ h \in DOMAIN d.blocks /\ d.blocks[h] = b
                    /\ \A k \in h + 1 .. d.height :
                            k \in DOMAIN d.blocks => d.blocks[k] # b]
      /\ disk' = d
    BY DEF LoadState
<1> HIDE DEF n, hs
<1>4. n \in Nat /\ \A i \in 1 .. n : d.blocks[hs[i]] \in Blocks
    BY <1>1, <1>2
<1>5. blocks' \in Seq(Blocks) /\ Len(blocks') = n
    BY <1>3, <1>4
<1>6. \A b \in DOMAIN block_hashes' : \E i \in 1 .. n : b = d.blocks[hs[i]]
    BY <1>1, <1>3
<1>7. ASSUME NEW b \in DOMAIN block_hashes'
      PROVE  /\ b \in Blocks /\ block_hashes'[b] \in 0 .. d.height
             /\ block_hashes'[b] \in DOMAIN d.blocks /\ d.blocks[block_hashes'[b]] = b
  <2> DEFINE H == {h \in 0 .. d.height : h \in DOMAIN d.blocks /\ d.blocks[h] = b}
  <2>1. PICK i \in 1 .. n : b = d.blocks[hs[i]]
    BY <1>6
  <2>2. hs[i] \in H
    BY <1>1, <2>1
  <2>3. H \in SUBSET (0 .. d.height) /\ H # {}
    BY <2>2
  <2>4. PICK m \in H : \A k \in H : k <= m
    BY <1>2, <2>3, LastHeight
  <2>5. \A k \in m + 1 .. d.height : k \in DOMAIN d.blocks => d.blocks[k] # b
    <3>1. \A k \in m + 1 .. d.height : k \in 0 .. d.height /\ ~(k <= m)
        BY <1>2
    <3>2. \A k \in m + 1 .. d.height : k \notin H
        BY <2>4, <3>1
    <3>3. QED
        BY <3>1, <3>2
  <2>6. \E h \in 0 .. d.height :
                    /\ h \in DOMAIN d.blocks /\ d.blocks[h] = b
                    /\ \A k \in h + 1 .. d.height :
                            k \in DOMAIN d.blocks => d.blocks[k] # b
    BY <2>4, <2>5
  <2>7. block_hashes'[b] = CHOOSE h \in 0 .. d.height :
                    /\ h \in DOMAIN d.blocks /\ d.blocks[h] = b
                    /\ \A k \in h + 1 .. d.height :
                            k \in DOMAIN d.blocks => d.blocks[k] # b
    BY <1>3
  <2>8. QED
    BY <1>4, <2>1, <2>6, <2>7
<1>8. IndexBelow'
    BY <1>3, <1>7 DEF IndexBelow, IndexOnDisk
<1>9. QED
    BY <1>1, <1>2, <1>5, <1>8

\* Whatever a crash left, the node that comes up satisfies the invariant.
LEMMA CrashKeeps ==
    ASSUME CrashInv, Crash
    PROVE  CrashInv'
<1>1. PICK d \in CrashImages : Restart(d)
    BY DEF Crash
<1>2. DiskTypeOK(d) /\ d.height \in Nat
    BY ImagesTyped DEF DiskTypeOK
<1>3. height' = d.height /\ job' = NoJob /\ handler' = Idle
    BY <1>1 DEF Restart
<1>4. TornHandlerOK'
    BY <1>3 DEF TornHandlerOK, HandlerTypeOK, Idle
<1>5. CASE d.height = 0
  <2>1. /\ blocks' = <<Genesis>>
        /\ block_hashes' = [b \in {Genesis} |-> 0]
        /\ disk' = SaveBlock(SaveOutputs(d, Genesis), 0, Genesis)
    BY <1>1, <1>5 DEF Restart, InitGenesis
  <2>2. DiskTypeOK(SaveOutputs(d, Genesis)) /\ Genesis \in Blocks
    BY <1>2, WritesTyped, BlocksAssumption
  <2>3. DiskTypeOK(disk')
    BY <2>1, <2>2, WritesTyped
  <2>4. 0 \in DOMAIN disk'.blocks /\ disk'.blocks[0] = Genesis
    BY <2>1, <2>2 DEF SaveBlock, Put, DiskTypeOK
  <2>5. TornOK'
    BY <1>3, <1>5, <2>1, <2>2, <2>3 DEF TornOK
  <2>6. IndexBelow'
    BY <1>3, <1>5, <2>1, <2>2, <2>4 DEF IndexBelow, IndexOnDisk
  <2>7. QED
    BY <1>4, <2>5, <2>6 DEF CrashInv
<1>6. CASE d.height # 0
  <2>1. LoadState(d)
    BY <1>1, <1>6 DEF Restart
  <2>2. disk' = d
    BY <2>1 DEF LoadState
  <2>3. /\ blocks' \in Seq(Blocks) /\ Len(blocks') <= height' + 1
        /\ IndexBelow'
    BY <1>2, <1>3, <2>1, LoadStateIndexes
  <2>4. TornOK'
    BY <1>2, <1>3, <2>2, <2>3 DEF TornOK
  <2>5. QED
    BY <1>4, <2>3, <2>4 DEF CrashInv
<1>7. QED
    BY <1>5, <1>6

----------------------------------------------------------------------------
(* The steps of Chain on a node that may have been torn *)

\* A block is pushed, indexed and saved at the height after ours.
LEMMA TornAppends ==
    ASSUME CrashInv, NEW b \in Blocks, Connect(b), DiskTypeOK(disk'),
           disk'.blocks = Put(disk.blocks, height + 1, b),
           job' = NoJob \/ job' = job
    PROVE  TornOK' /\ IndexBelow' /\ height' = height + 1
<1>1. /\ height \in Nat /\ blocks \in Seq(Blocks) /\ Len(blocks) <= height + 1
      /\ job # NoJob => job.block \in Blocks
    BY DEF CrashInv, TornOK
<1>2. /\ blocks' = Append(blocks, b) /\ height' = height + 1
      /\ block_hashes' = Put(block_hashes, b, height + 1)
    BY DEF Connect
<1>3. blocks' \in Seq(Blocks) /\ Len(blocks') <= height' + 1 /\ height' \in Nat
    BY <1>1, <1>2
<1>4. TornOK'
    BY <1>1, <1>3 DEF TornOK
<1>5. ASSUME NEW x \in DOMAIN block_hashes'
      PROVE  /\ x \in Blocks /\ block_hashes'[x] \in 0 .. height'
             /\ block_hashes'[x] \in DOMAIN disk'.blocks
             /\ disk'.blocks[block_hashes'[x]] = x
  <2>1. CASE x = b
    BY <1>1, <1>2, <2>1 DEF Put
  <2>2. CASE x # b
    <3>1. x \in DOMAIN block_hashes /\ block_hashes'[x] = block_hashes[x]
        BY <1>2, <2>2 DEF Put
    <3>2. /\ x \in Blocks /\ block_hashes[x] \in 0 .. height
          /\ block_hashes[x] \in DOMAIN disk.blocks /\ disk.blocks[block_hashes[x]] = x
        BY <3>1 DEF CrashInv, IndexBelow, IndexOnDisk
    <3>3. block_hashes[x] # height + 1 /\ block_hashes[x] \in 0 .. height + 1
        BY <1>1, <3>2
    <3>4. QED
        BY <1>2, <3>1, <3>2, <3>3 DEF Put
  <2>3. QED
    BY <2>1, <2>2
<1>6. IndexBelow'
    BY <1>5 DEF IndexBelow, IndexOnDisk
<1>7. QED
    BY <1>2, <1>4, <1>6

\* accept_block on such a node.
LEMMA TornAccepts ==
    ASSUME CrashInv, NEW b \in Blocks, AcceptBlock(b), job' = job
    PROVE  TornOK' /\ IndexBelow' /\ height' = height + 1
<1>1. Connect(b) /\ disk' = Persisted(disk, height + 1, b)
    BY DEF AcceptBlock
<1>2. DiskTypeOK(disk) /\ height + 1 \in Nat
    BY DEF CrashInv, TornOK
<1>3. DiskTypeOK(disk') /\ disk'.blocks = Put(disk.blocks, height + 1, b)
    BY <1>1, <1>2, PersistedTyped
<1>4. QED
    BY <1>1, <1>3, TornAppends

\* A step that leaves the chain alone.
LEMMA TornKept ==
    ASSUME CrashInv, UNCHANGED chainVars, job' = NoJob \/ job' = job \/ job'.block \in Blocks
    PROVE  TornOK' /\ IndexBelow' /\ height' = height
BY DEF CrashInv, TornOK, IndexBelow, IndexOnDisk, DiskTypeOK, chainVars

\* The handler record after a step that is no rollback.
LEMMA TornHandlerMoves ==
    ASSUME CrashInv,
           \/ handler' = Idle
           \/ UNCHANGED <<handler, height>>
           \/ Advance /\ handler.queue # <<>> /\ handler.kind = "batch" /\ handler.op # "rollback"
    PROVE  TornHandlerOK'
<1>1. CASE handler' = Idle
    BY <1>1 DEF TornHandlerOK, HandlerTypeOK, Idle
<1>2. CASE UNCHANGED <<handler, height>>
    BY <1>2 DEF CrashInv, TornHandlerOK, HandlerTypeOK
<1>3. CASE Advance /\ handler.queue # <<>> /\ handler.kind = "batch" /\ handler.op # "rollback"
  <2>1. Tail(handler.queue) \in Seq(Blocks)
    BY <1>3 DEF CrashInv, TornHandlerOK, HandlerTypeOK
  <2>2. handler' = [handler EXCEPT !.queue = Tail(handler.queue)]
    BY <1>3 DEF Advance
  <2>3. HandlerTypeOK'
    BY <2>1, <2>2 DEF CrashInv, TornHandlerOK, HandlerTypeOK
  <2>4. handler'.op = handler.op /\ handler'.kind = "batch"
    BY <2>2, <1>3 DEF CrashInv, TornHandlerOK, HandlerTypeOK
  <2>5. QED
    BY <1>3, <2>3, <2>4 DEF TornHandlerOK
<1>4. QED
    BY <1>1, <1>2, <1>3

\* One turn of the rollback loop, whether the block is found or not.
LEMMA TornRollback ==
    ASSUME CrashInv, RollbackBlock \/ RollbackMissing
    PROVE  CrashInv'
<1> DEFINE h == height
<1>1. /\ handler.op = "rollback" /\ HandlerTypeOK /\ handler.to \in Nat /\ handler.to < height
      /\ height \in Nat \ {0} /\ DiskTypeOK(disk)
      /\ blocks \in Seq(Blocks) /\ Len(blocks) <= height + 1
    BY DEF CrashInv, TornOK, TornHandlerOK, HandlerTypeOK, RollbackBlock, RollbackMissing
<1>2. PICK d : /\ Rewind(d) /\ DiskTypeOK(d)
               /\ DOMAIN d.blocks = DOMAIN disk.blocks \ {height}
               /\ \A i \in DOMAIN d.blocks : d.blocks[i] = disk.blocks[i]
               /\ \A x \in DOMAIN block_hashes' :
                     /\ x \in DOMAIN block_hashes /\ block_hashes'[x] = block_hashes[x]
                     /\ block_hashes[x] # height
  <2>1. CASE RollbackBlock
    <3> DEFINE b == disk.blocks[height]
               deleted == DeleteBlock(disk, height)
               d == RollbackUtxoSet(deleted, b)
    <3>1. /\ height \in DOMAIN disk.blocks /\ Rewind(d)
          /\ block_hashes' = Drop(block_hashes, b)
        BY <2>1 DEF RollbackBlock
    <3>2. b \in Blocks
        BY <1>1, <3>1 DEF DiskTypeOK
    <3>3. DiskTypeOK(deleted)
        BY <1>1, WritesTyped, <3>2
    <3>4. DiskTypeOK(d)
        BY <1>1, <3>2, <3>3, WritesTyped
    <3>5. d.blocks = Drop(disk.blocks, height)
        BY <1>1 DEF DiskTypeOK, RollbackUtxoSet, DeleteBlock
    <3>6. ASSUME NEW x \in DOMAIN block_hashes'
          PROVE  /\ x \in DOMAIN block_hashes /\ block_hashes'[x] = block_hashes[x]
                 /\ block_hashes[x] # height
      <4>1. x \in DOMAIN block_hashes /\ x # b /\ block_hashes'[x] = block_hashes[x]
        BY <3>1 DEF Drop, Restrict
      <4>2. disk.blocks[block_hashes[x]] = x
        BY <4>1 DEF CrashInv, IndexBelow, IndexOnDisk
      <4>3. QED
        BY <4>1, <4>2
    <3>7. /\ DOMAIN d.blocks = DOMAIN disk.blocks \ {height}
          /\ \A i \in DOMAIN d.blocks : d.blocks[i] = disk.blocks[i]
        BY <3>5 DEF Drop, Restrict
    <3> HIDE DEF d
    <3>8. QED
        BY <3>1, <3>4, <3>6, <3>7
  <2>2. CASE RollbackMissing
    <3>1. /\ height \notin DOMAIN disk.blocks /\ Rewind(disk)
          /\ block_hashes' = Drop(block_hashes, Tip)
        BY <2>2 DEF RollbackMissing
    <3>2. ASSUME NEW x \in DOMAIN block_hashes'
          PROVE  /\ x \in DOMAIN block_hashes /\ block_hashes'[x] = block_hashes[x]
                 /\ block_hashes[x] # height
      <4>1. x \in DOMAIN block_hashes /\ block_hashes'[x] = block_hashes[x]
        BY <3>1 DEF Drop, Restrict
      <4>2. block_hashes[x] \in DOMAIN disk.blocks
        BY <4>1 DEF CrashInv, IndexBelow, IndexOnDisk
      <4>3. QED
        BY <3>1, <4>1, <4>2
    <3>3. DOMAIN disk.blocks = DOMAIN disk.blocks \ {height}
        BY <3>1
    <3>4. QED
        BY <1>1, <3>1, <3>2, <3>3
  <2>3. QED
    BY <2>1, <2>2
<1>3. /\ height' = height - 1 /\ job' = job
      /\ disk' = d \/ disk' = SaveHeight(d, height - 1)
      /\ \/ height - 1 > handler.to /\ UNCHANGED handler
         \/ handler' = [handler EXCEPT !.op = "apply"]
    BY <1>2 DEF Rewind
<1>4. DiskTypeOK(disk') /\ disk'.blocks = d.blocks
  <2>1. height - 1 \in Nat
    BY <1>1
  <2>2. PICK b \in Blocks : TRUE
    BY BlocksAssumption
  <2>3. DiskTypeOK(SaveHeight(d, height - 1)) /\ SaveHeight(d, height - 1).blocks = d.blocks
    BY <1>2, <2>1, <2>2, WritesTyped DEF DiskTypeOK, SaveHeight
  <2>4. QED
    BY <1>2, <1>3, <2>3
<1>5. TornOK'
  <2>1. blocks' = Pop(blocks)
    BY DEF RollbackBlock, RollbackMissing
  <2>2. blocks' \in Seq(Blocks) /\ Len(blocks') <= height
    <3>1. CASE blocks = <<>>
        BY <1>1, <2>1, <3>1 DEF Pop
    <3>2. CASE blocks # <<>>
        BY <1>1, <2>1, <3>2, PopLast
    <3>3. QED
        BY <3>1, <3>2
  <2>3. QED
    BY <1>1, <1>3, <1>4, <2>2 DEF CrashInv, TornOK
<1>6. TornHandlerOK'
  <2>1. HandlerTypeOK'
    BY <1>1, <1>3 DEF HandlerTypeOK
  <2>2. /\ handler'.to = handler.to /\ handler'.kind = handler.kind
        /\ handler'.queue = handler.queue
        /\ handler'.op = "rollback" => height - 1 > handler.to
    BY <1>1, <1>3 DEF HandlerTypeOK
  <2>3. QED
    BY <1>1, <1>3, <2>1, <2>2 DEF CrashInv, TornHandlerOK
<1>7. IndexBelow'
  <2>1. ASSUME NEW x \in DOMAIN block_hashes'
        PROVE  /\ x \in Blocks /\ block_hashes'[x] \in 0 .. height'
               /\ block_hashes'[x] \in DOMAIN disk'.blocks
               /\ disk'.blocks[block_hashes'[x]] = x
    <3>1. /\ x \in DOMAIN block_hashes /\ block_hashes'[x] = block_hashes[x]
          /\ block_hashes[x] # height
        BY <1>2
    <3>2. /\ x \in Blocks /\ block_hashes[x] \in 0 .. height
          /\ block_hashes[x] \in DOMAIN disk.blocks /\ disk.blocks[block_hashes[x]] = x
        BY <3>1 DEF CrashInv, IndexBelow, IndexOnDisk
    <3>3. block_hashes[x] \in 0 .. height - 1
        BY <1>1, <3>1, <3>2
    <3>4. QED
        BY <1>2, <1>3, <1>4, <3>1, <3>2, <3>3
  <2>2. QED
    BY <2>1 DEF IndexBelow, IndexOnDisk
<1>8. QED
    BY <1>5, <1>6, <1>7 DEF CrashInv

\* The messages.
LEMMA TornMessages ==
    ASSUME CrashInv, HandleMessage
    PROVE  CrashInv'
<1>1. ASSUME NEW p \in Peers, NEW b \in Blocks, ReceiveBlock(p, b)
      PROVE  CrashInv'
  <2>1. AcceptBlock(b) /\ UNCHANGED <<banned, job, handler>> /\ handler = Idle
    BY <1>1 DEF ReceiveBlock, MayStart
  <2>2. TornOK' /\ IndexBelow'
    BY <2>1, TornAccepts
  <2>3. TornHandlerOK'
    BY <2>1, TornHandlerMoves
  <2>4. QED
    BY <2>2, <2>3 DEF CrashInv
<1>2. ASSUME NEW b \in Blocks,
             IgnoreBlock(b) \/ \E p \in Peers : RejectBlock(p, b)
      PROVE  CrashInv'
  <2>1. UNCHANGED <<chainVars, job, handler, height>>
    BY <1>2 DEF RejectBlock, IgnoreBlock, vars, chainVars
  <2>2. TornOK' /\ IndexBelow' /\ TornHandlerOK'
    BY <2>1, TornKept, TornHandlerMoves
  <2>3. QED
    BY <2>2 DEF CrashInv
<1>3. ASSUME NEW p \in Peers, NEW b \in Blocks, SwitchFork(p, b)
      PROVE  CrashInv'
  <2>1. /\ UNCHANGED <<chainVars, p2pVars, job>>
        /\ Known(Parent[b]) /\ ForkHeight(b) < height
        /\ StartRollback(SwitchKind(b), ForkHeight(b), <<b>>, p, blocks)
    BY <1>3 DEF SwitchFork, Forks, HeavierThanOurs
  <2>2. ForkHeight(b) \in Nat /\ blocks \in Seq(Blocks) /\ height \in Nat
    BY <2>1 DEF CrashInv, TornOK, IndexBelow, Known, ForkHeight
  <2>3. TornOK' /\ IndexBelow' /\ height' = height
    BY <2>1, TornKept
  <2>4. /\ handler' = [op |-> "rollback", kind |-> SwitchKind(b), to |-> ForkHeight(b),
                       queue |-> <<b>>, peer |-> p, was |-> blocks]
        /\ SwitchKind(b) \in {"fork", "multi"}
    BY <2>1, <2>2 DEF StartRollback, SwitchKind
  <2>5. TornHandlerOK'
    BY <2>1, <2>2, <2>3, <2>4 DEF TornHandlerOK, HandlerTypeOK
  <2>6. QED
    BY <2>3, <2>5 DEF CrashInv
<1>4. ASSUME NEW p \in Peers, NEW q \in Batches, ReceiveBlocks(p, q)
      PROVE  CrashInv'
  <2>1. /\ UNCHANGED <<chainVars, p2pVars, job>>
        /\ handler' = [Idle EXCEPT !.op = "batch", !.kind = "batch",
                                   !.queue = q, !.peer = p, !.was = blocks]
    BY <1>4 DEF ReceiveBlocks
  <2>2. q \in Seq(Blocks) /\ blocks \in Seq(Blocks)
    BY PeersAssumption DEF CrashInv, TornOK
  <2>3. TornOK' /\ IndexBelow'
    BY <2>1, TornKept
  <2>4. TornHandlerOK'
    BY <2>1, <2>2 DEF TornHandlerOK, HandlerTypeOK, Idle
  <2>5. QED
    BY <2>3, <2>4 DEF CrashInv
<1>5. QED
    BY <1>1, <1>2, <1>3, <1>4 DEF HandleMessage

\* find_common_ancestor finds nothing for a batch that does not extend the tip,
\* even when headers are missing.
LEMMA TornAncestor ==
    ASSUME CrashInv, handler.queue # <<>>, Parent[Head(handler.queue)] # Tip
    PROVE  CommonAncestors(handler.queue, height) = {}
<1> DEFINE q == handler.queue
<1>1. SUFFICES ASSUME NEW i \in 0 .. Len(q) - 1, height + i < Len(blocks),
                      blocks[height + i + 1] = Parent[q[i + 1]]
               PROVE  FALSE
    BY DEF CommonAncestors
<1>2. Len(blocks) <= height + 1 /\ height \in Nat /\ blocks \in Seq(Blocks)
    BY DEF CrashInv, TornOK
<1>3. i = 0 /\ Len(blocks) = height + 1
    BY <1>1, <1>2
<1>4. Tip = blocks[height + 1]
    BY <1>2, <1>3 DEF Tip
<1>5. q[1] = Head(q)
    BY DEF CrashInv, TornHandlerOK, HandlerTypeOK
<1>6. QED
    BY <1>1, <1>2, <1>3, <1>4, <1>5

\* The steps of a handler.
LEMMA TornHandler ==
    ASSUME CrashInv, HandlerStep
    PROVE  CrashInv'
<1>1. CASE TakeNext
  <2> DEFINE b == Head(handler.queue)
  <2>1. /\ handler.kind = "batch" /\ handler.queue # <<>> /\ handler.op \in {"batch", "apply"}
        /\ UNCHANGED chainVars \/ AcceptBlock(b)
        /\ Advance /\ UNCHANGED <<p2pVars, job>> /\ b \in Blocks
    BY <1>1 DEF TakeNext, InQueue, CrashInv, TornHandlerOK, HandlerTypeOK
  <2>2. TornOK' /\ IndexBelow'
    BY <2>1, TornKept, TornAccepts
  <2>3. TornHandlerOK'
    BY <2>1, TornHandlerMoves
  <2>4. QED
    BY <2>2, <2>3 DEF CrashInv
<1>2. CASE BatchInvalid \/ BatchStorageError \/ BatchRace \/ BatchDone \/ SwitchFailed
  <2>1. handler' = Idle /\ UNCHANGED <<chainVars, job>>
    BY <1>2 DEF BatchInvalid, BatchStorageError, BatchRace, BatchDone, SwitchFailed, Fail
  <2>2. TornOK' /\ IndexBelow' /\ TornHandlerOK'
    BY <2>1, TornKept, TornHandlerMoves
  <2>3. QED
    BY <2>2 DEF CrashInv
<1>3. ASSUME NEW claimed \in 0 .. Cardinality(Blocks), BatchFork(claimed)
      PROVE  CrashInv'
  <2> DEFINE q == handler.queue
  <2>1. /\ handler.op = "batch" /\ q # <<>> /\ Parent[Head(q)] # Tip
        /\ UNCHANGED <<chainVars, banned, job>>
    BY <1>3 DEF BatchFork, InQueue
  <2>2. CommonAncestors(q, height) = {}
    BY <2>1, TornAncestor
  <2>3. StartRollback("batch", 0, q, handler.peer, handler.was)
    BY <1>3, <2>2 DEF BatchFork
  <2>4. TornOK' /\ IndexBelow' /\ height' = height /\ height \in Nat
    BY <2>1, TornKept DEF CrashInv, TornOK
  <2>5. handler' = [op |-> IF height > 0 THEN "rollback" ELSE "apply", kind |-> "batch",
                    to |-> 0, queue |-> q, peer |-> handler.peer, was |-> handler.was]
    BY <2>3 DEF StartRollback
  <2>6. TornHandlerOK'
    BY <2>4, <2>5 DEF CrashInv, TornHandlerOK, HandlerTypeOK
  <2>7. QED
    BY <2>4, <2>6 DEF CrashInv
<1>4. CASE SwitchDone
  <2> DEFINE b == Head(handler.queue)
  <2>1. /\ handler' = Idle /\ b \in Blocks /\ AcceptBlock(b) /\ job' = job
    BY <1>4 DEF SwitchDone, CrashInv, TornHandlerOK, HandlerTypeOK
  <2>2. TornOK' /\ IndexBelow' /\ TornHandlerOK'
    BY <2>1, TornAccepts, TornHandlerMoves
  <2>3. QED
    BY <2>2 DEF CrashInv
<1>5. QED
    BY <1>1, <1>2, <1>3, <1>4, TornRollback DEF HandlerStep

\* The mining thread, and a banned peer that leaves.
LEMMA TornMines ==
    ASSUME CrashInv, Mine \/ \E p \in Peers : Disconnect(p)
    PROVE  CrashInv'
<1>1. ASSUME NEW b \in Own, PrepareMiningJob(b)
      PROVE  CrashInv'
  <2>1. UNCHANGED <<chainVars, p2pVars, handler>> /\ job'.block = b
    BY <1>1 DEF PrepareMiningJob
  <2>2. b \in Blocks
    BY BlocksAssumption
  <2>3. TornOK' /\ IndexBelow' /\ height' = height
    BY <2>1, <2>2, TornKept
  <2>4. TornHandlerOK'
    BY <2>1, <2>3, TornHandlerMoves
  <2>5. QED
    BY <2>3, <2>4 DEF CrashInv
<1>2. CASE CommitBlock
  <2> DEFINE b == job.block
             d == Persisted(disk, job.height, b)
  <2>1. /\ handler = Idle /\ handler' = handler /\ job' = NoJob /\ Connect(b)
        /\ b \in Blocks /\ job.height = height + 1 /\ height + 1 \in Nat /\ DiskTypeOK(disk)
        /\ disk' = d \/ disk' = SaveCheckpoint(d, job.height, b)
    BY <1>2 DEF CommitBlock, MayStart, JobCurrent, CrashInv, TornOK
  <2>2. DiskTypeOK(d) /\ d.blocks = Put(disk.blocks, height + 1, b)
    BY <2>1, PersistedTyped
  <2> HIDE DEF d
  <2>3. DiskTypeOK(SaveCheckpoint(d, job.height, b))
        /\ SaveCheckpoint(d, job.height, b).blocks = d.blocks
    BY <2>1, <2>2, WritesTyped DEF DiskTypeOK, SaveCheckpoint
  <2>4. DiskTypeOK(disk') /\ disk'.blocks = Put(disk.blocks, height + 1, b)
    BY <2>1, <2>2, <2>3
  <2>5. TornOK' /\ IndexBelow'
    BY <2>1, <2>4, TornAppends
  <2>6. TornHandlerOK'
    BY <2>1, TornHandlerMoves
  <2>7. QED
    BY <2>5, <2>6 DEF CrashInv
<1>3. CASE DropJob \/ \E p \in Peers : Disconnect(p)
  <2>1. /\ UNCHANGED chainVars /\ UNCHANGED <<handler, height>>
        /\ job' = NoJob \/ job' = job
    BY <1>3 DEF DropJob, Disconnect, chainVars
  <2>2. TornOK' /\ IndexBelow' /\ TornHandlerOK'
    BY <2>1, TornKept, TornHandlerMoves
  <2>3. QED
    BY <2>2 DEF CrashInv
<1>4. QED
    BY <1>1, <1>2, <1>3 DEF Mine

LEMMA CrashInitInv == CrashInit => CrashInv
<1> SUFFICES ASSUME CrashInit PROVE CrashInv
    OBVIOUS
<1>1. Genesis \in Blocks
    BY BlocksAssumption
<1>2. TornOK
    BY <1>1 DEF CrashInit, Init, TornOK, DiskTypeOK
<1>3. TornHandlerOK
    BY DEF CrashInit, Init, TornHandlerOK, HandlerTypeOK, Idle
<1>4. IndexBelow
    BY <1>1 DEF CrashInit, Init, IndexBelow, IndexOnDisk
<1>5. QED
    BY <1>2, <1>3, <1>4 DEF CrashInv

\* Every step keeps the invariant.
LEMMA CrashNextInv == CrashInv /\ [CrashNext]_crashVars => CrashInv'
<1> SUFFICES ASSUME CrashInv, [CrashNext]_crashVars
             PROVE  CrashInv'
    OBVIOUS
<1>1. CASE UNCHANGED crashVars
  <2>1. UNCHANGED <<chainVars, job, handler, height>>
    BY <1>1 DEF crashVars, vars, chainVars
  <2>2. TornOK' /\ IndexBelow' /\ TornHandlerOK'
    BY <2>1, TornKept, TornHandlerMoves
  <2>3. QED
    BY <2>2 DEF CrashInv
<1>2. QED
    BY <1>1, TornMessages, TornHandler, TornMines, TornRollback, CrashKeeps DEF CrashNext, Next

----------------------------------------------------------------------------
(* The properties that TLC checks, for every value of the constants *)

THEOREM CrashInvariance == CrashSpec => []CrashInv
BY CrashInitInv, CrashNextInv, PTL DEF CrashSpec

\* Whatever a crash tore, the hash index (rebuilt by load_state) names for each
\* block a height at which the database holds it.
THEOREM IndexStaysOnDisk == CrashSpec => []IndexOnDisk
<1>1. CrashInv => IndexOnDisk
    BY DEF CrashInv, IndexBelow
<1>2. QED
    BY <1>1, CrashInvariance, PTL

\* The chain that load_state builds from a database whose blocks are those of
\* the chain s.
LEMMA LoadedChain ==
    ASSUME NEW d, NEW s \in Seq(Blocks), d.height \in Nat, Len(s) = d.height + 1,
           0 .. d.height \subseteq DOMAIN d.blocks,
           \A h \in 0 .. d.height : d.blocks[h] = s[h + 1],
           LoadState(d)
    PROVE  blocks' = s
<1> DEFINE n == d.height + 1
<1>1. LoadedHeights(d) = [i \in 1 .. n |-> i - 1]
    BY AllHeightsLoaded
<1>2. Len(LoadedHeights(d)) = n /\ \A i \in 1 .. n : LoadedHeights(d)[i] = i - 1
    BY <1>1
<1>3. blocks' = [i \in 1 .. n |-> d.blocks[LoadedHeights(d)[i]]]
    BY <1>2 DEF LoadState
<1>4. \A i \in 1 .. n : d.blocks[LoadedHeights(d)[i]] = s[i]
  <2>1. \A i \in 1 .. n : i - 1 \in 0 .. d.height /\ (i - 1) + 1 = i
    OBVIOUS
  <2>2. QED
    BY <1>2, <2>1
<1>5. blocks' = [i \in 1 .. n |-> s[i]]
    BY <1>3, <1>4
<1>6. QED
    BY <1>5

\* A crash outside a rollback, in a node in one piece.
LEMMA CrashAtomic ==
    ASSUME CrashInv, Crash, handler.op # "rollback", ChainLinked, DiskMirrorsChain
    PROVE  \/ blocks' = blocks
           \/ \E b \in Blocks : blocks' = Append(blocks, b) /\ Spends[b] \cap disk'.utxo = {}
<1>1. PICK d \in CrashImages : Restart(d)
    BY DEF Crash
<1>2. /\ blocks \in Seq(Blocks) /\ Len(blocks) = height + 1 /\ height \in Nat
      /\ blocks[1] = Genesis
      /\ disk.height = height /\ DOMAIN disk.blocks = 0 .. height
      /\ \A h \in 0 .. height : disk.blocks[h] = blocks[h + 1]
    BY DEF CrashInv, TornOK, ChainLinked, DiskMirrorsChain
<1>3. ASSUME d.height = height, 0 .. height \subseteq DOMAIN d.blocks,
             \A h \in 0 .. height : d.blocks[h] = blocks[h + 1]
      PROVE  blocks' = blocks
  <2>1. CASE d.height = 0
    <3>1. blocks' = <<Genesis>>
        BY <1>1, <2>1 DEF Restart, InitGenesis
    <3>2. Len(blocks) = 1
        BY <1>2, <1>3, <2>1
    <3>3. blocks = [i \in 1 .. 1 |-> blocks[i]]
      <4>1. blocks = [i \in 1 .. Len(blocks) |-> blocks[i]]
        BY <1>2
      <4>2. QED
        BY <3>2, <4>1
    <3>4. <<Genesis>> = [i \in 1 .. 1 |-> Genesis]
        OBVIOUS
    <3>5. \A i \in 1 .. 1 : blocks[i] = Genesis
        BY <1>2
    <3>6. QED
        BY <3>1, <3>3, <3>4, <3>5
  <2>2. CASE d.height # 0
    <3>1. LoadState(d)
        BY <1>1, <2>2 DEF Restart
    <3>2. QED
        BY <1>2, <1>3, <3>1, LoadedChain
  <2>3. QED
    BY <2>1, <2>2
<1>4. CASE d = disk
    BY <1>2, <1>3, <1>4
<1>5. ASSUME NEW b \in Blocks, d \in AppendImages(b)
      PROVE  blocks' = blocks
  <2>1. d.height = height /\ d.blocks = Put(disk.blocks, height + 1, b)
    BY <1>2, <1>5, AppendImage
  <2>2. /\ DOMAIN d.blocks = DOMAIN disk.blocks \cup {height + 1}
        /\ \A h \in 0 .. height : d.blocks[h] = disk.blocks[h]
    BY <1>2, <2>1 DEF Put
  <2>3. QED
    BY <1>2, <1>3, <2>1, <2>2
<1>6. CASE d \in UncheckpointedImages
  <2> DEFINE b == job.block
             s == Append(blocks, b)
  <2>1. /\ b \in Blocks /\ d.height = height + 1
        /\ d.blocks = Put(disk.blocks, height + 1, b)
        /\ d.utxo \cap Spends[b] = {}
    BY <1>6, JobImage
  <2>2. /\ s \in Seq(Blocks) /\ Len(s) = d.height + 1 /\ d.height \in Nat /\ d.height # 0
        /\ s[height + 2] = b /\ \A i \in 1 .. height + 1 : s[i] = blocks[i]
    BY <1>2, <2>1
  <2>3. 0 .. d.height \subseteq DOMAIN d.blocks
    BY <1>2, <2>1 DEF Put
  <2>4. ASSUME NEW h \in 0 .. d.height PROVE d.blocks[h] = s[h + 1]
    <3>1. CASE h = height + 1
        BY <1>2, <2>1, <2>2, <3>1 DEF Put
    <3>2. CASE h \in 0 .. height
      <4>1. d.blocks[h] = disk.blocks[h]
        BY <1>2, <2>1, <3>2 DEF Put
      <4>2. h + 1 \in 1 .. height + 1
        BY <1>2, <3>2
      <4> HIDE DEF s
      <4>3. QED
        BY <1>2, <2>2, <3>2, <4>1, <4>2
    <3>3. QED
        BY <1>2, <2>1, <3>1, <3>2
  <2>5. LoadState(d)
    BY <1>1, <2>2 DEF Restart
  <2> HIDE DEF s
  <2>6. blocks' = s
    BY <2>2, <2>3, <2>4, <2>5, LoadedChain
  <2>7. disk' = d
    BY <2>5 DEF LoadState
  <2>8. Spends[b] \cap disk'.utxo = {}
    BY <2>1, <2>7
  <2>9. QED
    BY <2>1, <2>6, <2>8 DEF s
<1>7. d \notin RollbackImages
    BY DEF RollbackImages
<1>8. QED
    BY <1>4, <1>5, <1>6, <1>7 DEF CrashImages

\* A crash while a block is appended costs at most that block: the node comes
\* back with its chain, or with the whole block and its spent outputs gone.
THEOREM AppendsAreAtomic == CrashSpec => AppendIsAtomic
<1>1. CrashInv /\ [CrashNext]_crashVars =>
        [crashes' # crashes /\ handler.op # "rollback" /\ ChainLinked /\ DiskMirrorsChain =>
            \/ blocks' = blocks
            \/ \E b \in Blocks : blocks' = Append(blocks, b) /\ Spends[b] \cap disk'.utxo = {}]_crashVars
  <2> SUFFICES ASSUME CrashInv, CrashNext, crashes' # crashes, handler.op # "rollback",
                      ChainLinked, DiskMirrorsChain
               PROVE  \/ blocks' = blocks
                      \/ \E b \in Blocks :
                            blocks' = Append(blocks, b) /\ Spends[b] \cap disk'.utxo = {}
    OBVIOUS
  <2>1. Crash
    BY DEF CrashNext, RollbackMissing
  <2>2. QED
    BY <2>1, CrashAtomic
<1>2. QED
    BY <1>1, CrashInvariance, PTL DEF CrashSpec, AppendIsAtomic

=============================================================================

---------------------------- MODULE MiningSearch ----------------------------
(***************************************************************************)
(* The nonce search of the mining thread (mine_multithreaded, src/src/     *)
(* main.rs): threads share an atomic nonce, an atomic flag and a hash      *)
(* behind a mutex, and what they leave there is given to                   *)
(* commit_mining_result.  One step per access to the shared cells; a hash  *)
(* is a number, and meeting a target is being at most as large.            *)
(* The two reads at the top of the loop only decide whether to stop: they  *)
(* are one step.                                                           *)
(***************************************************************************)
EXTENDS Integers, FiniteSets

CONSTANTS
    Threads,        \* 0 .. num_threads - 1
    Batch,          \* MINING_BATCH_SIZE
    Hash,           \* Hash[n]: the hash of the job's header with nonce n < Batch
    Passes,         \* the nonces that the prefilter lets through
    BlockTarget,
    ShareTarget,    \* at least BlockTarget
    Worst           \* [0xff; 32], above ShareTarget

VARIABLES
    best_nonce, best_hash, block_found, \* the shared cells
    mutex,     \* the thread that holds the lock of best_hash, or Free
    moved,     \* the generation has changed, or abort_mining is set
    pc, nonce, \* per thread
    outcome    \* what commit_mining_result made of the last result

shared == <<best_nonce, best_hash, block_found, mutex>>
vars == <<shared, moved, pc, nonce, outcome>>

Free == -1
Nothing == [kind |-> "none", nonce |-> 0, hash |-> Worst]

----------------------------------------------------------------------------

Goto(t, label) == pc' = [pc EXCEPT ![t] = label]
NextNonce(t) == nonce' = [nonce EXCEPT ![t] = @ + Cardinality(Threads)]

\* The end of the batch, a block of another thread, or a chain that moved.
Stop(t) ==
    /\ pc[t] = "top"
    /\ nonce[t] >= Batch \/ block_found \/ moved
    /\ Goto(t, "done")
    /\ UNCHANGED <<shared, moved, nonce, outcome>>

IsBlock(n) == n \in Passes /\ Hash[n] <= BlockTarget
IsShare(n) == n \in Passes /\ Hash[n] <= ShareTarget

\* Prefilter and hash: neither a block nor a share.
Miss(t) ==
    /\ pc[t] = "top" /\ nonce[t] < Batch /\ ~block_found /\ ~moved
    /\ ~IsShare(nonce[t])
    /\ NextNonce(t)
    /\ UNCHANGED <<shared, moved, pc, outcome>>

Hit(t) ==
    /\ pc[t] = "top" /\ nonce[t] < Batch /\ ~block_found /\ ~moved
    /\ IsShare(nonce[t])
    /\ Goto(t, IF IsBlock(nonce[t]) THEN "block" ELSE "share")
    /\ UNCHANGED <<shared, moved, nonce, outcome>>

\* A block: the nonce first, without the lock ...
StoreNonce(t) ==
    /\ pc[t] = "block"
    /\ best_nonce' = nonce[t]
    /\ Goto(t, "hash")
    /\ UNCHANGED <<best_hash, block_found, mutex, moved, nonce, outcome>>

\* ... then the hash ...
StoreHash(t) ==
    /\ pc[t] = "hash" /\ mutex = Free
    /\ best_hash' = Hash[nonce[t]]
    /\ Goto(t, "flag")
    /\ UNCHANGED <<best_nonce, block_found, mutex, moved, nonce, outcome>>

\* ... and the flag.
StoreFound(t) ==
    /\ pc[t] = "flag"
    /\ block_found' = TRUE
    /\ Goto(t, "done")
    /\ UNCHANGED <<best_nonce, best_hash, mutex, moved, nonce, outcome>>

\* A share that is no better than the best is forgotten.
KeepBest(t) ==
    /\ pc[t] = "share" /\ mutex = Free
    /\ Hash[nonce[t]] >= best_hash
    /\ NextNonce(t)
    /\ Goto(t, "top")
    /\ UNCHANGED <<shared, moved, outcome>>

\* A better one is written under the lock, hash and nonce.
TakeBest(t) ==
    /\ pc[t] = "share" /\ mutex = Free
    /\ Hash[nonce[t]] < best_hash
    /\ best_hash' = Hash[nonce[t]]
    /\ mutex' = t
    /\ UNCHANGED <<best_nonce, block_found, moved, pc, nonce, outcome>>

Unlock(t) ==
    /\ pc[t] = "share" /\ mutex = t
    /\ best_nonce' = nonce[t]
    /\ mutex' = Free
    /\ NextNonce(t)
    /\ Goto(t, "top")
    /\ UNCHANGED <<best_hash, block_found, moved, outcome>>

----------------------------------------------------------------------------

\* accept_block or a rollback, while the search runs without the lock.
ChainMoves ==
    /\ ~moved
    /\ moved' = TRUE
    /\ UNCHANGED <<shared, pc, nonce, outcome>>

Finished == \A t \in Threads : pc[t] = "done"

\* The shared cells of a new call.
Fresh ==
    /\ best_nonce' = 0 /\ best_hash' = Worst /\ block_found' = FALSE /\ mutex' = Free
    /\ moved' = FALSE
    /\ pc' = [t \in Threads |-> "top"]
    /\ nonce' = [t \in Threads |-> t]

\* commit_mining_result: stale, a block, a share, or nothing; then a new job.
Commit ==
    /\ Finished
    /\ outcome' = IF moved \/ (~block_found /\ best_hash = Worst) THEN Nothing
                  ELSE [kind |-> IF block_found THEN "block" ELSE "share",
                        nonce |-> best_nonce, hash |-> best_hash]
    /\ Fresh

\* The last peer has left and solo mining is off: the result is dropped.
DropResult ==
    /\ Finished
    /\ UNCHANGED outcome
    /\ Fresh

Init ==
    /\ best_nonce = 0 /\ best_hash = Worst /\ block_found = FALSE /\ mutex = Free
    /\ moved = FALSE
    /\ pc = [t \in Threads |-> "top"]
    /\ nonce = [t \in Threads |-> t]
    /\ outcome = Nothing

Search(t) ==
    \/ Stop(t) \/ Miss(t) \/ Hit(t)
    \/ StoreNonce(t) \/ StoreHash(t) \/ StoreFound(t)
    \/ KeepBest(t) \/ TakeBest(t) \/ Unlock(t)

Next == (\E t \in Threads : Search(t)) \/ ChainMoves \/ Commit \/ DropResult

Spec == Init /\ [][Next]_vars

----------------------------------------------------------------------------
(* Properties *)

\* "Returns (best_nonce, best_hash, found_block)": what is committed is a
\* nonce with its own hash.  A block whose header hashes to something else is
\* indexed under a hash that nothing can refer to and fails the proof of work
\* of every peer.
NonceOfHash == outcome.kind # "none" => Hash[outcome.nonce] = outcome.hash

=============================================================================

----------------------------- MODULE ShareSync -----------------------------
(***************************************************************************)
(* Resynchronisation of the shares of one completed epoch between nodes    *)
(* (handle_epoch_commit, handle_get_shares and handle_share_reply in       *)
(* src/src/node.rs, SharePool::new_epoch in src/src/miner.rs).             *)
(*                                                                         *)
(* A share is a number; their order is the canonical order (miner, hash).  *)
(* A Merkle root is the set it is computed from, the root of the empty set *)
(* being the zero hash.  The root that a node broadcasts is the hash of    *)
(* its EpochCommit, which is not the root of a set of shares.              *)
(*                                                                         *)
(* The shares that a node has when it closes the epoch are given; those    *)
(* that it holds before are not persisted, and after a restart it collects *)
(* a set of Recollected.  The close writes the archive and the root under  *)
(* two keys, and the process may die before, between and after.            *)
(* Connections are reliable and ordered, and reset by a restart.  The      *)
(* pruning of old epochs is left out: one epoch is followed, as long as it *)
(* is young enough.                                                        *)
(***************************************************************************)
EXTENDS Integers, Sequences, FiniteSets

CONSTANTS
    Node,
    Shares,
    Mined,           \* Mined[n]: the shares n has collected in the epoch
    Recollected,     \* Recollected[n]: what n may have collected in it after a restart
    Accepts,         \* Accepts[n]: the shares that meet n's present target
    CommitHash,      \* CommitHash[n]: the hash of n's EpochCommit
    PageSize,        \* MAX_SHARES_PER_REPLY
    SwitchMargin,    \* COMMIT_SWITCH_MARGIN
    Absent,          \* no entry
    MayRestart,      \* bound: the nodes that are restarted
    MaxNodeRestarts  \* bound: their restarts, all nodes together

ASSUME ShareSyncAssumption ==
    /\ IsFiniteSet(Node) /\ Shares \subseteq Nat /\ IsFiniteSet(Shares)
    /\ Mined \in [Node -> SUBSET Shares]
    /\ Recollected \in [Node -> SUBSET SUBSET Shares]
    /\ \A n \in Node : Recollected[n] \subseteq SUBSET Mined[n]
    /\ Accepts \in [Node -> SUBSET Shares]
    /\ \A n \in Node : \A S \in SUBSET Shares : CommitHash[n] # S
    /\ PageSize \in Nat \ {0} /\ SwitchMargin \in Nat
    /\ \A S \in SUBSET Shares : Absent # S
    /\ MayRestart \subseteq Node /\ MaxNodeRestarts \in Nat

VARIABLES
    pool,      \* pool[n]: the shares of the running epoch, Absent once it is closed
    archive,   \* archive[n]: SharePool.archive of the epoch
    root,      \* root[n]: SharePool.epoch_roots of the epoch
    savedShares,  \* savedShares[n]: the key epoch_shares
    savedRoot, \* savedRoot[n]: the key epoch_share_root
    torn,      \* history: the nodes whose last close died between the two keys
    votes,     \* votes[n]: received_commits, as pairs <<root, peer>>
    net,       \* net[m][n]: the messages from m to n, in order
    nodeRestarts

saved == <<savedShares, savedRoot, torn>>

syncVars == <<pool, archive, root, saved, votes, net, nodeRestarts>>

EpochCommit(r) == [type |-> "EpochCommit", commit_root |-> r]
GetShares(offset) == [type |-> "GetShares", offset |-> offset]
ShareReply(shares, total) == [type |-> "ShareReply", shares |-> shares, total |-> total]

----------------------------------------------------------------------------

\* compute_merkle_root, compute_share_merkle_root
Root(shares) == shares

\* The place of a share in the canonical order of a set.
Index(s, shares) == Cardinality({x \in shares : x < s})

\* The slice of handle_get_shares.
Page(shares, offset) == {s \in shares : Index(s, shares) \in offset .. offset + PageSize - 1}

Votes(n, r) == Cardinality({p \in Node : <<r, p>> \in votes[n]})

\* n takes the first message from p and sends p these.
Answer(n, p, messages) ==
    net' = [net EXCEPT ![p][n] = Tail(@), ![n][p] = @ \o messages]

Receives(n, p, type) == net[p][n] # <<>> /\ Head(net[p][n]).type = type

----------------------------------------------------------------------------
(* Closing the epoch *)

\* process_epoch_end: new_epoch, which replaces what replies have put into the
\* archive before; save_shares_archive; save_epoch_commit.
CloseEpoch(n) ==
    /\ pool[n] # Absent
    /\ pool' = [pool EXCEPT ![n] = Absent]
    /\ archive' = [archive EXCEPT ![n] = pool[n]]
    /\ root' = [root EXCEPT ![n] = Root(pool[n])]
    /\ savedShares' = [savedShares EXCEPT ![n] = pool[n]]
    /\ savedRoot' = [savedRoot EXCEPT ![n] = Root(pool[n])]
    /\ torn' = torn \ {n}
    /\ net' = [net EXCEPT ![n] =
                [p \in Node |-> IF p = n THEN @[p] ELSE Append(@[p], EpochCommit(CommitHash[n]))]]
    /\ UNCHANGED <<votes, nodeRestarts>>

----------------------------------------------------------------------------
(* The handlers *)

Vote(n, p, r) == <<r, p>>

\* handle_epoch_commit.  The vote is recorded first.
Wanted(n, p, r) ==
    \/ root[n] = Absent
    \/ /\ root[n] # r
       /\ Cardinality({q \in Node : <<r, q>> \in votes[n]} \cup {p}) >= Votes(n, root[n]) + SwitchMargin

HandleEpochCommit(n, p) ==
    /\ Receives(n, p, "EpochCommit")
    /\ LET r == Head(net[p][n]).commit_root
       IN /\ votes' = [votes EXCEPT ![n] = @ \cup {Vote(n, p, r)}]
          /\ Answer(n, p, IF Wanted(n, p, r) THEN <<GetShares(0)>> ELSE <<>>)
    /\ UNCHANGED <<pool, archive, root, saved, nodeRestarts>>

\* handle_get_shares
HandleGetShares(n, p) ==
    /\ Receives(n, p, "GetShares")
    /\ LET shares == IF archive[n] = Absent THEN {} ELSE archive[n]
       IN Answer(n, p, <<ShareReply(Page(shares, Head(net[p][n]).offset), Cardinality(shares))>>)
    /\ UNCHANGED <<pool, archive, root, saved, votes, nodeRestarts>>

\* Mutant of Merged: the shares are not validated.
MergedUnchecked(n, shares) == shares \cup (IF archive[n] = Absent THEN {} ELSE archive[n])

\* Our archive with the valid ones of these shares.
Merged(n, shares) ==
    (shares \cap Accepts[n]) \cup (IF archive[n] = Absent THEN {} ELSE archive[n])

\* Mutant of HasMore: a reply that completes the archive asks again.
HasMoreOrEqual(have, total) == have <= total

HasMore(have, total) == have < total

\* handle_share_reply.  The next offset is the number of shares that we have,
\* whoever they came from.
HandleShareReply(n, p) ==
    /\ Receives(n, p, "ShareReply")
    /\ LET reply == Head(net[p][n])
           shares == Merged(n, reply.shares)
           have == Cardinality(shares)
       IN /\ archive' = [archive EXCEPT ![n] = shares]
          /\ root' = [root EXCEPT ![n] = Root(shares)]
          /\ Answer(n, p, IF HasMore(have, reply.total) THEN <<GetShares(have)>> ELSE <<>>)
    /\ UNCHANGED <<pool, saved, votes, nodeRestarts>>

----------------------------------------------------------------------------

\* Mutant of Loaded: archives are not loaded.
LoadedNothing(shares) == Absent

\* load_state: an empty archive is not loaded.
Loaded(shares) == IF shares = {} THEN Absent ELSE shares

\* Mutant of LoadedRoot: the root is loaded whether there is an archive or not.
AnyRoot(shares, r) == r

\* The root is loaded from its own key, next to an archive that is.
LoadedRoot(shares, r) == IF Loaded(shares) = Absent THEN Absent ELSE r

\* The process of n starts with what is saved: connections, votes and what
\* replies added to the archive are lost.
Starts(n) ==
    /\ n \in MayRestart /\ nodeRestarts < MaxNodeRestarts
    /\ nodeRestarts' = nodeRestarts + 1
    /\ archive' = [archive EXCEPT ![n] = Loaded(savedShares'[n])]
    /\ root' = [root EXCEPT ![n] = LoadedRoot(savedShares'[n], savedRoot'[n])]
    /\ votes' = [votes EXCEPT ![n] = {}]
    /\ net' = [m \in Node |-> [p \in Node |-> IF n \in {m, p} THEN <<>> ELSE net[m][p]]]

\* A restart outside the close; the shares of the running epoch are lost.
RestartNode(n) ==
    /\ UNCHANGED saved /\ Starts(n)
    /\ IF pool[n] = Absent THEN UNCHANGED pool
       ELSE \E shares \in Recollected[n] : pool' = [pool EXCEPT ![n] = shares]

\* The process dies in the close: with neither key written, the archive or both.
\* If the height of the block that ends the epoch is saved before (a received
\* block), load_state takes the epoch for completed; if it is saved after (a
\* block of our own), the epoch is open again and will be closed again.
CrashInClose(n) ==
    /\ pool[n] # Absent
    /\ \/ UNCHANGED saved
       \/ /\ savedShares' = [savedShares EXCEPT ![n] = pool[n]]
          /\ torn' = torn \cup {n}
          /\ UNCHANGED savedRoot
       \/ /\ savedShares' = [savedShares EXCEPT ![n] = pool[n]]
          /\ savedRoot' = [savedRoot EXCEPT ![n] = Root(pool[n])]
          /\ torn' = torn \ {n}
    /\ Starts(n)
    /\ \E shares \in Recollected[n] \cup {Absent} : pool' = [pool EXCEPT ![n] = shares]

SyncInit ==
    /\ pool = Mined
    /\ archive = [n \in Node |-> Absent]
    /\ root = [n \in Node |-> Absent]
    /\ savedShares = [n \in Node |-> Absent]
    /\ savedRoot = [n \in Node |-> Absent]
    /\ torn = {}
    /\ votes = [n \in Node |-> {}]
    /\ net = [m \in Node |-> [n \in Node |-> <<>>]]
    /\ nodeRestarts = 0

Handle(n, p) ==
    \/ HandleEpochCommit(n, p)
    \/ HandleGetShares(n, p)
    \/ HandleShareReply(n, p)

SyncNext ==
    \/ \E n \in Node : CloseEpoch(n)
    \/ \E n, p \in Node : Handle(n, p)
    \/ \E n \in Node : RestartNode(n)
    \/ \E n \in Node : CrashInClose(n)

\* Every tick reads all sockets and handles what it read.
SyncSpec ==
    /\ SyncInit /\ [][SyncNext]_syncVars
    /\ \A n, p \in Node : WF_syncVars(Handle(n, p))

----------------------------------------------------------------------------
(* Properties *)

OptionalShares == {Absent} \cup SUBSET Shares

RootOf(shares) == IF shares = Absent THEN Absent ELSE Root(shares)

\* The root by which a node compares itself with its peers is that of the
\* archive it serves, through merges, a second close that replaces the archive
\* and reloads.  The exception is a node whose close died between the two keys:
\* it serves the archive of that close with the root of an earlier one, or with
\* none, until a reply or another close corrects it; and no other node finds
\* such a pair on its disk.
RootIsOfArchive ==
    \A n \in Node :
        /\ \/ root[n] = RootOf(archive[n])
           \/ n \in torn /\ archive[n] = savedShares[n] /\ root[n] = savedRoot[n]
        /\ n \in torn \/ savedRoot[n] = RootOf(savedShares[n])

\* What the last close has saved is served ever after, whatever the node merges
\* and wherever it dies and restarts.
OwnSharesServed ==
    \A n \in Node :
        savedShares[n] \notin {Absent, {}}
        => archive[n] # Absent /\ savedShares[n] \subseteq archive[n]

\* A share that the node would not have accepted is never served to others,
\* although another peer serves it.
OnlyAcceptable ==
    \A n \in Node : archive[n] # Absent => archive[n] \subseteq Accepts[n] \cup Mined[n]

\* Only the close of the epoch and a restart, in it or not, take shares out of the archive.
LostOnlyByCloseOrRestart ==
    [][\A n \in Node :
            \/ archive[n] = Absent
            \/ archive'[n] # Absent /\ archive[n] \subseteq archive'[n]
            \/ pool'[n] # pool[n]
            \/ nodeRestarts' # nodeRestarts]_syncVars

Exchanging(n, p) ==
    \/ \E i \in DOMAIN net[n][p] : net[n][p][i].type = "GetShares"
    \/ \E i \in DOMAIN net[p][n] : net[p][n][i].type = "ShareReply"

\* The exchange with a peer whose shares fit into one reply, and are all
\* acceptable, ends.
SmallExchangeEnds ==
    \A n, p \in Node :
        <>[](\/ archive[p] = Absent
             \/ Cardinality(archive[p]) <= PageSize /\ archive[p] \subseteq Accepts[n])
        => <>[]~Exchanging(n, p)

=============================================================================

---------------------------- MODULE SyncSession ----------------------------
(***************************************************************************)
(* Block synchronisation (SyncManager in src/src/p2p.rs, Node::tick and    *)
(* the Version, Block and Blocks handlers in src/src/node.rs): one session *)
(* at a time with one peer, requests, answers that come in time, late or   *)
(* never, batches that nobody asked for, timeouts, connections that close, *)
(* and the mining thread that waits while a session runs.                  *)
(*                                                                         *)
(* The chain of the node, and of a peer, is a block: the path to it from   *)
(* Genesis.  Work is left out: a pushed block that competes with one of    *)
(* ours may be the heavier one or not; what a batch that does not extend   *)
(* the chain does is the rollback to Genesis proved in Chain_proofs        *)
(* (AncestorNotFound).  A rollback loses the outputs that the blocks it    *)
(* removes had spent (rollback_utxo_set keeps no undo data); an output is  *)
(* named by the block that creates it.  A request and its answer are one   *)
(* entry of a queue per connection, answered with the chain that the peer  *)
(* has when the answer is handled.  Of time only the timeouts are left;    *)
(* none overtakes a peer that is Timely: one that runs this program, stays *)
(* connected, answers in time, and whose own chain gets no lower.          *)
(***************************************************************************)
EXTENDS Integers, Sequences, FiniteSets, SequencesExt

CONSTANTS
    Peers,
    Timely,            \* the peers that stay connected and answer in time
    Blocks, Genesis, Parent,
    Malformed,         \* blocks that no node accepts
    Spends,            \* Spends[b]: the blocks whose outputs b spends
    Own,               \* blocks that this node mines
    StartTip,          \* StartTip[p]: the chain that p starts with
    BatchSize,         \* SYNC_BATCH_SIZE
    MaxRetries,        \* timeouts before a peer is banned (3)
    AllowSolo,         \* mining.allow_solo_without_peers
    MaxDisturbances    \* bound: connections that close, answers that come
                       \* late, forks that are pushed, peers that reorganise,
                       \* batches that nobody asked for, together

\* No block descends from itself, for a header holds the hash of its parent.
ASSUME TreeAssumption ==
    /\ Genesis \in Blocks /\ Parent \in [Blocks \ {Genesis} -> Blocks]
    /\ \A S \in SUBSET (Blocks \ {Genesis}) : S # {} => \E b \in S : Parent[b] \notin S

ASSUME SyncAssumption ==
    /\ Timely \subseteq Peers
    /\ Malformed \cup Own \subseteq Blocks \ {Genesis}
    /\ Spends \in [Blocks -> SUBSET Blocks]
    /\ StartTip \in [Peers -> Blocks \ Own]
    /\ BatchSize \in Nat \ {0} /\ MaxRetries \in Nat \ {0, 1}
    /\ AllowSolo \in BOOLEAN
    /\ MaxDisturbances \in Nat

VARIABLES
    tip,       \* the node's chain, Node.height with it
    gone,      \* outputs of the chain that a rollback has lost
    sync,      \* SyncManager: peers, session, in_progress, local_height
    conn,      \* conn[p]: "open", "banned" (removed by the next read), "closed"
    pending,   \* pending[p]: the requests that p has not answered yet
    peerTip,   \* the peers' chains
    job,       \* the mining thread holds a job for this chain
    faults, late, switches, uninvited,  \* how often each has happened
    lost,      \* history: a fork switch has failed
    refused    \* history: a block was refused for an output that is gone

history == <<lost, refused>>
vars == <<tip, gone, sync, conn, pending, peerTip, job, faults, late, switches, uninvited, history>>

Disturbances == faults + late + switches + uninvited

----------------------------------------------------------------------------
(* Chains *)

\* Path[b]: the chain that ends in b, Genesis left out.
Path ==
    LET path[b \in Blocks] == IF b = Genesis THEN <<>> ELSE Append(path[Parent[b]], b)
    IN [b \in Blocks |-> path[b]]

HeightOf(b) == Len(Path[b])
Height == HeightOf(tip)
OnChain(chain, b) == b = Genesis \/ b \in Range(Path[chain])

\* A timely peer follows the rules: no block of its chain is malformed.  One may
\* be refused here nevertheless, for an output that a rollback has lost.
ASSUME TimelyAssumption ==
    \A p \in Timely : Range(Path[StartTip[p]]) \cap Malformed = {}

\* A block spends outputs of the blocks below it.  One that spends what its own
\* chain has spent already is Malformed.
ASSUME SpendsAssumption ==
    \A b \in Blocks : \A c \in Spends[b] : c # b /\ OnChain(b, c)

\* rollback_utxo_set, for every block above base: its outputs are deleted, and
\* those that it had spent do not come back.
LostBy(base) ==
    LET removed == Range(Path[tip]) \ Range(Path[base])
    IN {c \in gone \cup UNION {Spends[b] : b \in removed} : OnChain(base, c)}

\* How many of 1 .. n are in S, counted from 1 up to the first that is not.
Leading(S, n) ==
    CHOOSE k \in 0 .. n : 1 .. k \subseteq S /\ (k < n => k + 1 \notin S)

\* Blocks that accept_block takes if they follow its last one.
Acceptable(missing) == {b \in Blocks \ Malformed : Spends[b] \cap missing = {}}

\* The chain with the blocks appended to it, up to the first one that is
\* refused.
Appended(chain, blocks, missing) ==
    LET before(i) == IF i = 1 THEN chain ELSE blocks[i - 1]
        linked == {i \in 1 .. Len(blocks) :
                    Parent[blocks[i]] = before(i) /\ blocks[i] \in Acceptable(missing)}
        n == Leading(linked, Len(blocks))
    IN IF n = 0 THEN chain ELSE blocks[n]

\* The blocks of a batch that are not known.  A batch is a piece of one chain,
\* so those that are known come first.
Unknown(chain, blocks) ==
    LET known == Cardinality({i \in DOMAIN blocks : OnChain(chain, blocks[i])})
    IN SubSeq(blocks, known + 1, Len(blocks))

----------------------------------------------------------------------------
(* SyncManager *)

NoSession == [status |-> "None"]

Known(s) == DOMAIN s.peers
Usable(s) == {p \in Known(s) : ~s.peers[p].banned}
Ahead(s) == {p \in Usable(s) : s.peers[p].height > s.local_height}

\* update_peer
UpdatePeer(s, p, height) ==
    [s EXCEPT !.peers =
        [q \in Known(s) \cup {p} |->
            IF q # p THEN s.peers[q]
            ELSE IF p \in Known(s) THEN [s.peers[p] EXCEPT !.height = height]
            ELSE [height |-> height, retries |-> 0, banned |-> FALSE]]]

\* Mutant of RemovePeer: the peer is not forgotten.
RemoveNothing(s, p) == s

\* remove_peer
RemovePeer(s, p) == [s EXCEPT !.peers = [q \in Known(s) \ {p} |-> s.peers[q]]]

\* Mutant of Ended: sync_in_progress is not reset.
EndedBusy(s) == [s EXCEPT !.session = NoSession]

Ended(s) == [s EXCEPT !.session = NoSession, !.in_progress = FALSE]

\* Mutant of BestPeers: a banned peer can be chosen.
AnyPeerAhead(s) == {p \in Known(s) : s.peers[p].height > s.local_height}

\* best_peer: which of them depends on measured latencies.
BestPeers(s) == Ahead(s)

\* needs_sync, best_peer, start_sync.  A session that is only marked Completed
\* is replaced if the last attempt is long ago.
Started(s) ==
    IF s.in_progress \/ Ahead(s) = {} THEN {s}
    ELSE {[s EXCEPT !.session = [peer |-> p, current |-> s.local_height,
                                 target |-> s.peers[p].height, status |-> "Requesting"],
                    !.in_progress = TRUE] : p \in BestPeers(s)}
         \cup (IF s.session = NoSession THEN {} ELSE {s})

\* check_timeouts and what tick does when it returns a peer.
TimedOut(s) ==
    LET p == s.session.peer
        entry == s.peers[p]
    IN IF p \notin Known(s) THEN Ended(s)
       ELSE Ended([s EXCEPT !.peers[p].retries = @ + 1,
                            !.peers[p].banned = @ \/ entry.retries + 1 >= MaxRetries])

\* Mutant of CheckTimeouts: a session whose peer is gone is not cleared.
ClearKnown(s, expired) ==
    IF s.session = NoSession THEN s
    ELSE IF s.session.status = "Completed" THEN [s EXCEPT !.session = NoSession]
    ELSE IF expired /\ s.session.peer \in Known(s) THEN TimedOut(s) ELSE s

CheckTimeouts(s, expired) ==
    IF s.session = NoSession THEN s
    ELSE IF s.session.status = "Completed" THEN [s EXCEPT !.session = NoSession]
    ELSE IF expired THEN TimedOut(s) ELSE s

\* Step 5 of tick: the next batch of a session that is Requesting.
MayRequest(s) == s.session # NoSession /\ s.session.status = "Requesting"
From(s) == s.session.current + 1
HasMore(s) == From(s) <= s.session.target

Request(s) ==
    IF ~HasMore(s)   \* no run reaches this: current stays below target
    THEN [s EXCEPT !.session.status = "Completed", !.in_progress = FALSE]
    ELSE IF s.session.peer \in Usable(s) THEN [s EXCEPT !.session.status = "Receiving"]
    ELSE Ended(s)

\* The message of that step: at least one block, as many as the peer announced.
Sent(s) ==
    IF HasMore(s) /\ s.session.peer \in Usable(s)
    THEN LET p == s.session.peer
             last == IF From(s) + BatchSize - 1 < s.peers[p].height
                     THEN From(s) + BatchSize - 1 ELSE s.peers[p].height
         IN [pending EXCEPT ![p] = Append(@, [from |-> From(s),
                count |-> IF last < From(s) THEN 1 ELSE last - From(s) + 1])]
    ELSE pending

\* on_blocks_received: a batch is counted, whatever of it was new; an empty one
\* ends the session.
Received(s, p, length) ==
    IF s.session = NoSession \/ s.session.peer # p THEN s
    ELSE IF length = 0 THEN Ended(s)
    ELSE LET current == s.session.current + length
             t == IF p \in Known(s) THEN [s EXCEPT !.peers[p].retries = 0] ELSE s
         IN IF current >= s.session.target THEN Ended(t)
            ELSE [t EXCEPT !.session.current = current, !.session.status = "Requesting"]

\* Mutant of Restarted: the session keeps the height it had.
KeepCurrent(s, height) ==
    IF s.session = NoSession THEN s ELSE [s EXCEPT !.session.status = "Requesting"]

\* The session starts again from the given height.
Restarted(s, height) ==
    IF s.session = NoSession THEN s
    ELSE [s EXCEPT !.session.current = height, !.session.status = "Requesting"]

\* Mutant of RolledBack: the height is not reset.
SessionBack(s) == Restarted(s, 0)

\* The chain is gone, and the session starts from Genesis.
RolledBack(s) == [Restarted(s, 0) EXCEPT !.local_height = 0]

----------------------------------------------------------------------------
(* The blocks of an answer: verify_and_accept_blocks and its caller *)

\* The blocks that we know are skipped; the rest extends our chain, or the
\* node rolls back to Genesis and tries the rest there.  If that does not
\* link either (the "prev_hash race"), any session restarts, whoever sent the
\* batch; another error bans the connection.
HandleBlocks(p, batch) ==
    \E new \in {Unknown(tip, batch)} :
    \E base \in {IF new # <<>> /\ Parent[Head(new)] # tip THEN Genesis ELSE tip} :
    \E missing \in {LostBy(base)} :
    \E t \in {Appended(base, new, missing)} :
        LET s == IF base = tip THEN sync
                 ELSE RolledBack(sync)
            accepted == new # <<>> => t = Last(new)
            race == new # <<>> => Parent[Head(new)] # base
        IN /\ tip' = t /\ gone' = missing
           /\ job' = (job /\ t = tip)
           /\ refused' = (refused \/ (~accepted /\ ~race /\ Range(new) \cap Malformed = {}))
           /\ \/ /\ accepted
                 /\ sync' = Received([s EXCEPT !.local_height = HeightOf(t)], p, Len(batch))
                 /\ UNCHANGED conn
              \/ /\ ~accepted /\ race
                 /\ sync' = Restarted(s, HeightOf(t))
                 /\ UNCHANGED conn
              \/ /\ ~accepted /\ ~race
                 /\ sync' = s
                 /\ conn' = [conn EXCEPT ![p] = "banned"]

\* GetBlocks at the peer, and its answer here.  A peer that has none of the
\* blocks does not answer.
Reply(p) ==
    /\ conn[p] # "closed" /\ pending[p] # <<>>
    /\ pending' = [pending EXCEPT ![p] = Tail(@)]
    /\ UNCHANGED <<peerTip, faults, late, switches, uninvited, lost>>
    /\ LET request == Head(pending[p])
           chain == Path[peerTip[p]]
           last == IF request.from + request.count - 1 < Len(chain)
                   THEN request.from + request.count - 1 ELSE Len(chain)
           batch == SubSeq(chain, request.from, last)
       IN IF batch = <<>> THEN UNCHANGED <<tip, gone, job, sync, conn, refused>>
          ELSE HandleBlocks(p, batch)

\* What a peer may send: the blocks from .. to of any chain, or none.
PieceOf(b, from, to) == SubSeq(Path[b], from, to)

\* A Blocks message is handled whether or not it was asked for: blocks that are
\* known, a piece of some chain, blocks that link to nothing here.  A peer that
\* is timely sends Blocks only when it is asked.
Uninvited(p) ==
    /\ conn[p] # "closed" /\ p \notin Timely
    /\ Disturbances < MaxDisturbances
    /\ \E b \in Blocks : \E from \in 1 .. HeightOf(b) : \E to \in {0} \cup from .. HeightOf(b) :
            HandleBlocks(p, PieceOf(b, from, to))
    /\ uninvited' = uninvited + 1
    /\ UNCHANGED <<pending, peerTip, faults, late, switches, lost>>

\* Version, at the start of a connection and every thirty seconds.
Version(p) ==
    /\ conn[p] # "closed"
    /\ UNCHANGED <<tip, gone, conn, pending, peerTip, job, faults, late, switches, uninvited, history>>
    /\ sync' = UpdatePeer(sync, p, HeightOf(peerTip[p]))

----------------------------------------------------------------------------
(* Node::tick *)

\* The answer of a timely peer is under way; or the peer is banned, and the next
\* tick forgets it before it looks at the timeouts.
InTime(p) ==
    p \in Timely /\ (conn[p] = "banned" \/ (conn[p] = "open" /\ pending[p] # <<>>))

\* Nothing has happened in the session for SYNC_TIMEOUT_SECS.
MayExpire ==
    /\ sync.session # NoSession /\ sync.session.status = "Receiving"
    /\ ~InTime(sync.session.peer)

\* The requests whose answers may still come after a timeout: a peer that let
\* one pass answers all of them later (MaxLate times) or none.
AfterTimeout(p) ==
    \/ late' = late /\ pending' = [pending EXCEPT ![p] = <<>>]
    \/ /\ pending[p] # <<>> /\ Disturbances < MaxDisturbances
       /\ late' = late + 1 /\ UNCHANGED pending

\* Steps 3 to 5 of tick.  A throttled tick requests nothing: the last request
\* is less than two seconds old.
Tick(throttled) ==
    /\ UNCHANGED <<tip, gone, conn, peerTip, job, faults, late, switches, uninvited, history>>
    /\ \E s \in Started(sync) :
            LET t == CheckTimeouts(s, FALSE)
                silent == throttled \/ ~MayRequest(t)
            IN /\ sync' = IF silent THEN t ELSE Request(t)
               /\ pending' = IF silent THEN pending ELSE Sent(t)

\* The same tick when the session has expired: nothing can be started, for a
\* session is running, and nothing requested, for it is gone.
TimeoutTick ==
    /\ MayExpire
    /\ sync' = CheckTimeouts(sync, TRUE)
    /\ AfterTimeout(sync.session.peer)
    /\ UNCHANGED <<tip, gone, conn, peerTip, job, faults, switches, uninvited, history>>

----------------------------------------------------------------------------
(* Connections *)

Closed(p) ==
    /\ conn' = [conn EXCEPT ![p] = "closed"]
    /\ pending' = [pending EXCEPT ![p] = <<>>]
    /\ sync' = RemovePeer(sync, p)
    /\ UNCHANGED <<tip, gone, peerTip, job, late, switches, uninvited, history>>

\* process_messages removes a banned connection, and its peer from the
\* SyncManager.
RemoveBanned(p) ==
    /\ conn[p] = "banned"
    /\ Closed(p)
    /\ UNCHANGED faults

\* It also removes a connection that failed.
Disconnect(p) ==
    /\ conn[p] = "open" /\ p \notin Timely
    /\ Disturbances < MaxDisturbances /\ faults' = faults + 1
    /\ Closed(p)

\* One of two connections to a peer closes (each side may have opened one):
\* the peer leaves the SyncManager although the other connection is up, and
\* the requests on that connection are lost.
DisconnectOne(p) ==
    /\ conn[p] = "open" /\ Disturbances < MaxDisturbances
    /\ faults' = faults + 1
    /\ pending' \in {pending, [pending EXCEPT ![p] = <<>>]}
    /\ sync' = RemovePeer(sync, p)
    /\ UNCHANGED <<tip, gone, conn, peerTip, job, late, switches, uninvited, history>>

\* broadcast drops a connection on which nothing was sent or read for
\* PEER_TIMEOUT_SECS, and does not tell the SyncManager.
DropStale(p) ==
    /\ conn[p] = "open" /\ p \notin Timely
    /\ Disturbances < MaxDisturbances /\ faults' = faults + 1
    /\ conn' = [conn EXCEPT ![p] = "closed"]
    /\ pending' = [pending EXCEPT ![p] = <<>>]
    /\ UNCHANGED <<tip, gone, sync, peerTip, job, late, switches, uninvited, history>>

\* accept_connections or connect_to.
Connect(p) ==
    /\ conn[p] = "closed" /\ Disturbances < MaxDisturbances
    /\ faults' = faults + 1
    /\ conn' = [conn EXCEPT ![p] = "open"]
    /\ UNCHANGED <<tip, gone, sync, pending, peerTip, job, late, switches, uninvited, history>>

GrowsBy(p, b) ==
    /\ b \in Blocks \ (Own \cup {Genesis}) /\ Parent[b] = peerTip[p]
    /\ p \in Timely => b \notin Malformed
    /\ peerTip' = [peerTip EXCEPT ![p] = b]

\* A peer's chain grows, and its announcement of the block is lost or ignored.
PeerGrows(p) ==
    /\ \E b \in Blocks : GrowsBy(p, b)
    /\ UNCHANGED <<tip, gone, sync, conn, pending, job, faults, late, switches, uninvited, history>>

\* A peer runs the same program: it switches to another branch, or rolls back
\* to Genesis when it is sent one.
PeerReorganises(p) ==
    /\ Disturbances < MaxDisturbances /\ faults' = faults + 1
    /\ \E b \in Blocks \ Own :
            /\ p \in Timely => /\ Range(Path[b]) \cap Malformed = {}
                               /\ HeightOf(b) >= HeightOf(peerTip[p])
            /\ peerTip' = [peerTip EXCEPT ![p] = b]
    /\ UNCHANGED <<tip, gone, sync, conn, pending, job, late, switches, uninvited, history>>

\* A peer announces the block by which its chain grows (P2PMessage::Block),
\* which it does once, and the block extends our chain.
PushBlock(p) ==
    /\ conn[p] # "closed"
    /\ \E b \in Blocks :
            /\ GrowsBy(p, b) /\ Parent[b] = tip
            /\ refused' = (refused \/ b \notin Malformed \cup Acceptable(gone))
            /\ IF b \notin Acceptable(gone)
               THEN conn' = [conn EXCEPT ![p] = "banned"] /\ UNCHANGED <<tip, sync, job>>
               ELSE /\ tip' = b
                    /\ sync' = [sync EXCEPT !.local_height = HeightOf(b)]
                    /\ job' = FALSE
                    /\ UNCHANGED conn
    /\ UNCHANGED <<gone, pending, faults, late, switches, uninvited, lost>>

\* Mutant of HeightAfterSwitch: the new height is not told.
KeepLocalHeight(b) == sync
\* What the P2P layer is told after a switch to b.
HeightAfterSwitch(b) == [sync EXCEPT !.local_height = HeightOf(b)]

\* The announced block competes with a block of our chain and is heavier:
\* try_fork_switch rolls back to its parent and accepts it.  If that fails the
\* blocks are gone and the P2P layer keeps the height that they had.
PushFork(p) ==
    /\ conn[p] # "closed" /\ Disturbances < MaxDisturbances
    /\ switches' = switches + 1
    /\ \E b \in Blocks :
            /\ GrowsBy(p, b)
            /\ ~OnChain(tip, b) /\ Parent[b] # tip /\ OnChain(tip, Parent[b])
            /\ gone' = LostBy(Parent[b])
            /\ IF b \notin Acceptable(LostBy(Parent[b]))
               THEN tip' = Parent[b] /\ lost' = TRUE /\ UNCHANGED sync
               ELSE tip' = b /\ sync' = HeightAfterSwitch(b) /\ UNCHANGED lost
    /\ job' = FALSE
    /\ UNCHANGED <<conn, pending, faults, late, uninvited, refused>>

----------------------------------------------------------------------------
(* The mining thread *)

MayMine ==
    /\ ~sync.in_progress
    /\ \A p \in Usable(sync) : sync.peers[p].height <= Height
    /\ AllowSolo \/ \E p \in Peers : conn[p] # "closed"

PrepareMiningJob ==
    /\ ~job /\ MayMine
    /\ job' = TRUE
    /\ UNCHANGED <<tip, gone, sync, conn, pending, peerTip, faults, late, switches, uninvited, history>>

\* The search ends with a block.  The job is current as long as the chain has
\* not changed (chain_generation).
CommitBlock ==
    /\ job
    /\ \E b \in Own \cap Acceptable(gone) :
            /\ Parent[b] = tip
            /\ tip' = b
            /\ sync' = [sync EXCEPT !.local_height = HeightOf(b)]
    /\ job' = FALSE
    /\ UNCHANGED <<gone, conn, pending, peerTip, faults, late, switches, uninvited, history>>

----------------------------------------------------------------------------

Init ==
    /\ tip = Genesis /\ gone = {}
    /\ sync = [peers |-> <<>>, session |-> NoSession,
               in_progress |-> FALSE, local_height |-> 0]
    /\ conn = [p \in Peers |-> "open"]
    /\ pending = [p \in Peers |-> <<>>]
    /\ peerTip = StartTip
    /\ job = FALSE /\ faults = 0 /\ late = 0
    /\ switches = 0 /\ lost = FALSE /\ refused = FALSE /\ uninvited = 0

Next ==
    \/ \E p \in Peers : Version(p)
    \/ \E p \in Peers : Reply(p)
    \/ \E p \in Peers : Uninvited(p)
    \/ \E p \in Peers : PushBlock(p)
    \/ \E p \in Peers : PushFork(p)
    \/ \E p \in Peers : RemoveBanned(p)
    \/ \E p \in Peers : Disconnect(p)
    \/ \E p \in Peers : DisconnectOne(p)
    \/ \E p \in Peers : DropStale(p)
    \/ \E p \in Peers : Connect(p)
    \/ \E p \in Peers : PeerGrows(p)
    \/ \E p \in Peers : PeerReorganises(p)
    \/ \E throttled \in BOOLEAN : Tick(throttled)
    \/ TimeoutTick
    \/ PrepareMiningJob
    \/ CommitBlock

\* The node loop ticks ten times a second and the clock runs, a tick removes
\* the connections that are banned, and a timely peer goes on answering or
\* broadcasting its version.  Nothing is assumed of other peers.
Fairness ==
    /\ WF_vars(Tick(FALSE) \/ TimeoutTick)
    /\ WF_vars(\E p \in Peers : RemoveBanned(p))
    /\ \A p \in Timely : WF_vars(Reply(p) \/ Version(p))

Spec == Init /\ [][Next]_vars /\ Fairness

----------------------------------------------------------------------------
(* Properties *)

\* sync_in_progress, which stops the mining thread and every new session, is
\* set exactly while a session is alive: it cannot be left behind when a
\* session ends by its last block, a timeout, a lost peer or an error.
FlagFollowsSession ==
    sync.in_progress <=> sync.session # NoSession /\ sync.session.status # "Completed"

\* The height by which the node chooses peers and starts sessions is never above
\* that of its chain, which would hide the peers that are ahead: it may lag
\* behind after a batch that was accepted in part, and only a fork switch that
\* fails may leave it too high.
NeverBlind == ~lost => sync.local_height <= Height

\* As long as every session has waited for its answer, no announced fork was
\* taken and nobody sent a batch that was not asked for, a session never asks
\* for a block above the one that follows the node's chain, whatever is pushed,
\* mined, rolled back or answered in between.
NotAheadOfChain ==
    late = 0 /\ switches = 0 /\ uninvited = 0 /\ sync.session # NoSession =>
        sync.session.current <= Height

\* A peer that answers in time is never banned for timeouts, although
\* connections to it may close under a request.
TimelyNotBanned ==
    \A p \in Timely \cap Known(sync) : ~sync.peers[p].banned

\* Every session ends, once nothing disturbs it any more: a batch that nobody
\* asked for may restart it, and so may one of a peer that has reorganised.
SessionEnds == sync.in_progress ~> ~sync.in_progress

\* Once connections stop closing, answers stop coming late and batches come only
\* when asked for, the node reaches the height of every timely peer and stays
\* there, whichever forks it took, connections it lost and rollbacks it was
\* talked into.  Only a failed switch, or a block refused for an output that a
\* rollback has lost, may leave it behind.
CatchesUp ==
    \A p \in Timely :
        <>[](lost \/ refused \/ Height >= HeightOf(peerTip[p]))

=============================================================================

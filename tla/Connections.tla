---------------------------- MODULE Connections -----------------------------
(***************************************************************************)
(* The connection tables of several nodes that dial and accept each other: *)
(* bootnodes, addresses learned from Peers messages, limits, nodes that    *)
(* dial themselves, bans and the messages that tell of them, and the       *)
(* attempt to come back when no connection is left (P2PNode and            *)
(* PeerConnection in src/src/p2p.rs, with Node::tick and its handlers).    *)
(*                                                                         *)
(* What is abstracted, and why nothing below depends on it:                *)
(*  - a node stands for its listening address and for its peer id; the     *)
(*    random id that a connection has before its first Version is Unknown; *)
(*  - of the messages there are Version, BanPeer, one that makes the       *)
(*    receiver ban the sender ("offence": a block or a proof that is not   *)
(*    valid, a request that is too large, a limit exceeded) and Peers,     *)
(*    which no node of this program sends: an event from outside;          *)
(*  - accept_connections also puts the dialer's ephemeral address in       *)
(*    known_peers, which nobody can dial: left out, and with it the limit  *)
(*    of 1024; banned_peers is never written: left out;                    *)
(*  - the parts of tick that read, accept and reconnect are actions of     *)
(*    their own: between them only the far ends can do something.          *)
(* The SyncManager's table of peers and connections that go silent are in  *)
(* SyncSession.                                                            *)
(***************************************************************************)
EXTENDS Integers, Sequences, FiniteSets, SequencesExt

CONSTANTS
    Nodes,
    Bootnodes,     \* Bootnodes[n]: the addresses in n's configuration
    KnowsSelf,     \* nodes whose own address is in self_addrs
    MaxPeers,      \* MAX_PEERS
    PerMessage,    \* MAX_PEERS_PER_MESSAGE
    Conns,         \* bound: connections at one time
    Unknown, NoLink,
    MaxFailures,   \* bound: connections that break
    MaxOffences,   \* bound: messages that deserve a ban
    MaxGossip      \* bound: Peers messages

ASSUME ConnectionsAssumption ==
    /\ Bootnodes \in [Nodes -> SUBSET Nodes] /\ KnowsSelf \subseteq Nodes
    /\ Unknown \notin Nodes /\ NoLink \notin [from : Nodes, to : Nodes, up : BOOLEAN]
    /\ IsFiniteSet(Nodes) /\ IsFiniteSet(Conns)
    /\ {MaxPeers, MaxFailures, MaxOffences, MaxGossip} \subseteq Nat
    /\ PerMessage \in Nat \ {0}

VARIABLES
    link,       \* link[c]: who dialed whom, and whether the stream is up
    end,        \* end[c, side]: PeerConnection, with the bytes that wait for it
    known,      \* known[n]: P2PNode.known_peers
    offended,   \* history: the ends that were sent an offence
    failures, offences, gossip

vars == <<link, end, known, offended, failures, offences, gossip>>

Ends == Conns \X {"out", "in"}
Other(e) == <<e[1], IF e[2] = "out" THEN "in" ELSE "out">>
Free == {c \in Conns : link[c] = NoLink}
Owner(e) == IF e[2] = "out" THEN link[e[1]].from ELSE link[e[1]].to
Remote(e) == Owner(Other(e))

\* state: "none" (not in the peers table), "queued" (not yet accepted), "open".
Gone == [state |-> "none", id |-> Unknown, banned |-> FALSE, inbox |-> <<>>]
New(state, inbox) == [Gone EXCEPT !.state = state, !.inbox = inbox]

\* n's peers, and the addresses among them that it dialed.
Open(n) == {e \in Ends : end[e].state = "open" /\ Owner(e) = n}
Dialed(n) == {Remote(e) : e \in {x \in Open(n) : x[2] = "out"}}

Version(n) == [type |-> "version", id |-> n]
Offence == [type |-> "offence", id |-> Unknown]

\* Mutant of BanMessage: it names the node that bans.
BanMessageOwn(n, id) == [type |-> "ban", id |-> n]
\* What ban sends: it names the peer that is banned, by the id it has here.
BanMessage(n, id) == [type |-> "ban", id |-> id]

----------------------------------------------------------------------------
(* Reading and handling *)

\* PeerConnection::ban, on a connection of n.
Banned(n, p) ==
    IF p.banned THEN p
    ELSE [p EXCEPT !.banned = TRUE, !.sent = <<BanMessage(n, p.id)>>]

\* receive_message
Receive(n, p, m) ==
    CASE m.type = "version" -> [p EXCEPT !.id = m.id]
      [] m.type = "ban" /\ m.id = p.id -> Banned(n, p)
      [] OTHER -> p

\* Mutant of Handle: a node does not recognise itself.
HandleSelf(n, p, m) ==
    IF m.type = "offence" \/ (m.type = "ban" /\ m.id = p.id) THEN Banned(n, p) ELSE p
\* handle_p2p_message
Handle(n, p, m) ==
    IF \/ m.type = "offence"
       \/ m.type = "ban" /\ m.id = p.id
       \/ m.type = "version" /\ m.id = n
    THEN Banned(n, p) ELSE p

\* All that waits is read first and handled then, also what follows the message
\* that brought the ban.
Digest(n, e) ==
    LET start == [id |-> end[e].id, banned |-> end[e].banned, sent |-> <<>>]
        received == FoldLeft(LAMBDA p, m : Receive(n, p, m), start, end[e].inbox)
    IN FoldLeft(LAMBDA p, m : Handle(n, p, m), received, end[e].inbox)

Broken(e) == ~link[e[1]].up \/ end[Other(e)].state = "none"

\* Mutant of Removed: a banned connection stays.
RemovedBroken(e) == Broken(e)
\* What process_messages removes: messages read from it before are not handled.
Removed(e) == end[e].banned \/ Broken(e)

HangUp(ends) ==
    link' = [c \in Conns |-> IF ends[<<c, "out">>].state = "none" /\ ends[<<c, "in">>].state = "none"
                             THEN NoLink ELSE link[c]]

\* process_messages and the dispatch of what it returns.
ReadAll(n) ==
    LET kept == {e \in Open(n) : ~Removed(e)}
        digest == [e \in kept |-> Digest(n, e)]
        waiting(e) == (IF e \in kept THEN <<>> ELSE end[e].inbox)
                      \o (IF Other(e) \in kept THEN digest[Other(e)].sent ELSE <<>>)
    IN /\ \E e \in Open(n) : Removed(e) \/ end[e].inbox # <<>>
       /\ end' = [e \in Ends |->
            IF e \in kept
            THEN [state |-> "open", id |-> digest[e].id, banned |-> digest[e].banned,
                  inbox |-> waiting(e)]
            ELSE IF e \in Open(n) \/ end[e].state = "none" THEN Gone
            ELSE [end[e] EXCEPT !.inbox = waiting(e)]]
       /\ HangUp(end')
       /\ offended' = {e \in offended : link'[e[1]] # NoLink}
       /\ UNCHANGED <<known, failures, offences, gossip>>

----------------------------------------------------------------------------
(* Dialing and accepting *)

\* connect_to for all in T: never a known own address, never one that is dialed.
Dial(n, T) ==
    \E targets \in {{t \in T \ Dialed(n) : ~(t = n /\ n \in KnowsSelf)}} :
        /\ Cardinality(targets) <= Cardinality(Free)
        /\ \E slot \in {CHOOSE f \in [targets -> Free] : IsInjective(f)} :
             LET target(c) == CHOOSE t \in targets : slot[t] = c
             IN /\ link' = [c \in Conns |->
                     IF c \in Range(slot) THEN [from |-> n, to |-> target(c), up |-> TRUE] ELSE link[c]]
                /\ end' = [e \in Ends |->
                     IF e[1] \notin Range(slot) THEN end[e]
                     ELSE IF e[2] = "out" THEN New("open", <<>>) ELSE New("queued", <<Version(n)>>)]
        /\ known' = [known EXCEPT ![n] = @ \cup targets]

\* accept_connections takes one: over the limit the stream is dropped.
Accept(e) ==
    /\ end[e].state = "queued"
    /\ end' = IF Cardinality(Open(Owner(e))) >= MaxPeers
              THEN [end EXCEPT ![e] = Gone]
              ELSE [end EXCEPT ![e].state = "open",
                               ![Other(e)].inbox = IF end[Other(e)].state = "none" THEN @
                                                   ELSE Append(@, Version(Owner(e)))]
    /\ HangUp(end')
    /\ offended' = {x \in offended : end'[x].state # "none"}
    /\ UNCHANGED <<known, failures, offences, gossip>>

\* Step 3b of tick, every thirty seconds, and the start of the node.
Reconnect(n) ==
    /\ Open(n) = {}
    /\ Bootnodes[n] # {}
    /\ Dial(n, Bootnodes[n])
    /\ UNCHANGED <<offended, failures, offences, gossip>>

\* Mutant of MayDial: there is always room.
AlwaysDial(n) == TRUE
\* Asked once, before the first of the new addresses is dialed.
MayDial(n) == Cardinality(Open(n)) < MaxPeers

\* P2PMessage::Peers, of which the first PerMessage addresses count.
Gossip(n, S) ==
    /\ gossip < MaxGossip /\ gossip' = gossip + 1
    /\ Open(n) # {} /\ S # {} /\ Cardinality(S) <= PerMessage
    /\ LET news == {t \in S \ (known[n] \cup Dialed(n)) : ~(t = n /\ n \in KnowsSelf)}
       IN IF MayDial(n) THEN Dial(n, news)
          ELSE known' = [known EXCEPT ![n] = @ \cup news] /\ UNCHANGED <<link, end>>
    /\ UNCHANGED <<offended, failures, offences>>

----------------------------------------------------------------------------
(* What goes wrong *)

\* The owner of Other(e) sends what e's owner answers with a ban.
Offend(e) ==
    /\ offences < MaxOffences /\ offences' = offences + 1
    /\ end[e].state # "none"
    /\ end[Other(e)].state = "open" /\ ~end[Other(e)].banned
    /\ end' = [end EXCEPT ![e].inbox = Append(@, Offence)]
    /\ offended' = offended \cup {e}
    /\ UNCHANGED <<link, known, failures, gossip>>

Fail(c) ==
    /\ failures < MaxFailures /\ failures' = failures + 1
    /\ c \notin Free /\ link[c].up
    /\ link' = [link EXCEPT ![c].up = FALSE]
    /\ UNCHANGED <<end, known, offended, offences, gossip>>

----------------------------------------------------------------------------

Init ==
    /\ link = [c \in Conns |-> NoLink]
    /\ end = [e \in Ends |-> Gone]
    /\ known = [n \in Nodes |-> {}]
    /\ offended = {}
    /\ failures = 0 /\ offences = 0 /\ gossip = 0

Next ==
    \/ \E n \in Nodes : ReadAll(n)
    \/ \E e \in Ends : Accept(e)
    \/ \E n \in Nodes : Reconnect(n)
    \/ \E n \in Nodes, S \in SUBSET Nodes : Gossip(n, S)
    \/ \E e \in Ends : Offend(e)
    \/ \E c \in Conns : Fail(c)

\* Every node ticks ten times a second, its clock runs, and the backlog of its
\* listener is a queue.
Fairness ==
    /\ \A n \in Nodes : WF_vars(ReadAll(n)) /\ WF_vars(Reconnect(n))
    /\ \A e \in Ends : WF_vars(Accept(e))

Spec == Init /\ [][Next]_vars /\ Fairness

----------------------------------------------------------------------------
(* Properties *)

\* The table of a node has a bound, although addresses are dialed without
\* counting them and MAX_PEERS is asked only before the first: it is exceeded by
\* at most one message's worth of addresses.
SlotsBounded == \A n \in Nodes :
    Cardinality(Open(n)) < MaxPeers + PerMessage \/ Open(n) \subseteq Conns \X {"out"}

\* A node bans a connection for what was sent on it or because it leads to
\* itself, never because the other side has banned it: bans do not echo.
BansDoNotEcho == \A e \in Ends :
    end[e].banned => e \in offended \/ Remote(e) = Owner(e)

\* A node that dialed itself under an address it does not know as its own finds
\* out, and both ends of the connection go.
SelfLink(c) == link[c] # NoLink /\ link[c].from = link[c].to
SelfLinksEnd == \A c \in Conns : SelfLink(c) ~> ~SelfLink(c)

\* The connections of n to others that it may still send on.
Usable(n) == {e \in Open(n) : ~end[e].banned /\ Remote(e) # n}

\* A node with a bootnode other than itself is connected again and again,
\* whatever bans, failures and dials of its own address happened, unless the
\* bootnode is full.
Rejoins == \A n \in Nodes :
    Bootnodes[n] \ {n} # {} =>
        []<>(Usable(n) # {} \/ \E b \in Bootnodes[n] \ {n} : Cardinality(Open(b)) >= MaxPeers)

=============================================================================

-------------------------- MODULE Connections_proofs --------------------------
(***************************************************************************)
(* Proofs about Connections, for every set of nodes, bootnodes and         *)
(* connections, every limit and every interleaving: bans do not echo, and  *)
(* the table of a node has a bound.                                        *)
(*                                                                         *)
(* The argument for bans: what waits on a connection says the truth about  *)
(* its two ends (Truthful), so a BanPeer names its receiver, and a peer is *)
(* known by no name but its own.  They are the same only on a connection of*)
(* a node to itself.  The name is known before anything is handled, because*)
(* a version comes first (Greeted).  Digest reads and handles by two folds *)
(* over the inbox; both go through it message by message (FoldsGo).        *)
(*                                                                         *)
(* The argument for the bound: only Accept, Reconnect and Gossip make a    *)
(* table larger, the first below the limit, the second from nothing and by *)
(* dialing only, the third from below the limit by one entry for each      *)
(* address.                                                                *)
(***************************************************************************)
EXTENDS Connections, FiniteSetTheorems, FunctionTheorems, WellFoundedInduction, TLAPS

----------------------------------------------------------------------------
(* The invariant *)

Link == [from : Nodes, to : Nodes, up : BOOLEAN]
Message == [type : {"version", "offence", "ban"}, id : Nodes \cup {Unknown}]
Connection == [state : {"none", "queued", "open"}, id : Nodes \cup {Unknown},
               banned : BOOLEAN, inbox : Seq(Message)]

ConnectionsType ==
    /\ link \in [Conns -> Link \cup {NoLink}]
    /\ end \in [Ends -> Connection]

\* What may justify a ban.
Cause(e) == e \in offended \/ Remote(e) = Owner(e)

\* A version names its sender, a ban its receiver, and an offence was sent.
Said(e, m, sent) ==
    /\ m.type = "version" => m.id = Remote(e)
    /\ m.type = "ban" => m.id = Owner(e)
    /\ m.type = "offence" => e \in sent
Truthful(e, m) == Said(e, m, offended)

\* Nobody is heard before the version: as long as the peer has no name, nothing
\* came, or what came starts with a version.
Greeted(e) ==
    end[e].id = Unknown /\ (end[Other(e)].state = "open" \/ end[e].inbox # <<>>) =>
        end[e].inbox # <<>> /\ end[e].inbox[1].type = "version"

EndOK(e) ==
    IF end[e].state = "none" THEN ~end[e].banned
    ELSE /\ link[e[1]] \in Link
         /\ end[e].id \in {Unknown, Remote(e)}
         /\ \A k \in 1 .. Len(end[e].inbox) : Truthful(e, end[e].inbox[k])
         /\ Greeted(e)
         /\ end[e].banned => Cause(e) /\ end[e].id # Unknown

ConnectionsInv == ConnectionsType /\ \A e \in Ends : EndOK(e)

----------------------------------------------------------------------------
(* Lemmas *)

LEMMA EndsFacts ==
    ASSUME NEW e \in Ends
    PROVE  /\ Other(e) \in Ends /\ Other(Other(e)) = e /\ Other(e) # e
           /\ Other(e)[1] = e[1] /\ e[1] \in Conns
BY DEF Ends, Other

\* Both ends of a connection belong to nodes.
LEMMA Owners ==
    ASSUME ConnectionsInv, NEW e \in Ends, end[e].state # "none"
    PROVE  /\ link[e[1]] \in Link /\ Owner(e) \in Nodes /\ Remote(e) \in Nodes
           /\ Owner(Other(e)) = Remote(e) /\ Remote(Other(e)) = Owner(e)
<1>1. link[e[1]] \in Link
    BY DEF ConnectionsInv, EndOK
<1>2. Other(e)[1] = e[1] /\ Other(Other(e)) = e
    BY EndsFacts
<1>3. QED
    BY <1>1, <1>2 DEF Owner, Remote, Link

LEMMA LeastNumber ==
    ASSUME NEW S \in SUBSET Nat, S # {}
    PROVE  \E m \in S : \A k \in S : m <= k
<1> DEFINE R == OpToRel(<, Nat)
<1>1. IsWellFoundedOn(R, Nat)
    BY NatLessThanWellFounded
<1>2. \A k, m \in Nat : k < m => <<k, m>> \in R
    BY DEF OpToRel
<1> HIDE DEF R
<1>3. PICK m \in S : \A k \in S : ~(<<k, m>> \in R)
    BY <1>1, WFMin
<1>4. ASSUME NEW k \in S PROVE m <= k
  <2>1. k \in Nat /\ m \in Nat
    OBVIOUS
  <2>2. ~(k < m)
    BY <1>2, <1>3, <2>1
  <2>3. QED
    BY <2>1, <2>2
<1>5. QED
    BY <1>4

\* A property of finite sets that fails for some set fails for one all of whose
\* smaller subsets have it.
LEMMA SmallestSet ==
    ASSUME NEW D, NEW Bad \in SUBSET SUBSET D, Bad # {}, \A s \in Bad : IsFiniteSet(s)
    PROVE  \E s \in Bad : \A x \in s : s \ {x} \notin Bad
<1> DEFINE N == {n \in Nat : \E s \in Bad : Cardinality(s) = n}
<1>1. N \in SUBSET Nat /\ N # {}
    BY FS_CardinalityType
<1>2. PICK m \in N : \A k \in N : m <= k
    BY <1>1, LeastNumber
<1>3. PICK s \in Bad : Cardinality(s) = m
    BY <1>2
<1>4. ASSUME NEW x \in s, s \ {x} \in Bad PROVE FALSE
  <2>1. Cardinality(s \ {x}) = m - 1 /\ m \in Nat
    BY <1>2, <1>3, FS_RemoveElement
  <2>2. Cardinality(s \ {x}) \in Nat
    BY <1>4, FS_CardinalityType
  <2>3. m - 1 \in N
    BY <1>4, <2>1, <2>2
  <2>4. m <= m - 1
    BY <1>2, <2>3
  <2>5. QED
    BY <2>1, <2>4
<1>5. QED
    BY <1>4

\* A non-empty finite set of numbers has a last one.
LEMMA LastOne ==
    ASSUME NEW n \in Nat, NEW s \in SUBSET (1 .. n), s # {}
    PROVE  Max(s) \in s
<1> DEFINE S == {k \in Nat : k <= n /\ n - k \in s}
<1>1. \A k \in s : k \in Nat /\ k <= n /\ n - k \in Nat /\ n - (n - k) = k
    OBVIOUS
<1>2. S # {}
  <2>1. PICK k \in s : TRUE
    OBVIOUS
  <2>2. n - k \in S
    BY <1>1, <2>1
  <2>3. QED
    BY <2>2
<1>3. PICK m \in S : \A k \in S : m <= k
    BY <1>2, LeastNumber
<1>4. ASSUME NEW k \in s PROVE n - m >= k
  <2>1. n - k \in S
    BY <1>1
  <2>2. m \in Nat /\ m <= n - k
    BY <1>3, <2>1
  <2>3. QED
    BY <1>1, <2>2
<1>5. \E x \in s : \A y \in s : x >= y
    BY <1>4
<1>6. QED
    BY <1>5 DEF Max

----------------------------------------------------------------------------
(* Reading and handling: the two folds of Digest *)

\* One step of either fold.
Take(reading, n, p, m) == IF reading THEN Receive(n, p, m) ELSE Handle(n, p, m)

IsFold(reading, n, base, seq, h) ==
    h = [s \in SUBSET DOMAIN seq |->
            IF s = {} THEN base ELSE Take(reading, n, h[s \ {Max(s)}], seq[Max(s)])]

\* The functions by which the community fold goes through an inbox.
Reading(n, base, seq) ==
    CHOOSE h : h = [s \in SUBSET DOMAIN seq |->
        IF s = {} THEN base
        ELSE LET x == Max(s) IN Receive(n, h[s \ {x}], seq[x])]
Handling(n, base, seq) ==
    CHOOSE h : h = [s \in SUBSET DOMAIN seq |->
        IF s = {} THEN base
        ELSE LET x == Max(s) IN Handle(n, h[s \ {x}], seq[x])]

LEMMA DigestFolds ==
    ASSUME NEW n, NEW e
    PROVE  LET start == [id |-> end[e].id, banned |-> end[e].banned, sent |-> <<>>]
               D == DOMAIN end[e].inbox
           IN Digest(n, e) = Handling(n, Reading(n, start, end[e].inbox)[D], end[e].inbox)[D]
BY DEF Digest, FoldLeft, MapThenFoldSet, Reading, Handling

\* The recursion of either fold defines a function: by the size of the subsets.
LEMMA FoldExists ==
    ASSUME NEW reading \in BOOLEAN, NEW n, NEW base, NEW M, NEW seq \in Seq(M)
    PROVE  \E h : IsFold(reading, n, base, seq, h)
<1> DEFINE S == DOMAIN seq
           Small(k) == {s \in SUBSET S : Cardinality(s) <= k}
           Rule(h, s) == IF s = {} THEN base
                         ELSE Take(reading, n, h[s \ {Max(s)}], seq[Max(s)])
           Piece(h, k) == h = [s \in Small(k) |-> Rule(h, s)]
           Bad == {k \in Nat : \A h : ~Piece(h, k)}
<1>1. S = 1 .. Len(seq) /\ Len(seq) \in Nat /\ IsFiniteSet(S)
  <2>1. S = 1 .. Len(seq) /\ Len(seq) \in Nat /\ 1 \in Int /\ Len(seq) \in Int
    OBVIOUS
  <2>2. QED
    BY <2>1, FS_Interval
<1>2. \A s \in SUBSET S : IsFiniteSet(s) /\ Cardinality(s) \in Nat
  <2> HIDE DEF S
  <2>1. QED
    BY <1>1, FS_Subset, FS_CardinalityType
<1>3. \A s \in SUBSET S : s # {} => Max(s) \in s
    BY <1>1, LastOne
<1> HIDE DEF S
<1>4. \A s \in SUBSET S : s # {} =>
          Cardinality(s \ {Max(s)}) = Cardinality(s) - 1 /\ s \ {Max(s)} \in SUBSET S
    BY <1>2, <1>3, FS_RemoveElement
<1>5. Bad = {}
  <2>1. SUFFICES ASSUME Bad # {} PROVE FALSE
    OBVIOUS
  <2>2. PICK k \in Bad : \A i \in Bad : k <= i
    BY <2>1, LeastNumber
  <2>3. k \in Nat /\ \A h : ~Piece(h, k)
    OBVIOUS
  <2>4. CASE k = 0
    <3> DEFINE z == [s \in Small(0) |-> base]
    <3>1. \A s \in Small(0) : s = {}
        BY <1>2, FS_EmptySet
    <3>2. Piece(z, k)
        BY <2>4, <3>1
    <3> HIDE DEF z, Piece
    <3>3. QED
        BY <2>3, <3>2
  <2>5. CASE k # 0
    <3>1. k - 1 \in Nat /\ k - 1 \notin Bad
      <4> HIDE DEF Bad
      <4>1. QED
        BY <2>2, <2>3, <2>5
    <3>2. PICK h : Piece(h, k - 1)
        BY <3>1
    <3> DEFINE g == [s \in Small(k) |-> Rule(h, s)]
    <3>3. \A s \in Small(k) : s \in SUBSET S /\ Cardinality(s) \in Nat /\ Cardinality(s) <= k
        BY <1>2
    <3>4. \A s \in Small(k - 1) : s \in Small(k)
        BY <1>2, <2>3, <3>1
    <3>5. \A s \in Small(k - 1) : g[s] = h[s]
        BY <3>2, <3>4
    <3>6. ASSUME NEW s \in Small(k), s # {}
          PROVE  g[s \ {Max(s)}] = h[s \ {Max(s)}]
      <4>1. s \ {Max(s)} \in Small(k - 1)
        BY <1>4, <2>3, <3>1, <3>3, <3>6
      <4>2. QED
        BY <3>5, <4>1
    <3>7. \A s \in Small(k) : Rule(g, s) = Rule(h, s)
      <4> HIDE DEF g, Small
      <4>1. QED
        BY <3>6
    <3>8. Piece(g, k)
      <4>1. \A s \in Small(k) : g[s] = Rule(h, s)
        OBVIOUS
      <4>2. g = [s \in Small(k) |-> g[s]]
        OBVIOUS
      <4> HIDE DEF g, Small, Rule
      <4>3. QED
        BY <3>7, <4>1, <4>2
    <3> HIDE DEF g, Piece
    <3>9. QED
        BY <2>3, <3>8
  <2>6. QED
    BY <2>4, <2>5
<1>6. \E h : Piece(h, Cardinality(S))
  <2>1. Cardinality(S) \in Nat /\ Cardinality(S) \notin Bad
    BY <1>2, <1>5
  <2> HIDE DEF Piece
  <2>2. QED
    BY <2>1
<1>7. Small(Cardinality(S)) = SUBSET S
    BY <1>1, FS_Subset, <1>2
<1>8. QED
    BY <1>6, <1>7 DEF IsFold, S

\* So the folds go through the inbox from its first message on.
LEMMA FoldsGo ==
    ASSUME NEW n, NEW base, NEW M, NEW seq \in Seq(M)
    PROVE  /\ IsFold(TRUE, n, base, seq, Reading(n, base, seq))
           /\ IsFold(FALSE, n, base, seq, Handling(n, base, seq))
<1>1. PICK h : IsFold(TRUE, n, base, seq, h)
    BY FoldExists
<1>2. h = [s \in SUBSET DOMAIN seq |->
            IF s = {} THEN base
            ELSE LET x == Max(s) IN Receive(n, h[s \ {x}], seq[x])]
    BY <1>1 DEF IsFold, Take
<1>3. Reading(n, base, seq) = [s \in SUBSET DOMAIN seq |->
            IF s = {} THEN base
            ELSE LET x == Max(s) IN Receive(n, Reading(n, base, seq)[s \ {x}], seq[x])]
    BY <1>2 DEF Reading
<1>4. PICK g : IsFold(FALSE, n, base, seq, g)
    BY FoldExists
<1>5. g = [s \in SUBSET DOMAIN seq |->
            IF s = {} THEN base
            ELSE LET x == Max(s) IN Handle(n, g[s \ {x}], seq[x])]
    BY <1>4 DEF IsFold, Take
<1>6. Handling(n, base, seq) = [s \in SUBSET DOMAIN seq |->
            IF s = {} THEN base
            ELSE LET x == Max(s) IN Handle(n, Handling(n, base, seq)[s \ {x}], seq[x])]
    BY <1>5 DEF Handling
<1>7. QED
    BY <1>3, <1>6 DEF IsFold, Take


----------------------------------------------------------------------------
(* What reading and handling make of a connection *)

PeerRecord == [id : Nodes \cup {Unknown}, banned : BOOLEAN, sent : Seq(Message)]

\* The connection e, half read: a ban has its cause, and only a peer whose name
\* is known is banned, under that name.
FineSoFar(e, p) ==
    /\ p \in PeerRecord
    /\ p.id \in {Unknown, Remote(e)}
    /\ p.banned => Cause(e) /\ p.id # Unknown
    /\ p.sent \in {<<>>, <<BanMessage(Owner(e), Remote(e))>>}

LEMMA BanKeepsFine ==
    ASSUME NEW e, Remote(e) \in Nodes, Cause(e),
           NEW p, FineSoFar(e, p), p.id # Unknown
    PROVE  FineSoFar(e, Banned(Owner(e), p)) /\ Banned(Owner(e), p).id = p.id
<1>1. p.id = Remote(e) /\ p \in PeerRecord
    BY DEF FineSoFar
<1>2. CASE p.banned
    BY <1>2 DEF Banned
<1>3. CASE ~p.banned
  <2>1. Banned(Owner(e), p) =
            [p EXCEPT !.banned = TRUE, !.sent = <<BanMessage(Owner(e), p.id)>>]
    BY <1>3 DEF Banned
  <2>2. BanMessage(Owner(e), p.id) \in Message
    BY <1>1 DEF BanMessage, Message
  <2>3. <<BanMessage(Owner(e), p.id)>> \in Seq(Message)
    BY <2>2
  <2>4. Banned(Owner(e), p) \in PeerRecord
    BY <1>1, <2>1, <2>3 DEF PeerRecord
  <2>5. /\ Banned(Owner(e), p).id = p.id /\ Banned(Owner(e), p).banned
        /\ Banned(Owner(e), p).sent = <<BanMessage(Owner(e), p.id)>>
    BY <1>1, <2>1 DEF PeerRecord
  <2>6. QED
    BY <1>1, <2>4, <2>5 DEF FineSoFar
<1>4. QED
    BY <1>2, <1>3

\* receive_message: a ban that names the id this peer has here was sent by the
\* peer about us, so the peer is ourselves.
LEMMA ReceiveKeepsFine ==
    ASSUME NEW e, Remote(e) \in Nodes, Owner(e) \in Nodes,
           NEW m \in Message, Truthful(e, m),
           NEW p, FineSoFar(e, p)
    PROVE  /\ FineSoFar(e, Receive(Owner(e), p, m))
           /\ m.type = "version" \/ p.id = Remote(e) =>
                 Receive(Owner(e), p, m).id = Remote(e)
<1>0. Unknown \notin Nodes
    BY ConnectionsAssumption
<1>1. CASE m.type = "version"
  <2>1. Receive(Owner(e), p, m) = [p EXCEPT !.id = m.id] /\ m.id = Remote(e)
    BY <1>1 DEF Receive, Truthful, Said
  <2>2. QED
    BY <1>0, <2>1 DEF FineSoFar, PeerRecord
<1>2. CASE m.type = "ban" /\ m.id = p.id
  <2>1. Receive(Owner(e), p, m) = Banned(Owner(e), p)
    BY <1>2 DEF Receive
  <2>2. p.id = Owner(e)
    BY <1>2 DEF Truthful, Said
  <2>3. p.id # Unknown /\ p.id = Remote(e)
    BY <1>0, <2>2 DEF FineSoFar
  <2>4. Cause(e)
    BY <2>2, <2>3 DEF Cause
  <2>5. QED
    BY <2>1, <2>3, <2>4, BanKeepsFine
<1>3. CASE m.type # "version" /\ ~(m.type = "ban" /\ m.id = p.id)
  <2>1. Receive(Owner(e), p, m) = p
    BY <1>3 DEF Receive
  <2>2. QED
    BY <1>3, <2>1
<1>4. QED
    BY <1>1, <1>2, <1>3

\* handle_p2p_message: a connection is banned for an offence, or because it
\* leads to ourselves.
LEMMA HandleKeepsFine ==
    ASSUME NEW e, Remote(e) \in Nodes, Owner(e) \in Nodes,
           NEW m \in Message, Truthful(e, m),
           NEW p, FineSoFar(e, p), p.id = Remote(e)
    PROVE  /\ FineSoFar(e, Handle(Owner(e), p, m))
           /\ Handle(Owner(e), p, m).id = Remote(e)
<1>0. p.id # Unknown
    BY ConnectionsAssumption
<1> DEFINE offends == \/ m.type = "offence"
                      \/ m.type = "ban" /\ m.id = p.id
                      \/ m.type = "version" /\ m.id = Owner(e)
<1>1. CASE offends
  <2>1. Handle(Owner(e), p, m) = Banned(Owner(e), p)
    BY <1>1 DEF Handle
  <2>2. Cause(e)
    BY <1>1 DEF Truthful, Said, Cause
  <2>3. QED
    BY <1>0, <2>1, <2>2, BanKeepsFine
<1>2. CASE ~offends
  <2>1. Handle(Owner(e), p, m) = p
    BY <1>2 DEF Handle
  <2>2. QED
    BY <2>1
<1>3. QED
    BY <1>1, <1>2

\* All of what waits on a connection of ours.
LEMMA DigestFine ==
    ASSUME ConnectionsInv, NEW e \in Ends, end[e].state = "open"
    PROVE  /\ FineSoFar(e, Digest(Owner(e), e))
           /\ end[e].id # Unknown \/ end[e].inbox # <<>> => Digest(Owner(e), e).id = Remote(e)
           /\ end[e].inbox = <<>> => Digest(Owner(e), e).id = end[e].id
<1> DEFINE inbox == end[e].inbox
           D == DOMAIN inbox
           n == Owner(e)
           start == [id |-> end[e].id, banned |-> end[e].banned, sent |-> <<>>]
           R == Reading(n, start, inbox)
           H == Handling(n, R[D], inbox)
<1>1. /\ end[e] \in Connection /\ inbox \in Seq(Message)
      /\ D = 1 .. Len(inbox) /\ Len(inbox) \in Nat
      /\ n \in Nodes /\ Remote(e) \in Nodes
    BY Owners DEF ConnectionsInv, ConnectionsType, Connection
<1>2. /\ end[e].id \in {Unknown, Remote(e)} /\ Greeted(e)
      /\ \A k \in D : inbox[k] \in Message /\ Truthful(e, inbox[k])
      /\ end[e].banned => Cause(e) /\ end[e].id # Unknown
    BY <1>1 DEF ConnectionsInv, EndOK
<1>3. Digest(n, e) = H[D]
    BY DigestFolds
<1>4. FineSoFar(e, start) /\ start.id = end[e].id
    BY <1>1, <1>2 DEF FineSoFar, PeerRecord, Connection
<1>5. inbox # <<>> => 1 \in D /\ (end[e].id = Unknown => inbox[1].type = "version")
    BY <1>1, <1>2 DEF Greeted
<1>6. IsFold(TRUE, n, start, inbox, R) /\ IsFold(FALSE, n, R[D], inbox, H)
    BY <1>1, FoldsGo
<1>7. /\ R[{}] = start
      /\ \A s \in SUBSET D : s # {} => R[s] = Receive(n, R[s \ {Max(s)}], inbox[Max(s)])
    BY <1>6 DEF IsFold, Take
<1>8. /\ H[{}] = R[D]
      /\ \A s \in SUBSET D : s # {} => H[s] = Handle(n, H[s \ {Max(s)}], inbox[Max(s)])
    BY <1>6 DEF IsFold, Take
<1>9. /\ \A s \in SUBSET D : IsFiniteSet(s)
      /\ \A s \in SUBSET D : s # {} => Max(s) \in s
  <2>1. IsFiniteSet(D)
    <3>1. 1 \in Int /\ Len(inbox) \in Int
        BY <1>1
    <3>2. QED
        BY <1>1, <3>1, FS_Interval
  <2> HIDE DEF D
  <2>2. QED
    BY <1>1, <2>1, FS_Subset, LastOne
<1> HIDE DEF R, H, start, D, inbox, n
<1>10. \A s \in SUBSET D :
          /\ FineSoFar(e, R[s])
          /\ end[e].id # Unknown \/ 1 \in s => R[s].id = Remote(e)
  <2> DEFINE Good(s) == /\ FineSoFar(e, R[s])
                        /\ end[e].id # Unknown \/ 1 \in s => R[s].id = Remote(e)
             Bad == {s \in SUBSET D : ~Good(s)}
  <2>1. SUFFICES ASSUME Bad # {} PROVE FALSE
    OBVIOUS
  <2>2. PICK s \in Bad : \A x \in s : s \ {x} \notin Bad
    BY <1>9, <2>1, SmallestSet
  <2>3. s # {}
    BY <1>2, <1>4, <1>7, <2>2
  <2> DEFINE x == Max(s)
             r == s \ {x}
  <2>4. x \in s /\ s \in SUBSET D /\ r \in SUBSET D
    BY <1>9, <2>3
  <2>5. FineSoFar(e, R[r]) /\ (end[e].id # Unknown \/ 1 \in r => R[r].id = Remote(e))
    BY <2>2, <2>4
  <2>6. R[s] = Receive(n, R[r], inbox[x])
    BY <1>7, <2>3, <2>4
  <2>7. inbox[x] \in Message /\ Truthful(e, inbox[x])
    BY <1>2, <2>4 DEF inbox, D
  <2>8. /\ FineSoFar(e, R[s])
        /\ inbox[x].type = "version" \/ R[r].id = Remote(e) => R[s].id = Remote(e)
    BY <1>1, <2>5, <2>6, <2>7, ReceiveKeepsFine DEF n
  <2>9. ASSUME 1 \in s, end[e].id = Unknown PROVE R[s].id = Remote(e)
    <3>1. inbox # <<>>
        BY <1>1, <2>4, <2>9 DEF D, inbox
    <3>2. CASE x = 1
        BY <1>5, <2>8, <2>9, <3>1, <3>2
    <3>3. CASE x # 1
        BY <2>5, <2>8, <2>9, <3>3
    <3>4. QED
        BY <3>2, <3>3
  <2>10. QED
    BY <2>2, <2>5, <2>8, <2>9
<1>11. /\ FineSoFar(e, R[D])
       /\ end[e].id # Unknown \/ inbox # <<>> => R[D].id = Remote(e)
    BY <1>5, <1>10
<1>12. CASE inbox = <<>>
  <2>1. D = {}
    BY <1>12 DEF D
  <2>2. H[D] = start
    BY <1>7, <1>8, <2>1
  <2>3. QED
    BY <1>2, <1>3, <1>4, <1>12, <2>2 DEF n, inbox
<1>13. CASE inbox # <<>>
  <2> DEFINE Bad == {s \in SUBSET D : ~(FineSoFar(e, H[s]) /\ H[s].id = Remote(e))}
  <2>1. Bad = {}
    <3>1. SUFFICES ASSUME Bad # {} PROVE FALSE
        OBVIOUS
    <3>2. PICK s \in Bad : \A x \in s : s \ {x} \notin Bad
        BY <1>9, <3>1, SmallestSet
    <3>3. s # {}
        BY <1>8, <1>11, <1>13, <3>2
    <3> DEFINE x == Max(s)
               r == s \ {x}
    <3>4. x \in s /\ s \in SUBSET D /\ r \in SUBSET D
        BY <1>9, <3>3
    <3>5. FineSoFar(e, H[r]) /\ H[r].id = Remote(e)
        BY <3>2, <3>4
    <3>6. H[s] = Handle(n, H[r], inbox[x])
        BY <1>8, <3>3, <3>4
    <3>7. inbox[x] \in Message /\ Truthful(e, inbox[x])
        BY <1>2, <3>4 DEF inbox, D
    <3>8. FineSoFar(e, H[s]) /\ H[s].id = Remote(e)
        BY <1>1, <3>5, <3>6, <3>7, HandleKeepsFine DEF n
    <3>9. QED
        BY <3>2, <3>8
  <2>2. FineSoFar(e, H[D]) /\ H[D].id = Remote(e)
    BY <2>1
  <2>3. QED
    BY <1>3, <1>13, <2>2 DEF n, inbox
<1>14. QED
    BY <1>12, <1>13


----------------------------------------------------------------------------
(* Steps *)

\* Something is appended to what waits at an end, everything else that the
\* invariant says of it staying as it was.
LEMMA EndMoves ==
    ASSUME ConnectionsInv, NEW e \in Ends,
           end[e].state # "none", end'[e].state # "none",
           link'[e[1]] \in Link,
           link'[e[1]].from = link[e[1]].from, link'[e[1]].to = link[e[1]].to,
           e \in offended => e \in offended',
           end'[e].id = end[e].id, end'[e].banned = end[e].banned,
           NEW more \in Seq(Message), end'[e].inbox = end[e].inbox \o more,
           \A k \in 1 .. Len(more) : Said(e, more[k], offended'),
           \/ end[Other(e)].state = "open"
           \/ end'[Other(e)].state # "open" /\ more = <<>>
           \/ more # <<>> /\ more[1].type = "version"
    PROVE  EndOK(e)'
<1> DEFINE inbox == end[e].inbox
<1>1. /\ inbox \in Seq(Message) /\ end[e].id \in {Unknown, Remote(e)} /\ Greeted(e)
      /\ \A k \in 1 .. Len(inbox) : Truthful(e, inbox[k])
      /\ end[e].banned => Cause(e) /\ end[e].id # Unknown
    BY DEF ConnectionsInv, ConnectionsType, Connection, EndOK
<1>2. Owner(e)' = Owner(e) /\ Remote(e)' = Remote(e)
  <2>1. Other(e)[1] = e[1] /\ e[1] \in Conns
    BY EndsFacts
  <2>2. QED
    BY <2>1 DEF Owner, Remote, Other
<1>3. \A m : Truthful(e, m) => Said(e, m, offended')
    BY DEF Truthful, Said
<1>4. /\ Len(inbox \o more) = Len(inbox) + Len(more) /\ Len(inbox) \in Nat /\ Len(more) \in Nat
      /\ \A k \in 1 .. Len(inbox) : (inbox \o more)[k] = inbox[k]
      /\ \A k \in Len(inbox) + 1 .. Len(inbox) + Len(more) :
            (inbox \o more)[k] = more[k - Len(inbox)]
    BY <1>1
<1> HIDE DEF inbox
<1>5. ASSUME NEW k \in 1 .. Len(end'[e].inbox)
      PROVE  Said(e, end'[e].inbox[k], offended')
  <2>1. end'[e].inbox = inbox \o more
    BY DEF inbox
  <2>2. CASE k \in 1 .. Len(inbox)
    BY <1>1, <1>3, <1>4, <2>1, <2>2
  <2>3. CASE k \in Len(inbox) + 1 .. Len(inbox) + Len(more)
    <3>1. k - Len(inbox) \in 1 .. Len(more)
        BY <1>4, <2>3
    <3>2. Said(e, more[k - Len(inbox)], offended')
        BY <3>1
    <3>3. end'[e].inbox[k] = more[k - Len(inbox)]
        BY <1>4, <2>1, <2>3
    <3>4. QED
        BY <3>2, <3>3
  <2>4. QED
    BY <1>4, <1>5, <2>1, <2>2, <2>3
<1>6. Greeted(e)'
  <2>1. SUFFICES ASSUME end[e].id = Unknown,
                        end'[Other(e)].state = "open" \/ inbox \o more # <<>>
                 PROVE  inbox \o more # <<>> /\ (inbox \o more)[1].type = "version"
    BY DEF Greeted, inbox
  <2>2. inbox # <<>> => inbox[1].type = "version"
    BY <1>1, <2>1 DEF Greeted, inbox
  <2>3. CASE inbox # <<>>
    <3>1. 1 \in 1 .. Len(inbox)
        BY <1>1, <2>3
    <3>2. QED
        BY <1>1, <1>4, <2>2, <2>3, <3>1
  <2>4. CASE inbox = <<>>
    <3>1. inbox \o more = more
        BY <2>4
    <3>2. end[Other(e)].state # "open"
        BY <1>1, <2>1, <2>4 DEF Greeted, inbox
    <3>3. QED
        BY <2>1, <3>1, <3>2
  <2>5. QED
    BY <2>3, <2>4
<1>7. Cause(e) => Cause(e)'
    BY <1>2 DEF Cause
<1>8. ASSUME NEW k \in 1 .. Len(end'[e].inbox)
      PROVE  Truthful(e, end[e].inbox[k])'
    BY <1>2, <1>5 DEF Truthful, Said
<1>9. QED
    BY <1>1, <1>2, <1>6, <1>7, <1>8 DEF EndOK, inbox

\* An end that a step leaves as it is, with the link it belongs to and the far
\* end at most closed.
LEMMA EndStays ==
    ASSUME ConnectionsInv, NEW e \in Ends,
           end'[e] = end[e],
           end[e].state # "none" =>
              /\ link'[e[1]] \in Link
              /\ link'[e[1]].from = link[e[1]].from /\ link'[e[1]].to = link[e[1]].to
              /\ e \in offended => e \in offended'
              /\ end'[Other(e)].state = "open" => end[Other(e)].state = "open"
    PROVE  EndOK(e)'
<1>1. CASE end[e].state = "none"
    BY <1>1 DEF ConnectionsInv, EndOK
<1>2. CASE end[e].state # "none"
  <2>1. <<>> \in Seq(Message) /\ end'[e].inbox = end[e].inbox \o <<>>
    BY DEF ConnectionsInv, ConnectionsType, Connection
  <2>2. \A k \in 1 .. Len(<<>>) : Said(e, <<>>[k], offended')
    OBVIOUS
  <2>3. QED
    BY <1>2, <2>1, <2>2, EndMoves
<1>3. QED
    BY <1>1, <1>2

LEMMA MessagesTyped ==
    ASSUME NEW n \in Nodes
    PROVE  /\ Version(n) \in Message /\ Offence \in Message
           /\ <<Version(n)>> \in Seq(Message) /\ <<Offence>> \in Seq(Message)
           /\ Version(n).type = "version" /\ Version(n).id = n /\ Offence.type = "offence"
BY DEF Version, Offence, Message

\* Links after an end was closed.
LEMMA LinksAfter ==
    ASSUME ConnectionsInv, HangUp(end')
    PROVE  /\ link' \in [Conns -> Link \cup {NoLink}]
           /\ \A e \in Ends : end'[e].state # "none" => link'[e[1]] = link[e[1]]
           /\ \A e \in Ends : link'[e[1]] = NoLink \/ link'[e[1]] = link[e[1]]
<1>1. \A e \in Ends : e[1] \in Conns /\ (e = <<e[1], "out">> \/ e = <<e[1], "in">>)
    BY DEF Ends
<1>2. QED
    BY <1>1 DEF HangUp, ConnectionsInv, ConnectionsType

\* A message that breaks a rule, and a socket that breaks.
LEMMA OffendKeeps ==
    ASSUME ConnectionsInv, NEW x \in Ends, Offend(x)
    PROVE  ConnectionsInv'
<1>1. /\ end[x].state # "none" /\ end[Other(x)].state = "open"
      /\ end' = [end EXCEPT ![x].inbox = Append(@, Offence)]
      /\ offended' = offended \cup {x} /\ link' = link
    BY DEF Offend
<1>2. PICK n \in Nodes : TRUE
    BY <1>1, Owners
<1>3. /\ end'[x] = [end[x] EXCEPT !.inbox = Append(@, Offence)]
      /\ \A e \in Ends \ {x} : end'[e] = end[e]
      /\ end'[x] \in Connection
  <2>1. end \in [Ends -> Connection] /\ end[x] \in Connection /\ Offence \in Message
    BY <1>2, MessagesTyped DEF ConnectionsInv, ConnectionsType
  <2>2. end[x].inbox \in Seq(Message)
    BY <2>1 DEF Connection
  <2>3. Append(end[x].inbox, Offence) \in Seq(Message)
    BY <2>1, <2>2
  <2>4. end'[x] = [end[x] EXCEPT !.inbox = Append(end[x].inbox, Offence)]
    BY <1>1, <2>1
  <2>5. [end[x] EXCEPT !.inbox = Append(end[x].inbox, Offence)] \in Connection
    BY <2>1, <2>3 DEF Connection
  <2>6. QED
    BY <1>1, <2>1, <2>4, <2>5
<1>4. ConnectionsType'
    BY <1>1, <1>3 DEF ConnectionsInv, ConnectionsType
<1>5. \A e \in Ends : end[e].state # "none" => link[e[1]] \in Link
    BY DEF ConnectionsInv, EndOK
<1>6. \A e \in Ends : end'[e].state = end[e].state
    BY <1>3 DEF ConnectionsInv, ConnectionsType, Connection
<1>7. ASSUME NEW e \in Ends, e # x PROVE EndOK(e)'
    BY <1>1, <1>3, <1>5, <1>6, <1>7, EndsFacts, EndStays
<1>8. EndOK(x)'
  <2>1. /\ <<Offence>> \in Seq(Message) /\ Len(<<Offence>>) = 1 /\ <<Offence>>[1] = Offence
        /\ Offence.type = "offence"
    BY <1>2, MessagesTyped
  <2>2. Said(x, Offence, offended')
    BY <1>1, <2>1 DEF Said
  <2>3. /\ end'[x].inbox = end[x].inbox \o <<Offence>>
        /\ end'[x].id = end[x].id /\ end'[x].banned = end[x].banned
        /\ end'[x].state = end[x].state
    BY <1>3, <2>1 DEF ConnectionsInv, ConnectionsType, Connection
  <2>4. \A k \in 1 .. Len(<<Offence>>) : Said(x, <<Offence>>[k], offended')
    BY <2>1, <2>2
  <2>5. QED
    BY <1>1, <1>5, <2>1, <2>3, <2>4, EndMoves
<1>9. QED
    BY <1>4, <1>7, <1>8 DEF ConnectionsInv

LEMMA FailKeeps ==
    ASSUME ConnectionsInv, NEW c \in Conns, Fail(c)
    PROVE  ConnectionsInv'
<1>1. /\ link[c] # NoLink /\ link' = [link EXCEPT ![c].up = FALSE]
      /\ end' = end /\ offended' = offended
    BY DEF Fail, Free
<1>2. /\ \A d \in Conns : link[d] \in Link =>
            /\ link'[d] \in Link /\ link'[d].from = link[d].from /\ link'[d].to = link[d].to
      /\ link' \in [Conns -> Link \cup {NoLink}]
    BY <1>1 DEF ConnectionsInv, ConnectionsType, Link
<1>3. ConnectionsType'
    BY <1>1, <1>2 DEF ConnectionsInv, ConnectionsType
<1>4. ASSUME NEW e \in Ends PROVE EndOK(e)'
  <2>1. e[1] \in Conns /\ (end[e].state # "none" => link[e[1]] \in Link)
    BY EndsFacts DEF ConnectionsInv, EndOK
  <2>2. QED
    BY <1>1, <1>2, <2>1, EndStays
<1>5. QED
    BY <1>3, <1>4 DEF ConnectionsInv

\* accept_connections.
LEMMA AcceptKeeps ==
    ASSUME ConnectionsInv, NEW x \in Ends, Accept(x)
    PROVE  ConnectionsInv'
<1> DEFINE y == Other(x)
           full == Cardinality(Open(Owner(x))) >= MaxPeers
<1>1. /\ end[x].state = "queued"
      /\ end' = IF full THEN [end EXCEPT ![x] = Gone]
                ELSE [end EXCEPT ![x].state = "open",
                                 ![y].inbox = IF end[y].state = "none" THEN @
                                              ELSE Append(@, Version(Owner(x)))]
      /\ HangUp(end')
      /\ offended' = {z \in offended : end'[z].state # "none"}
    BY DEF Accept
<1>2. /\ y \in Ends /\ y # x /\ Other(y) = x
      /\ link[x[1]] \in Link /\ Owner(x) \in Nodes /\ Owner(x) = Remote(y)
    BY <1>1, EndsFacts, Owners DEF Remote
<1>3. /\ Gone \in Connection /\ Gone.state = "none" /\ ~Gone.banned
      /\ Version(Owner(x)) \in Message
    BY <1>2, MessagesTyped DEF Gone, Connection
<1>4. /\ end'[x] = IF full THEN Gone ELSE [end[x] EXCEPT !.state = "open"]
      /\ end'[y] = IF full \/ end[y].state = "none" THEN end[y]
                   ELSE [end[y] EXCEPT !.inbox = Append(@, Version(Owner(x)))]
      /\ \A e \in Ends \ {x, y} : end'[e] = end[e]
      /\ end' \in [Ends -> Connection]
  <2>1. end \in [Ends -> Connection]
    BY DEF ConnectionsInv, ConnectionsType
  <2>2. CASE full
    BY <1>1, <1>2, <1>3, <2>1, <2>2
  <2>3. CASE ~full
    <3>1. /\ end'[x] = [end[x] EXCEPT !.state = "open"]
          /\ end'[y] = [end[y] EXCEPT !.inbox = IF end[y].state = "none" THEN @
                                                ELSE Append(@, Version(Owner(x)))]
          /\ \A e \in Ends \ {x, y} : end'[e] = end[e]
          /\ end' = [e \in Ends |-> end'[e]]
        BY <1>1, <1>2, <2>1, <2>3
    <3>2. end'[x] \in Connection /\ end'[y] \in Connection
      <4>1. end[x] \in Connection /\ end[y] \in Connection
        BY <1>2, <2>1
      <4>2. end'[x] \in Connection
        BY <3>1, <4>1 DEF Connection
      <4>3. end[y].inbox \in Seq(Message)
        BY <4>1 DEF Connection
      <4>4. Append(end[y].inbox, Version(Owner(x))) \in Seq(Message)
        BY <1>3, <4>3
      <4>5. (IF end[y].state = "none" THEN end[y].inbox
             ELSE Append(end[y].inbox, Version(Owner(x)))) \in Seq(Message)
        BY <4>3, <4>4
      <4>6. \A s \in Seq(Message) : [end[y] EXCEPT !.inbox = s] \in Connection
        BY <4>1 DEF Connection
      <4>7. QED
        BY <3>1, <4>2, <4>5, <4>6
    <3>3. CASE end[y].state = "none"
      <4>1. end'[y] = end[y]
        BY <1>2, <2>1, <3>1, <3>3 DEF Connection
      <4>2. QED
        BY <2>1, <2>3, <3>1, <3>2, <3>3, <4>1
    <3>4. CASE end[y].state # "none"
        BY <2>1, <2>3, <3>1, <3>2, <3>4
    <3>5. QED
        BY <3>3, <3>4
  <2>4. QED
    BY <2>2, <2>3
<1>5. /\ link' \in [Conns -> Link \cup {NoLink}]
      /\ \A e \in Ends : end'[e].state # "none" => link'[e[1]] = link[e[1]]
    BY <1>1, LinksAfter
<1>6. ConnectionsType'
    BY <1>4, <1>5 DEF ConnectionsType
<1>7. \A e \in Ends : end[e].state # "none" => link[e[1]] \in Link
    BY DEF ConnectionsInv, EndOK
<1>8. ASSUME NEW e \in Ends, e # x, e # y PROVE EndOK(e)'
  <2>1. end'[e] = end[e] /\ Other(e) \in Ends \ {x, y}
    BY <1>2, <1>4, <1>8, EndsFacts
  <2>2. end'[Other(e)] = end[Other(e)]
    BY <1>4, <2>1
  <2>3. QED
    BY <1>1, <1>5, <1>7, <2>1, <2>2, EndStays
<1>9. EndOK(x)'
  <2>1. CASE full
    BY <1>3, <1>4, <2>1 DEF EndOK
  <2>2. CASE ~full
    <3>1. /\ end'[x].state = "open" /\ end'[x].id = end[x].id /\ end'[x].banned = end[x].banned
          /\ end'[x].inbox = end[x].inbox /\ end'[y].state = end[y].state
        BY <1>2, <1>4, <2>2 DEF ConnectionsInv, ConnectionsType, Connection
    <3>2. <<>> \in Seq(Message) /\ end'[x].inbox = end[x].inbox \o <<>>
        BY <3>1 DEF ConnectionsInv, ConnectionsType, Connection
    <3>3. \A k \in 1 .. Len(<<>>) : Said(x, <<>>[k], offended')
        OBVIOUS
    <3>4. end[y].state = "open" \/ end'[y].state # "open"
        BY <3>1
    <3>5. link'[x[1]] = link[x[1]] /\ (x \in offended => x \in offended')
        BY <1>1, <1>5, <3>1
    <3>6. QED
        BY <1>1, <1>2, <3>1, <3>2, <3>3, <3>4, <3>5, EndMoves
  <2>3. QED
    BY <2>1, <2>2
<1>10. EndOK(y)'
  <2>1. CASE full \/ end[y].state = "none"
    <3>1. end'[y] = end[y]
        BY <1>4, <2>1
    <3>2. end[y].state # "none" => end'[x].state # "open"
        BY <1>3, <1>4, <2>1
    <3>3. QED
        BY <1>1, <1>2, <1>5, <1>7, <3>1, <3>2, EndStays
  <2>2. CASE ~full /\ end[y].state # "none"
    <3> DEFINE more == <<Version(Owner(x))>>
    <3>1. /\ more \in Seq(Message) /\ Len(more) = 1 /\ more[1] = Version(Owner(x))
          /\ more[1].type = "version" /\ more[1].id = Owner(x)
        BY <1>2, MessagesTyped
    <3>2. /\ end'[y].state = end[y].state /\ end'[y].id = end[y].id
          /\ end'[y].banned = end[y].banned
          /\ end'[y].inbox = end[y].inbox \o more
        BY <1>2, <1>4, <2>2 DEF ConnectionsInv, ConnectionsType, Connection
    <3>3. link'[y[1]] = link[y[1]] /\ link[y[1]] \in Link
        BY <1>2, <1>5, <1>7, <2>2, <3>2
    <3>4. more # <<>>
        OBVIOUS
    <3> HIDE DEF more
    <3>5. \A k \in 1 .. Len(more) : Said(y, more[k], offended')
      <4>1. \A k \in 1 .. Len(more) : k = 1
        BY <3>1
      <4>2. Said(y, more[1], offended')
        BY <1>2, <3>1 DEF Said
      <4>3. QED
        BY <4>1, <4>2
    <3>6. y \in offended => y \in offended'
        BY <1>1, <2>2, <3>2
    <3>7. QED
        BY <1>2, <2>2, <3>1, <3>2, <3>3, <3>4, <3>5, <3>6, EndMoves
  <2>3. QED
    BY <2>1, <2>2
<1>11. QED
    BY <1>6, <1>8, <1>9, <1>10 DEF ConnectionsInv

\* Steps that touch neither a connection nor what was sent on it.
LEMMA Unchanged ==
    ASSUME ConnectionsInv, link' = link, end' = end, offended' = offended
    PROVE  ConnectionsInv'
<1>1. \A e \in Ends : end[e].state # "none" => link[e[1]] \in Link
    BY DEF ConnectionsInv, EndOK
<1>2. \A e \in Ends : EndOK(e)'
    BY <1>1, EndStays
<1>3. QED
    BY <1>2 DEF ConnectionsInv, ConnectionsType

\* process_messages and the dispatch of what it returns.
LEMMA ReadAllKeeps ==
    ASSUME ConnectionsInv, NEW n \in Nodes, ReadAll(n)
    PROVE  ConnectionsInv'
<1> DEFINE kept == {e \in Open(n) : ~Removed(e)}
           digest == [e \in kept |-> Digest(n, e)]
           sent(e) == IF Other(e) \in kept THEN digest[Other(e)].sent ELSE <<>>
<1>1. /\ end' = [e \in Ends |->
            IF e \in kept
            THEN [state |-> "open", id |-> digest[e].id, banned |-> digest[e].banned,
                  inbox |-> (IF e \in kept THEN <<>> ELSE end[e].inbox) \o sent(e)]
            ELSE IF e \in Open(n) \/ end[e].state = "none" THEN Gone
            ELSE [end[e] EXCEPT !.inbox =
                    (IF e \in kept THEN <<>> ELSE end[e].inbox) \o sent(e)]]
      /\ HangUp(end')
      /\ offended' = {e \in offended : link'[e[1]] # NoLink}
    BY DEF ReadAll
<1>2. \A e \in kept : /\ e \in Ends /\ end[e].state = "open" /\ Owner(e) = n
                      /\ FineSoFar(e, digest[e])
                      /\ end[e].id # Unknown \/ end[e].inbox # <<>> => digest[e].id = Remote(e)
                      /\ end[e].inbox = <<>> => digest[e].id = end[e].id
    BY DigestFine DEF Open
<1>3. \A e \in Ends : e \in Open(n) => e \in kept \/ end'[e] = Gone
    BY <1>1
<1>4. Gone \in Connection /\ Gone.state = "none" /\ ~Gone.banned
    BY DEF Gone, Connection
<1>5. ASSUME NEW e \in Ends
      PROVE  /\ sent(e) \in Seq(Message)
             /\ end[e].state # "none" =>
                    \A k \in 1 .. Len(sent(e)) : Said(e, sent(e)[k], offended')
             /\ sent(e) # <<>> => end[Other(e)].state = "open"
  <2>1. CASE Other(e) \notin kept
    <3>1. sent(e) = <<>> /\ <<>> \in Seq(Message) /\ Len(<<>>) = 0
        BY <2>1
    <3> HIDE DEF sent
    <3>2. QED
        BY <3>1
  <2>2. CASE Other(e) \in kept
    <3> DEFINE o == Other(e)
    <3>1. /\ FineSoFar(o, digest[o]) /\ end[o].state = "open"
          /\ sent(e) = digest[o].sent /\ o \in Ends
        BY <1>2, <2>2
    <3>2. sent(e) \in Seq(Message) /\ sent(e) \in {<<>>, <<BanMessage(Owner(o), Remote(o))>>}
        BY <3>1 DEF FineSoFar, PeerRecord
    <3>3. Remote(o) = Owner(e)
        BY EndsFacts DEF Remote
    <3>4. Said(e, BanMessage(Owner(o), Remote(o)), offended')
        BY <3>3 DEF Said, BanMessage
    <3> HIDE DEF sent
    <3>5. \A k \in 1 .. Len(sent(e)) : sent(e)[k] = BanMessage(Owner(o), Remote(o))
        BY <3>2
    <3>6. QED
        BY <3>1, <3>2, <3>4, <3>5
  <2>3. QED
    BY <2>1, <2>2
<1> HIDE DEF sent
<1>6. /\ link' \in [Conns -> Link \cup {NoLink}]
      /\ \A e \in Ends : end'[e].state # "none" => link'[e[1]] = link[e[1]]
    BY <1>1, LinksAfter
<1>7. ASSUME NEW e \in Ends, e \in kept
      PROVE  /\ end'[e] = [state |-> "open", id |-> digest[e].id, banned |-> digest[e].banned,
                           inbox |-> sent(e)]
             /\ end'[e] \in Connection
  <2>1. <<>> \o sent(e) = sent(e) /\ sent(e) \in Seq(Message)
    BY <1>5
  <2>2. end'[e] = [state |-> "open", id |-> digest[e].id, banned |-> digest[e].banned,
                   inbox |-> <<>> \o sent(e)]
    BY <1>1, <1>7
  <2>3. digest[e] \in PeerRecord
    BY <1>2, <1>7 DEF FineSoFar
  <2>4. digest[e].id \in Nodes \cup {Unknown} /\ digest[e].banned \in BOOLEAN
    BY <2>3 DEF PeerRecord
  <2> HIDE DEF digest, kept
  <2>5. QED
    BY <2>1, <2>2, <2>4 DEF Connection
<1>8. ASSUME NEW e \in Ends, e \notin Open(n), end[e].state # "none"
      PROVE  /\ end'[e] = [end[e] EXCEPT !.inbox = end[e].inbox \o sent(e)]
             /\ end'[e] \in Connection /\ end'[e].state = end[e].state
             /\ end'[e].id = end[e].id /\ end'[e].banned = end[e].banned
             /\ end'[e].inbox = end[e].inbox \o sent(e)
  <2>1. end'[e] = [end[e] EXCEPT !.inbox = end[e].inbox \o sent(e)]
    BY <1>1, <1>8
  <2>2. end[e] \in Connection /\ sent(e) \in Seq(Message)
    BY <1>5 DEF ConnectionsInv, ConnectionsType
  <2>3. end[e].inbox \o sent(e) \in Seq(Message)
    BY <2>2 DEF Connection
  <2>4. QED
    BY <2>1, <2>2, <2>3 DEF Connection
<1>9. ASSUME NEW e \in Ends, e \notin kept, e \in Open(n) \/ end[e].state = "none"
      PROVE  end'[e] = Gone
    BY <1>1, <1>9
<1>10. \A e \in Ends : end'[e].state = "open" => end[e].state = "open"
  <2>1. \A e \in Ends : end'[e].state = "open" =>
            e \in kept \/ (e \notin Open(n) /\ end[e].state # "none")
    BY <1>4, <1>9
  <2>2. QED
    BY <1>2, <1>8, <2>1
<1>11. ConnectionsType'
  <2>1. \A e \in Ends : end'[e] \in Connection
    BY <1>4, <1>7, <1>8, <1>9
  <2>2. end' = [e \in Ends |-> end'[e]]
    BY <1>1
  <2>3. end' \in [Ends -> Connection]
    BY <2>1, <2>2
  <2>4. QED
    BY <1>6, <2>3 DEF ConnectionsType
<1>12. \A e \in Ends : /\ e \in offended /\ end[e].state # "none" /\ end'[e].state # "none"
                            => e \in offended'
                       /\ end[e].state # "none" => link[e[1]] \in Link
  <2>1. \A e \in Ends : end[e].state # "none" => link[e[1]] \in Link
    BY DEF ConnectionsInv, EndOK
  <2>2. NoLink \notin Link
    BY ConnectionsAssumption DEF Link
  <2>3. QED
    BY <1>1, <1>6, <2>1, <2>2
<1> HIDE DEF digest
<1>13. ASSUME NEW e \in Ends, e \in kept PROVE EndOK(e)'
  <2>1. /\ end'[e].state = "open" /\ end'[e].id = digest[e].id
        /\ end'[e].banned = digest[e].banned /\ end'[e].inbox = sent(e)
    <3>1. end'[e] = [state |-> "open", id |-> digest[e].id, banned |-> digest[e].banned,
                     inbox |-> sent(e)]
        BY <1>7, <1>13
    <3>2. QED
        BY <3>1
  <2>2. /\ end[e].state = "open" /\ link'[e[1]] = link[e[1]] /\ link[e[1]] \in Link
    BY <1>2, <1>6, <1>12, <1>13, <2>1
  <2>3. Owner(e)' = Owner(e) /\ Remote(e)' = Remote(e)
    BY <2>2, EndsFacts DEF Owner, Remote, Other
  <2>4. FineSoFar(e, digest[e]) /\ Remote(e) \in Nodes /\ Unknown \notin Nodes
    BY <1>2, <1>13, <2>2, Owners, ConnectionsAssumption
  <2>5. \A k \in 1 .. Len(sent(e)) : Said(e, sent(e)[k], offended')
    BY <1>5, <2>2
  <2>6. \A k \in 1 .. Len(end'[e].inbox) : Truthful(e, end[e].inbox[k])'
    BY <2>1, <2>3, <2>5 DEF Truthful, Said
  <2>7. Greeted(e)'
    <3>1. SUFFICES ASSUME digest[e].id = Unknown,
                          end'[Other(e)].state = "open" \/ sent(e) # <<>>
                   PROVE  FALSE
        BY <2>1 DEF Greeted
    <3>2. end[e].id = Unknown /\ end[e].inbox = <<>>
        BY <1>2, <1>13, <2>4, <3>1
    <3>3. end[Other(e)].state # "open"
        BY <2>2, <3>2 DEF ConnectionsInv, EndOK, Greeted
    <3>4. QED
        BY <1>5, <1>10, <3>1, <3>3, EndsFacts
  <2>8. end'[e].banned => Cause(e)' /\ end'[e].id # Unknown
    <3>1. digest[e].banned => Cause(e) /\ digest[e].id # Unknown
        BY <2>4 DEF FineSoFar
    <3>2. Cause(e) => Cause(e)'
        BY <1>12, <2>1, <2>2, <2>3 DEF Cause
    <3>3. QED
        BY <2>1, <3>1, <3>2
  <2>9. end'[e].id \in {Unknown, Remote(e)'}
    BY <2>1, <2>3, <2>4 DEF FineSoFar
  <2>10. QED
    BY <2>1, <2>2, <2>6, <2>7, <2>8, <2>9 DEF EndOK
<1>14. ASSUME NEW e \in Ends, e \notin Open(n), end[e].state # "none" PROVE EndOK(e)'
  <2>1. /\ end'[e].state = end[e].state /\ end'[e].id = end[e].id
        /\ end'[e].banned = end[e].banned /\ end'[e].inbox = end[e].inbox \o sent(e)
    BY <1>8, <1>14
  <2>2. link'[e[1]] = link[e[1]] /\ link[e[1]] \in Link /\ (e \in offended => e \in offended')
    BY <1>6, <1>12, <1>14, <2>1
  <2>3. /\ sent(e) \in Seq(Message)
        /\ \A k \in 1 .. Len(sent(e)) : Said(e, sent(e)[k], offended')
    BY <1>5, <1>14
  <2>4. \/ end[Other(e)].state = "open"
        \/ end'[Other(e)].state # "open" /\ sent(e) = <<>>
    BY <1>5, <1>10, EndsFacts
  <2>5. QED
    BY <1>14, <2>1, <2>2, <2>3, <2>4, EndMoves
<1>15. ASSUME NEW e \in Ends, e \notin kept, e \in Open(n) \/ end[e].state = "none"
      PROVE EndOK(e)'
    BY <1>4, <1>9, <1>15 DEF EndOK
<1>16. \A e \in Ends : EndOK(e)'
    BY <1>13, <1>14, <1>15
<1>17. QED
    BY <1>11, <1>16 DEF ConnectionsInv

\* A smaller finite set fits into a larger one.
LEMMA SmallerFits ==
    ASSUME NEW S, NEW U, IsFiniteSet(S), IsFiniteSet(U), Cardinality(S) <= Cardinality(U)
    PROVE  \E f \in [S -> U] : IsInjective(f)
<1>1. /\ Cardinality(S) \in Nat /\ ExistsBijection(1 .. Cardinality(S), S)
      /\ Cardinality(U) \in Nat /\ ExistsBijection(1 .. Cardinality(U), U)
    BY FS_CardinalityType
<1>2. ExistsBijection(S, 1 .. Cardinality(S))
    BY <1>1, Fun_ExistsBijSymmetric
<1>3. ExistsInjection(S, 1 .. Cardinality(S)) /\ ExistsInjection(1 .. Cardinality(U), U)
    BY <1>1, <1>2 DEF ExistsBijection, Bijection, ExistsInjection
<1>4. ExistsInjection(1 .. Cardinality(S), 1 .. Cardinality(U))
    BY <1>1, Fun_NatInjLeq
<1>5. ExistsInjection(S, U)
    BY <1>3, <1>4, Fun_ExistsInjTransitive
<1>6. QED
    BY <1>5 DEF ExistsInjection, Injection

\* n has dialed, on the connections of slot.
DialsTo(n, slot) ==
    /\ link' \in [Conns -> Link \cup {NoLink}]
    /\ end' \in [Ends -> Connection]
    /\ \A c \in Conns \ Range(slot) : link'[c] = link[c]
    /\ \A c \in Range(slot) : link'[c] \in Link /\ link'[c].from = n
    /\ \A e \in Ends : e[1] \notin Range(slot) => end'[e] = end[e]
    /\ \A e \in Ends : e[1] \in Range(slot) =>
          /\ end[e].state = "none"
          /\ end'[e] = IF e[2] = "out" THEN New("open", <<>>)
                       ELSE New("queued", <<Version(n)>>)

\* connect_to for each of some addresses: every one gets a free connection.
LEMMA DialFacts ==
    ASSUME ConnectionsInv, NEW n \in Nodes, NEW T \in SUBSET Nodes, Dial(n, T)
    PROVE  \E targets \in SUBSET T : \E slot \in [targets -> Free] : DialsTo(n, slot)
<1> DEFINE targets == {t \in T \ Dialed(n) : ~(t = n /\ n \in KnowsSelf)}
           slot == CHOOSE f \in [targets -> Free] : IsInjective(f)
           target(c) == CHOOSE t \in targets : slot[t] = c
<1>1. /\ Cardinality(targets) <= Cardinality(Free)
      /\ link' = [c \in Conns |->
            IF c \in Range(slot) THEN [from |-> n, to |-> target(c), up |-> TRUE] ELSE link[c]]
      /\ end' = [e \in Ends |->
            IF e[1] \notin Range(slot) THEN end[e]
            ELSE IF e[2] = "out" THEN New("open", <<>>) ELSE New("queued", <<Version(n)>>)]
  <2> DEFINE Goal(ts, sl, c) == CHOOSE t \in ts : sl[t] = c
             Slots(ts) == CHOOSE f \in [ts -> Free] : IsInjective(f)
             Step(ts, sl) ==
                /\ link' = [c \in Conns |->
                     IF c \in Range(sl) THEN [from |-> n, to |-> Goal(ts, sl, c), up |-> TRUE]
                     ELSE link[c]]
                /\ end' = [e \in Ends |->
                     IF e[1] \notin Range(sl) THEN end[e]
                     ELSE IF e[2] = "out" THEN New("open", <<>>) ELSE New("queued", <<Version(n)>>)]
  <2>1. \E ts \in {targets} :
            Cardinality(ts) <= Cardinality(Free) /\ \E sl \in {Slots(ts)} : Step(ts, sl)
    BY DEF Dial
  <2>2. slot = Slots(targets) /\ \A c : target(c) = Goal(targets, slot, c)
    OBVIOUS
  <2> HIDE DEF targets, slot, Slots, Step
  <2>3. Cardinality(targets) <= Cardinality(Free) /\ Step(targets, Slots(targets))
    BY <2>1
  <2>4. Step(targets, slot)
    BY <2>2, <2>3
  <2> HIDE DEF Goal, target
  <2>5. QED
    BY <2>2, <2>3, <2>4 DEF Step
<1>2. IsFiniteSet(targets) /\ IsFiniteSet(Free) /\ targets \in SUBSET T /\ targets \in SUBSET Nodes
  <2>1. targets \in SUBSET Nodes /\ Free \in SUBSET Conns /\ targets \in SUBSET T
    BY DEF Free
  <2> HIDE DEF targets
  <2>2. QED
    BY <2>1, ConnectionsAssumption, FS_Subset
<1> HIDE DEF targets
<1>3. slot \in [targets -> Free]
    BY <1>1, <1>2, SmallerFits
<1> HIDE DEF slot
<1>4. \A c \in Range(slot) : c \in Free /\ c \in Conns /\ target(c) \in targets
    BY <1>3 DEF Range, Free
<1> HIDE DEF target
<1>5. \A c \in Range(slot) : [from |-> n, to |-> target(c), up |-> TRUE] \in Link
    BY <1>2, <1>4 DEF Link
<1>6. /\ link' \in [Conns -> Link \cup {NoLink}]
      /\ \A c \in Conns \ Range(slot) : link'[c] = link[c]
      /\ \A c \in Range(slot) : link'[c] \in Link /\ link'[c].from = n
    BY <1>1, <1>4, <1>5 DEF ConnectionsInv, ConnectionsType
<1>7. New("open", <<>>) \in Connection /\ New("queued", <<Version(n)>>) \in Connection
  <2>1. <<>> \in Seq(Message) /\ <<Version(n)>> \in Seq(Message)
    BY MessagesTyped
  <2>2. QED
    BY <2>1 DEF New, Gone, Connection
<1>8. /\ end' \in [Ends -> Connection]
      /\ \A e \in Ends : e[1] \notin Range(slot) => end'[e] = end[e]
      /\ \A e \in Ends : e[1] \in Range(slot) =>
            end'[e] = IF e[2] = "out" THEN New("open", <<>>) ELSE New("queued", <<Version(n)>>)
    BY <1>1, <1>7 DEF ConnectionsInv, ConnectionsType
<1>9. \A e \in Ends : e[1] \in Range(slot) => end[e].state = "none"
  <2>1. NoLink \notin Link
    BY ConnectionsAssumption DEF Link
  <2>2. QED
    BY <1>4, <2>1 DEF Free, ConnectionsInv, EndOK
<1>10. QED
    BY <1>2, <1>3, <1>6, <1>8, <1>9 DEF DialsTo

LEMMA DialKeeps ==
    ASSUME ConnectionsInv, NEW n \in Nodes, NEW T \in SUBSET Nodes, Dial(n, T),
           offended' = offended
    PROVE  ConnectionsInv'
<1>1. PICK targets \in SUBSET T : \E slot \in [targets -> Free] : DialsTo(n, slot)
    BY DialFacts
<1>2. PICK slot \in [targets -> Free] : DialsTo(n, slot)
    BY <1>1
<1>3. \A e \in Ends : e[1] \in Conns /\ Other(e) \in Ends /\ Other(e)[1] = e[1]
    BY EndsFacts
<1>4. ASSUME NEW e \in Ends, e[1] \notin Range(slot) PROVE EndOK(e)'
  <2>1. /\ end'[e] = end[e] /\ end'[Other(e)] = end[Other(e)]
        /\ link'[e[1]] = link[e[1]]
        /\ end[e].state # "none" => link[e[1]] \in Link
    BY <1>2, <1>3, <1>4 DEF ConnectionsInv, EndOK, DialsTo
  <2>2. QED
    BY <2>1, EndStays
<1>5. ASSUME NEW e \in Ends, e[1] \in Range(slot) PROVE EndOK(e)'
  <2>1. link'[e[1]] \in Link /\ link'[e[1]].from = n
    BY <1>2, <1>5 DEF DialsTo
  <2>2. CASE e[2] = "out"
    <3>1. end'[e] = New("open", <<>>)
        BY <1>2, <1>5, <2>2 DEF DialsTo
    <3>2. /\ end'[e].state = "open" /\ end'[e].id = Unknown /\ ~end'[e].banned
          /\ end'[e].inbox = <<>> /\ Len(<<>>) = 0
        BY <3>1 DEF New, Gone
    <3>3. end'[Other(e)] = New("queued", <<Version(n)>>)
        BY <1>2, <1>3, <1>5, <2>2 DEF Other, DialsTo
    <3>4. end'[Other(e)].state # "open"
        BY <3>3 DEF New, Gone
    <3>5. QED
        BY <2>1, <3>2, <3>4 DEF EndOK, Greeted
  <2>3. CASE e[2] # "out"
    <3>1. end'[e] = New("queued", <<Version(n)>>)
        BY <1>2, <1>5, <2>3 DEF DialsTo
    <3>2. /\ end'[e].state = "queued" /\ end'[e].id = Unknown /\ ~end'[e].banned
          /\ end'[e].inbox = <<Version(n)>>
        BY <3>1 DEF New, Gone
    <3>3. /\ Len(<<Version(n)>>) = 1 /\ <<Version(n)>>[1] = Version(n) /\ <<Version(n)>> # <<>>
          /\ Version(n).type = "version" /\ Version(n).id = n
        BY DEF Version
    <3>4. Remote(e)' = n
        BY <1>3, <2>1, <2>3 DEF Remote, Owner, Other
    <3>5. Truthful(e, Version(n))'
        BY <3>3, <3>4 DEF Truthful, Said
    <3>6. \A k \in 1 .. Len(end'[e].inbox) : end'[e].inbox[k] = Version(n)
        BY <3>2, <3>3
    <3>7. \A k \in 1 .. Len(end'[e].inbox) : Truthful(e, end[e].inbox[k])'
        BY <3>5, <3>6 DEF Truthful, Said
    <3>8. QED
        BY <2>1, <3>2, <3>3, <3>7 DEF EndOK, Greeted
  <2>4. QED
    BY <2>2, <2>3
<1>6. ConnectionsType'
    BY <1>2 DEF ConnectionsType, DialsTo
<1>7. QED
    BY <1>4, <1>5, <1>6 DEF ConnectionsInv

LEMMA ConnectionsStep == ConnectionsInv /\ [Next]_vars => ConnectionsInv'
<1> SUFFICES ASSUME ConnectionsInv, [Next]_vars PROVE ConnectionsInv'
    OBVIOUS
<1>1. ASSUME NEW n \in Nodes, ReadAll(n) PROVE ConnectionsInv'
    BY <1>1, ReadAllKeeps
<1>2. ASSUME NEW e \in Ends, Accept(e) PROVE ConnectionsInv'
    BY <1>2, AcceptKeeps
<1>3. ASSUME NEW n \in Nodes, Reconnect(n) PROVE ConnectionsInv'
  <2>1. Bootnodes[n] \in SUBSET Nodes
    BY ConnectionsAssumption
  <2>2. Dial(n, Bootnodes[n]) /\ offended' = offended
    BY <1>3 DEF Reconnect
  <2>3. QED
    BY <2>1, <2>2, DialKeeps
<1>4. ASSUME NEW n \in Nodes, NEW S \in SUBSET Nodes, Gossip(n, S) PROVE ConnectionsInv'
  <2> DEFINE news == {t \in S \ (known[n] \cup Dialed(n)) : ~(t = n /\ n \in KnowsSelf)}
  <2>1. /\ offended' = offended /\ news \in SUBSET Nodes
        /\ MayDial(n) => Dial(n, news)
        /\ ~MayDial(n) => link' = link /\ end' = end
    BY <1>4 DEF Gossip
  <2>2. CASE MayDial(n)
    BY <2>1, <2>2, DialKeeps
  <2>3. CASE ~MayDial(n)
    BY <2>1, <2>3, Unchanged
  <2>4. QED
    BY <2>2, <2>3
<1>5. ASSUME NEW e \in Ends, Offend(e) PROVE ConnectionsInv'
    BY <1>5, OffendKeeps
<1>6. ASSUME NEW c \in Conns, Fail(c) PROVE ConnectionsInv'
    BY <1>6, FailKeeps
<1>7. ASSUME UNCHANGED vars PROVE ConnectionsInv'
    BY <1>7, Unchanged DEF vars
<1>8. QED
    BY <1>1, <1>2, <1>3, <1>4, <1>5, <1>6, <1>7 DEF Next

LEMMA ConnectionsStart == Init => ConnectionsInv
<1> SUFFICES ASSUME Init PROVE ConnectionsInv
    OBVIOUS
<1>1. Gone \in Connection /\ Gone.state = "none" /\ ~Gone.banned
  <2>1. <<>> \in Seq(Message)
    OBVIOUS
  <2>2. QED
    BY <2>1 DEF Gone, Connection
<1>2. QED
    BY <1>1 DEF Init, ConnectionsInv, ConnectionsType, EndOK

\* A node bans a connection for what was sent on it or because it leads to the
\* node itself (BansDoNotEcho): a BanPeer that another node sends names its
\* receiver, and the receiver has the sender under another name, so that
\* receive_message does not answer a ban with a ban.
THEOREM BansHaveCauses == Spec => []BansDoNotEcho
<1>1. ConnectionsInv => BansDoNotEcho
    BY DEF ConnectionsInv, EndOK, Cause, BansDoNotEcho
<1>2. QED
    BY <1>1, ConnectionsStart, ConnectionsStep, PTL DEF Spec

----------------------------------------------------------------------------
(* The size of the table *)

LEMMA OpenFinite ==
    ASSUME NEW n
    PROVE  IsFiniteSet(Ends) /\ IsFiniteSet(Open(n)) /\ Cardinality(Open(n)) \in Nat
<1>1. IsFiniteSet({"out", "in"})
  <2>1. {"out", "in"} = {"out"} \cup {"in"}
    OBVIOUS
  <2>2. IsFiniteSet({"out"})
    BY FS_Singleton
  <2>3. IsFiniteSet({"out"} \cup {"in"})
    BY <2>2, FS_AddElement
  <2>4. QED
    BY <2>1, <2>3
<1>2. IsFiniteSet(Ends)
    BY <1>1, ConnectionsAssumption, FS_Product DEF Ends
<1>3. Open(n) \in SUBSET Ends
    BY DEF Open
<1>4. QED
    BY <1>2, <1>3, FS_Subset, FS_CardinalityType

\* Whoever is in a table stays its owner's as long as the link does not change hands.
LEMMA SameOwner ==
    ASSUME NEW e \in Ends,
           link'[e[1]].from = link[e[1]].from /\ link'[e[1]].to = link[e[1]].to
    PROVE  Owner(e)' = Owner(e)
BY DEF Owner

\* What a node has in its table, and no more, is within the bounds.
Bounded(n) ==
    Cardinality(Open(n)) < MaxPeers + PerMessage \/ Open(n) \subseteq Conns \X {"out"}

LEMMA FewerStayBounded ==
    ASSUME NEW n, Bounded(n), Open(n)' \subseteq Open(n)
    PROVE  Bounded(n)'
<1>1. IsFiniteSet(Open(n)) /\ Cardinality(Open(n)) \in Nat
    BY OpenFinite
<1>2. Cardinality(Open(n)') \in Nat /\ Cardinality(Open(n)') <= Cardinality(Open(n))
    BY <1>1, FS_Subset, FS_CardinalityType
<1>3. MaxPeers \in Nat /\ PerMessage \in Nat
    BY ConnectionsAssumption
<1> DEFINE before == Open(n)
           after == Open(n)'
<1>4. CASE Cardinality(Open(n)) < MaxPeers + PerMessage
  <2>1. Cardinality(after) < MaxPeers + PerMessage
    <3> HIDE DEF after
    <3>1. QED
        BY <1>1, <1>2, <1>3, <1>4 DEF after
  <2>2. QED
    BY <2>1 DEF Bounded
<1>5. CASE Open(n) \subseteq Conns \X {"out"}
    BY <1>5 DEF Bounded
<1>6. QED
    BY <1>4, <1>5 DEF Bounded

\* The owner of an end that stays in a table is the same after the step.
LEMMA StaysInTable ==
    ASSUME NEW n, \A e \in Ends :
              end'[e].state = "open" => end[e].state = "open" /\ link'[e[1]].from = link[e[1]].from
                                         /\ link'[e[1]].to = link[e[1]].to
    PROVE  Open(n)' \subseteq Open(n)
BY SameOwner DEF Open

LEMMA ReadAllBounded ==
    ASSUME ConnectionsInv, NEW n \in Nodes, ReadAll(n), NEW m, Bounded(m)
    PROVE  Bounded(m)'
<1> DEFINE kept == {e \in Open(n) : ~Removed(e)}
<1>1. /\ \A e \in Ends : e \notin kept =>
            end'[e] = Gone \/ end'[e].state = end[e].state
      /\ \A e \in kept : end[e].state = "open"
      /\ HangUp(end')
  <2>1. /\ \A e \in Ends : e \notin kept =>
                end'[e] = Gone \/ \E s : end'[e] = [end[e] EXCEPT !.inbox = s]
        /\ HangUp(end')
    BY DEF ReadAll
  <2>2. \A e \in Ends : \A s : [end[e] EXCEPT !.inbox = s].state = end[e].state
    BY DEF ConnectionsInv, ConnectionsType, Connection
  <2>3. \A e \in kept : end[e].state = "open"
    BY DEF Open
  <2> HIDE DEF kept
  <2>4. ASSUME NEW e \in Ends, e \notin kept
        PROVE  end'[e] = Gone \/ end'[e].state = end[e].state
    <3>1. SUFFICES ASSUME end'[e] # Gone PROVE end'[e].state = end[e].state
        OBVIOUS
    <3>2. PICK s : end'[e] = [end[e] EXCEPT !.inbox = s]
        BY <2>1, <2>4, <3>1
    <3>3. [end[e] EXCEPT !.inbox = s].state = end[e].state
        BY <2>2
    <3>4. QED
        BY <3>2, <3>3
  <2>5. QED
    BY <2>1, <2>3, <2>4
<1>2. \A e \in Ends : end'[e].state # "none" => link'[e[1]] = link[e[1]]
    BY <1>1, LinksAfter
<1>3. Gone.state = "none"
    BY DEF Gone
<1>4. \A e \in Ends : end'[e].state = "open" => end[e].state = "open"
    BY <1>1, <1>3
<1>5. QED
    BY <1>2, <1>4, StaysInTable, FewerStayBounded

LEMMA AcceptBounded ==
    ASSUME ConnectionsInv, NEW x \in Ends, Accept(x), NEW m, Bounded(m)
    PROVE  Bounded(m)'
<1> DEFINE y == Other(x)
           full == Cardinality(Open(Owner(x))) >= MaxPeers
<1>1. /\ end[x].state = "queued" /\ HangUp(end')
      /\ \A e \in Ends \ {x} : end'[e].state = end[e].state
      /\ full => end'[x] = Gone
  <2>1. /\ end \in [Ends -> Connection] /\ y \in Ends /\ y # x
        /\ end[x] \in Connection /\ end[y] \in Connection
    BY EndsFacts DEF ConnectionsInv, ConnectionsType
  <2>2. CASE full
    BY <2>1, <2>2 DEF Accept
  <2>3. CASE ~full
    <3>1. \E s : end' = [end EXCEPT ![x].state = "open", ![y].inbox = s]
        BY <2>3 DEF Accept
    <3>2. QED
        BY <2>1, <2>3, <3>1 DEF Accept, Connection
  <2>4. QED
    BY <2>2, <2>3
<1>2. /\ \A e \in Ends : end'[e].state # "none" => link'[e[1]] = link[e[1]]
    BY <1>1, LinksAfter
<1>3. CASE full
  <2>1. Gone.state = "none"
    BY DEF Gone
  <2>2. \A e \in Ends : end'[e].state = "open" => end[e].state = "open"
    BY <1>1, <1>3, <2>1
  <2>3. QED
    BY <1>2, <2>2, StaysInTable, FewerStayBounded
<1>4. CASE ~full
  <2>1. CASE Owner(x) # m
    <3>1. ASSUME NEW e \in Open(m)' PROVE e \in Open(m)
      <4>1. e \in Ends /\ end'[e].state = "open" /\ Owner(e)' = m
        BY DEF Open
      <4>2. Owner(e) = m
        BY <1>2, <4>1, SameOwner
      <4>3. QED
        BY <1>1, <2>1, <4>1, <4>2 DEF Open
    <3>2. QED
        BY <3>1, FewerStayBounded
  <2>2. CASE Owner(x) = m
    <3>1. Open(m)' \subseteq Open(m) \cup {x}
      <4>1. ASSUME NEW e \in Open(m)', e # x PROVE e \in Open(m)
        <5>1. e \in Ends /\ end'[e].state = "open" /\ Owner(e)' = m
            BY DEF Open
        <5>2. Owner(e) = m
            BY <1>2, <5>1, SameOwner
        <5>3. QED
            BY <1>1, <4>1, <5>1, <5>2 DEF Open
      <4>2. QED
        BY <4>1
    <3> DEFINE before == Open(m)
               after == Open(m)'
    <3>2. /\ IsFiniteSet(before) /\ Cardinality(before) \in Nat
          /\ ~(Cardinality(before) >= MaxPeers) /\ after \subseteq before \cup {x}
        BY <1>4, <2>2, <3>1, OpenFinite
    <3>3. MaxPeers \in Nat /\ PerMessage \in Nat /\ PerMessage > 0
        BY ConnectionsAssumption
    <3> HIDE DEF before, after
    <3>4. IsFiniteSet(before \cup {x}) /\ Cardinality(before \cup {x}) <= Cardinality(before) + 1
      <4>1. /\ IsFiniteSet(before \cup {x})
            /\ Cardinality(before \cup {x}) =
                    IF x \in before THEN Cardinality(before) ELSE Cardinality(before) + 1
        BY <3>2, FS_AddElement
      <4> DEFINE k == Cardinality(before)
      <4>2. k \in Nat /\ Cardinality(before \cup {x}) = IF x \in before THEN k ELSE k + 1
        BY <3>2, <4>1
      <4> HIDE DEF k
      <4>3. Cardinality(before \cup {x}) <= k + 1
        BY <4>2
      <4>4. QED
        BY <4>1, <4>3 DEF k
    <3>5. Cardinality(after) <= Cardinality(before \cup {x}) /\ Cardinality(after) \in Nat
        BY <3>2, <3>4, FS_Subset, FS_CardinalityType
    <3>6. Cardinality(before \cup {x}) \in Nat
        BY <3>4, FS_CardinalityType
    <3>7. Cardinality(after) < MaxPeers + PerMessage
        BY <3>2, <3>3, <3>4, <3>5, <3>6
    <3>8. QED
        BY <3>7 DEF Bounded, after
  <2>3. QED
    BY <2>1, <2>2
<1>5. QED
    BY <1>3, <1>4

\* Dialing gives the node one entry for every address that it dials.
LEMMA DialBounded ==
    ASSUME ConnectionsInv, NEW n \in Nodes, NEW T \in SUBSET Nodes, Dial(n, T), NEW m
    PROVE  /\ m # n => Open(m)' \subseteq Open(m)
           /\ \E new \in SUBSET (Conns \X {"out"}) :
                /\ Open(m)' \subseteq Open(m) \cup new
                /\ IsFiniteSet(new) /\ Cardinality(new) <= Cardinality(T)
<1>1. PICK targets \in SUBSET T : \E slot \in [targets -> Free] : DialsTo(n, slot)
    BY DialFacts
<1>2. PICK slot \in [targets -> Free] : DialsTo(n, slot)
    BY <1>1
<1> DEFINE new == {<<slot[t], "out">> : t \in targets}
           f == [t \in targets |-> <<slot[t], "out">>]
<1>3. /\ IsFiniteSet(targets) /\ Cardinality(targets) <= Cardinality(T)
      /\ IsFiniteSet(T) /\ Cardinality(T) \in Nat /\ Cardinality(targets) \in Nat
    BY ConnectionsAssumption, FS_Subset, FS_CardinalityType
<1>4. IsFiniteSet(new) /\ Cardinality(new) <= Cardinality(T)
  <2>1. f \in Surjection(targets, new)
    BY Fun_IsSurj
  <2> HIDE DEF new, f
  <2>2. IsFiniteSet(new) /\ Cardinality(new) <= Cardinality(targets) /\ Cardinality(new) \in Nat
    BY <1>3, <2>1, FS_Surjection, FS_CardinalityType
  <2>3. QED
    BY <1>3, <2>2
<1>5. new \in SUBSET (Conns \X {"out"})
    BY DEF Free
<1>6. ASSUME NEW e \in Open(m)' PROVE e \in Open(m) \/ (m = n /\ e \in new)
  <2>1. e \in Ends /\ end'[e].state = "open" /\ Owner(e)' = m /\ e[1] \in Conns
    BY EndsFacts DEF Open
  <2>2. CASE e[1] \notin Range(slot)
    <3>1. end'[e] = end[e] /\ link'[e[1]] = link[e[1]]
        BY <1>2, <2>1, <2>2 DEF DialsTo
    <3>2. QED
        BY <2>1, <3>1, SameOwner DEF Open
  <2>3. CASE e[1] \in Range(slot)
    <3>1. New("queued", <<Version(n)>>).state = "queued"
        BY DEF New, Gone
    <3>2. e[2] = "out"
        BY <1>2, <2>1, <2>3, <3>1 DEF DialsTo
    <3>3. m = n
        BY <1>2, <2>1, <2>3, <3>2 DEF Owner, DialsTo
    <3>4. PICK t \in targets : slot[t] = e[1]
        BY <2>3 DEF Range
    <3>5. e = <<slot[t], "out">>
        BY <2>1, <3>2, <3>4 DEF Ends
    <3>6. QED
        BY <3>3, <3>5
  <2>4. QED
    BY <2>2, <2>3
<1> HIDE DEF new
<1>7. QED
    BY <1>4, <1>5, <1>6

LEMMA ReconnectBounded ==
    ASSUME ConnectionsInv, NEW n \in Nodes, Reconnect(n), NEW m, Bounded(m)
    PROVE  Bounded(m)'
<1>1. /\ Open(n) = {} /\ Dial(n, Bootnodes[n]) /\ Bootnodes[n] \in SUBSET Nodes
    BY ConnectionsAssumption DEF Reconnect
<1>2. CASE m # n
    BY <1>1, <1>2, DialBounded, FewerStayBounded
<1>3. CASE m = n
  <2>1. Open(m)' \subseteq Conns \X {"out"}
    BY <1>1, <1>3, DialBounded
  <2>2. QED
    BY <2>1 DEF Bounded
<1>4. QED
    BY <1>2, <1>3

LEMMA GossipBounded ==
    ASSUME ConnectionsInv, NEW n \in Nodes, NEW S \in SUBSET Nodes, Gossip(n, S),
           NEW m, Bounded(m)
    PROVE  Bounded(m)'
<1> DEFINE news == {t \in S \ (known[n] \cup Dialed(n)) : ~(t = n /\ n \in KnowsSelf)}
<1>1. /\ news \in SUBSET S /\ Cardinality(S) <= PerMessage
      /\ MayDial(n) => Dial(n, news)
      /\ ~MayDial(n) => link' = link /\ end' = end
    BY DEF Gossip
<1> HIDE DEF news
<1>2. CASE ~MayDial(n)
    BY <1>1, <1>2, StaysInTable, FewerStayBounded
<1>3. CASE MayDial(n) /\ m # n
    BY <1>1, <1>3, DialBounded, FewerStayBounded
<1>4. CASE MayDial(n) /\ m = n
  <2>1. PICK new \in SUBSET (Conns \X {"out"}) :
                /\ Open(m)' \subseteq Open(m) \cup new
                /\ IsFiniteSet(new) /\ Cardinality(new) <= Cardinality(news)
    BY <1>1, <1>4, DialBounded
  <2> DEFINE before == Open(m)
             after == Open(m)'
  <2>2. /\ IsFiniteSet(before) /\ Cardinality(before) \in Nat /\ Cardinality(before) < MaxPeers
        /\ after \subseteq before \cup new
    BY <1>4, <2>1, OpenFinite DEF MayDial
  <2> HIDE DEF before, after
  <2>3. /\ IsFiniteSet(S) /\ Cardinality(news) <= Cardinality(S)
        /\ Cardinality(S) \in Nat /\ Cardinality(news) \in Nat
    BY <1>1, ConnectionsAssumption, FS_Subset, FS_CardinalityType
  <2>4. /\ IsFiniteSet(before \cup new)
        /\ Cardinality(before \cup new) =
                Cardinality(before) + Cardinality(new) - Cardinality(before \cap new)
        /\ Cardinality(before \cap new) \in Nat /\ Cardinality(new) \in Nat
        /\ Cardinality(before \cup new) \in Nat
    BY <2>1, <2>2, FS_Union, FS_Intersection, FS_CardinalityType
  <2>5. Cardinality(after) <= Cardinality(before \cup new) /\ Cardinality(after) \in Nat
    BY <2>2, <2>4, FS_Subset, FS_CardinalityType
  <2>6. MaxPeers \in Nat /\ PerMessage \in Nat
    BY ConnectionsAssumption
  <2>7. Cardinality(after) < MaxPeers + PerMessage
    BY <1>1, <2>1, <2>2, <2>3, <2>4, <2>5, <2>6
  <2>8. QED
    BY <2>7 DEF Bounded, after
<1>5. QED
    BY <1>2, <1>3, <1>4

LEMMA BoundedStep ==
    ASSUME ConnectionsInv, [Next]_vars, NEW m, Bounded(m)
    PROVE  Bounded(m)'
<1>1. ASSUME NEW e \in Ends, Offend(e) PROVE Bounded(m)'
  <2>1. link' = link /\ \E s : end' = [end EXCEPT ![e].inbox = s]
    BY <1>1 DEF Offend
  <2>2. \A x \in Ends : end'[x].state = end[x].state
    BY <2>1 DEF ConnectionsInv, ConnectionsType, Connection
  <2>3. QED
    BY <2>1, <2>2, StaysInTable, FewerStayBounded
<1>2. ASSUME NEW c \in Conns, Fail(c) PROVE Bounded(m)'
  <2>1. /\ end' = end /\ link' = [link EXCEPT ![c].up = FALSE] /\ link[c] \in Link
    BY <1>2 DEF Fail, Free, ConnectionsInv, ConnectionsType
  <2>2. \A d \in Conns : link'[d].from = link[d].from /\ link'[d].to = link[d].to
    BY <2>1 DEF ConnectionsInv, ConnectionsType, Link
  <2>3. QED
    BY <2>1, <2>2, EndsFacts, StaysInTable, FewerStayBounded
<1>3. ASSUME UNCHANGED vars PROVE Bounded(m)'
    BY <1>3, StaysInTable, FewerStayBounded DEF vars
<1>4. QED
    BY <1>1, <1>2, <1>3, ReadAllBounded, AcceptBounded, ReconnectBounded, GossipBounded DEF Next

\* The table of a node exceeds MAX_PEERS by less than one message's worth of
\* addresses, or holds only connections that the node dialed itself
\* (SlotsBounded), although handle_p2p_message asks for room only once and the
\* reconnect of tick not at all.
THEOREM TablesBounded == Spec => []SlotsBounded
<1>1. Init => ConnectionsInv /\ SlotsBounded
  <2>1. SUFFICES ASSUME Init PROVE SlotsBounded
    BY ConnectionsStart
  <2>2. \A n : Open(n) = {}
    <3>1. \A e \in Ends : end[e].state = "none"
        BY <2>1 DEF Init, Gone
    <3>2. QED
        BY <3>1 DEF Open
  <2>3. QED
    BY <2>2 DEF SlotsBounded
<1>2. ConnectionsInv /\ SlotsBounded /\ [Next]_vars => ConnectionsInv' /\ SlotsBounded'
  <2>1. SUFFICES ASSUME ConnectionsInv, SlotsBounded, [Next]_vars PROVE SlotsBounded'
    BY ConnectionsStep
  <2>2. \A n \in Nodes : Bounded(n)
    BY <2>1 DEF SlotsBounded, Bounded
  <2>3. \A n \in Nodes : Bounded(n)'
    BY <2>1, <2>2, BoundedStep
  <2>4. QED
    BY <2>3 DEF SlotsBounded, Bounded
<1>3. QED
    BY <1>1, <1>2, PTL DEF Spec

=============================================================================

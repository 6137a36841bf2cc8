--------------------------- MODULE Shares_proofs ---------------------------
(***************************************************************************)
(* Proofs about the shares of a node: the pool it collects them in and     *)
(* the exchange of those of a completed epoch with its peers.              *)
(*                                                                         *)
(* SharePool, for every set of miners and shares and all limits: the       *)
(* counts of the pool are exact, and only a miner with the most shares     *)
(* loses one to an eviction.                                               *)
(* The argument is about one pool: GoodPool says it in terms of positions, *)
(* and it survives the two things that are done to a pool, taking the      *)
(* oldest share of a miner out and putting a new one in.                   *)
(*                                                                         *)
(* ShareSync, for every set of nodes and shares, every page size and every *)
(* interleaving: the root and the archive of a node agree unless its close *)
(* died between the two keys, what a close has saved stays in the archive, *)
(* nothing unacceptable enters, and what else is lost is lost by the close *)
(* or by a restart.                                                        *)
(***************************************************************************)
EXTENDS SharePool, ShareSync, FiniteSetTheorems, SequenceTheorems, TLAPS

----------------------------------------------------------------------------
(* SharePool: the inductive invariant *)

PoolType == [shares : [Miner -> Seq(ShareIds)], count : [Miner -> Nat],
             hashes : SUBSET ShareIds, memory : Nat]

Holds(p, m, x) == \E i \in 1 .. Len(p.shares[m]) : p.shares[m][i] = x

\* What a pool says of the shares of one miner.
Listed(p, m) ==
    /\ p.count[m] = Len(p.shares[m]) /\ p.count[m] <= MaxShares
    /\ \A i \in 1 .. Len(p.shares[m]) : MinerOf[p.shares[m][i]] = m
    /\ \A i, j \in 1 .. Len(p.shares[m]) : p.shares[m][i] = p.shares[m][j] => i = j

GoodPool(p) ==
    /\ p \in PoolType
    /\ IsFiniteSet(p.hashes) /\ p.memory = Cardinality(p.hashes)
    /\ \A x \in ShareIds : x \in p.hashes <=> \E m \in Miner : Holds(p, m, x)
    /\ \A m \in Miner : Listed(p, m)

SharesInv ==
    /\ GoodPool(Pool)
    /\ invalid \in [Miner -> Nat] /\ total \in [Miner -> Nat] /\ height \in Nat
    /\ credit \in [Miner -> Nat] /\ ban \in [Miner -> 0 .. 2]
    /\ \A m \in Miner : count[m] <= credit[m]

----------------------------------------------------------------------------
(* Lemmas about one pool *)

LEMMA PoolsEmpty ==
    ASSUME NEW p, p = [shares |-> [m \in Miner |-> <<>>], count |-> Zero, hashes |-> {}, memory |-> 0]
    PROVE  GoodPool(p)
<1>1. p \in PoolType
    BY DEF PoolType, Zero
<1>2. IsFiniteSet({}) /\ Cardinality({}) = 0
    BY FS_EmptySet
<1>3. \A m \in Miner : p.shares[m] = <<>> /\ p.count[m] = 0 /\ Len(p.shares[m]) = 0
    BY DEF Zero
<1>4. \A m \in Miner : Listed(p, m) /\ \A x : ~Holds(p, m, x)
    BY <1>3, SharePoolAssumption DEF Listed, Holds
<1>5. QED
    BY <1>1, <1>2, <1>4 DEF GoodPool

\* evict_oldest takes one share of one miner out of everything.
LEMMA EvictionGood ==
    ASSUME NEW p, GoodPool(p), NEW m \in Miner, p.shares[m] # <<>>
    PROVE  /\ GoodPool(WithoutOldest(p, m))
           /\ \A o \in Miner :
                 WithoutOldest(p, m).shares[o] = IF o = m THEN Tail(p.shares[o]) ELSE p.shares[o]
           /\ \A o \in Miner : WithoutOldest(p, m).count[o] <= p.count[o]
           /\ WithoutOldest(p, m).hashes \subseteq p.hashes
<1> DEFINE q == WithoutOldest(p, m)
           h == Head(p.shares[m])
<1>1. /\ p \in PoolType /\ p.shares \in [Miner -> Seq(ShareIds)] /\ p.count \in [Miner -> Nat]
      /\ p.hashes \in SUBSET ShareIds /\ p.memory \in Nat
    BY DEF GoodPool, PoolType
<1>2. /\ q.shares = [p.shares EXCEPT ![m] = Tail(@)] /\ q.count = [p.count EXCEPT ![m] = @ - 1]
      /\ q.hashes = p.hashes \ {h} /\ q.memory = p.memory - 1
      /\ q = [shares |-> q.shares, count |-> q.count, hashes |-> q.hashes, memory |-> q.memory]
  <2>1. q = [shares |-> [p.shares EXCEPT ![m] = Tail(@)], count |-> [p.count EXCEPT ![m] = @ - 1],
             hashes |-> p.hashes \ {h}, memory |-> p.memory - 1]
    BY DEF WithoutOldest
  <2> HIDE DEF q, h
  <2>2. QED
    BY <2>1
<1> HIDE DEF q
<1>3. /\ p.shares[m] \in Seq(ShareIds) /\ Len(p.shares[m]) \in Nat \ {0}
      /\ h = p.shares[m][1] /\ h \in ShareIds
      /\ Tail(p.shares[m]) \in Seq(ShareIds)
      /\ Len(Tail(p.shares[m])) = Len(p.shares[m]) - 1
      /\ \A i \in 1 .. Len(p.shares[m]) - 1 : Tail(p.shares[m])[i] = p.shares[m][i + 1]
    BY <1>1, HeadTailProperties, EmptySeq
<1>4. /\ Listed(p, m) /\ h \in p.hashes /\ MinerOf[h] = m
    BY <1>3 DEF GoodPool, Listed, Holds
<1>5. p.count[m] \in Nat \ {0}
    BY <1>3, <1>4 DEF Listed
<1> HIDE DEF h
<1>6. IsFiniteSet(q.hashes) /\ q.memory = Cardinality(q.hashes) /\ q.memory \in Nat
  <2>1. IsFiniteSet(p.hashes) /\ p.memory = Cardinality(p.hashes)
    BY DEF GoodPool
  <2>2. IsFiniteSet(p.hashes \ {h}) /\ Cardinality(p.hashes \ {h}) = Cardinality(p.hashes) - 1
    BY <1>4, <2>1, FS_RemoveElement
  <2>3. QED
    BY <1>2, <2>1, <2>2, FS_CardinalityType
<1>7. q \in PoolType
  <2>1. q.shares \in [Miner -> Seq(ShareIds)]
    BY <1>1, <1>2, <1>3
  <2>2. q.count \in [Miner -> Nat]
    BY <1>1, <1>2, <1>5
  <2>3. q.hashes \in SUBSET ShareIds
    BY <1>1, <1>2
  <2>4. QED
    BY <1>2, <1>6, <2>1, <2>2, <2>3 DEF PoolType
<1>8. /\ \A o \in Miner : o # m => q.shares[o] = p.shares[o] /\ q.count[o] = p.count[o]
      /\ q.shares[m] = Tail(p.shares[m]) /\ q.count[m] = p.count[m] - 1
    BY <1>1, <1>2
<1>9. ASSUME NEW o \in Miner PROVE Listed(q, o)
  <2>1. CASE o = m
    <3>1. Len(q.shares[m]) = Len(p.shares[m]) - 1 /\ q.count[m] <= MaxShares
          /\ q.count[m] = Len(q.shares[m])
        BY <1>3, <1>4, <1>5, <1>8, SharePoolAssumption DEF Listed
    <3>2. \A i \in 1 .. Len(q.shares[m]) :
             i + 1 \in 1 .. Len(p.shares[m]) /\ q.shares[m][i] = p.shares[m][i + 1]
        BY <1>3, <1>8, <3>1
    <3>3. \A i \in 1 .. Len(q.shares[m]) : MinerOf[q.shares[m][i]] = m
        BY <1>4, <3>2 DEF Listed
    <3>4. ASSUME NEW i \in 1 .. Len(q.shares[m]), NEW j \in 1 .. Len(q.shares[m]),
                 q.shares[m][i] = q.shares[m][j]
          PROVE  i = j
      <4>1. p.shares[m][i + 1] = p.shares[m][j + 1]
          BY <3>2, <3>4
      <4>2. i + 1 = j + 1
          BY <1>4, <3>2, <4>1 DEF Listed
      <4>3. QED
          BY <1>3, <3>1, <4>2
    <3>5. QED
        BY <2>1, <3>1, <3>3, <3>4 DEF Listed
  <2>2. CASE o # m
    <3>1. Listed(p, o) /\ q.shares[o] = p.shares[o] /\ q.count[o] = p.count[o]
        BY <1>8, <2>2 DEF GoodPool
    <3>2. QED
        BY <3>1 DEF Listed
  <2>3. QED
    BY <2>1, <2>2
<1>10. ASSUME NEW x \in ShareIds
       PROVE  x \in q.hashes <=> \E o \in Miner : Holds(q, o, x)
  <2>1. ASSUME x \in q.hashes PROVE \E o \in Miner : Holds(q, o, x)
    <3>1. x \in p.hashes /\ x # h
        BY <1>2, <2>1
    <3>2. PICK o \in Miner : Holds(p, o, x)
        BY <3>1 DEF GoodPool
    <3>3. CASE o # m
      <4>1. Holds(q, o, x)
        BY <1>8, <3>2, <3>3 DEF Holds
      <4>2. QED
        BY <4>1
    <3>4. CASE o = m
      <4>1. PICK i \in 1 .. Len(p.shares[m]) : p.shares[m][i] = x
          BY <3>2, <3>4 DEF Holds
      <4>2. i # 1
          BY <1>3, <3>1, <4>1 DEF h
      <4>3. i - 1 \in 1 .. Len(p.shares[m]) - 1 /\ (i - 1) + 1 = i
          BY <1>3, <4>2
      <4>4. Tail(p.shares[m])[i - 1] = x
          BY <1>3, <4>1, <4>3
      <4>5. Holds(q, m, x)
          BY <1>3, <1>8, <4>3, <4>4 DEF Holds
      <4>6. QED
          BY <4>5
    <3>5. QED
        BY <3>3, <3>4
  <2>2. ASSUME NEW o \in Miner, Holds(q, o, x) PROVE x \in q.hashes
    <3>1. CASE o # m
      <4>1. Holds(p, o, x)
          BY <1>8, <2>2, <3>1 DEF Holds
      <4>2. MinerOf[x] = o
          BY <4>1 DEF GoodPool, Listed, Holds
      <4>3. x \in p.hashes /\ x # h
          BY <1>4, <3>1, <4>1, <4>2 DEF GoodPool
      <4>4. QED
          BY <1>2, <4>3
    <3>2. CASE o = m
      <4>1. PICK i \in 1 .. Len(p.shares[m]) - 1 : p.shares[m][i + 1] = x
        <5>1. PICK i \in 1 .. Len(q.shares[m]) : q.shares[m][i] = x
            BY <2>2, <3>2 DEF Holds
        <5>2. i \in 1 .. Len(p.shares[m]) - 1 /\ p.shares[m][i + 1] = x
            BY <1>3, <1>8, <5>1
        <5>3. QED
            BY <5>2
      <4>2. i + 1 \in 1 .. Len(p.shares[m]) /\ 1 \in 1 .. Len(p.shares[m]) /\ i + 1 # 1
          BY <1>3
      <4>3. Holds(p, m, x)
          BY <4>1, <4>2 DEF Holds
      <4>4. x # h
        <5>1. p.shares[m][i + 1] # p.shares[m][1]
            BY <1>4, <4>2 DEF Listed
        <5>2. QED
            BY <1>3, <4>1, <5>1 DEF h
      <4>5. x \in p.hashes
          BY <4>3 DEF GoodPool
      <4>6. QED
          BY <1>2, <4>4, <4>5
    <3>3. QED
        BY <3>1, <3>2
  <2>3. QED
    BY <2>1, <2>2
<1>11. GoodPool(q)
    BY <1>6, <1>7, <1>9, <1>10 DEF GoodPool
<1>12. /\ \A o \in Miner : q.shares[o] = IF o = m THEN Tail(p.shares[o]) ELSE p.shares[o]
       /\ \A o \in Miner : q.count[o] <= p.count[o]
       /\ q.hashes \subseteq p.hashes
  <2>1. \A o \in Miner : q.shares[o] = IF o = m THEN Tail(p.shares[o]) ELSE p.shares[o]
    BY <1>8
  <2>2. \A o \in Miner : p.count[o] \in Nat
    BY <1>1
  <2>3. \A o \in Miner : q.count[o] <= p.count[o]
    BY <1>8, <2>2
  <2>4. QED
    BY <1>2, <2>1, <2>3
<1>13. QED
    BY <1>11, <1>12 DEF q

\* A share that the pool does not know goes to the end of its miner's list.
LEMMA AdditionGood ==
    ASSUME NEW p, GoodPool(p), NEW s \in ShareIds, s \notin p.hashes,
           ~Full(p, MinerOf[s])
    PROVE  /\ GoodPool(With(p, MinerOf[s], s))
           /\ \A o \in Miner : Len(p.shares[o]) <= Len(With(p, MinerOf[s], s).shares[o])
           /\ \A o \in Miner :
                 With(p, MinerOf[s], s).count[o] = IF o = MinerOf[s] THEN p.count[o] + 1 ELSE p.count[o]
<1> DEFINE m == MinerOf[s]
           q == With(p, m, s)
<1>1. /\ p \in PoolType /\ p.shares \in [Miner -> Seq(ShareIds)] /\ p.count \in [Miner -> Nat]
      /\ p.hashes \in SUBSET ShareIds /\ p.memory \in Nat /\ m \in Miner
    BY SharePoolAssumption DEF GoodPool, PoolType
<1> HIDE DEF m
<1>2. /\ q.shares = [p.shares EXCEPT ![m] = Append(@, s)] /\ q.count = [p.count EXCEPT ![m] = @ + 1]
      /\ q.hashes = p.hashes \cup {s} /\ q.memory = p.memory + 1
      /\ q = [shares |-> q.shares, count |-> q.count, hashes |-> q.hashes, memory |-> q.memory]
  <2>1. q = [shares |-> [p.shares EXCEPT ![m] = Append(@, s)], count |-> [p.count EXCEPT ![m] = @ + 1],
             hashes |-> p.hashes \cup {s}, memory |-> p.memory + 1]
    BY DEF With
  <2> HIDE DEF q
  <2>2. QED
    BY <2>1
<1> HIDE DEF q
<1>3. /\ p.shares[m] \in Seq(ShareIds) /\ Len(p.shares[m]) \in Nat
      /\ Append(p.shares[m], s) \in Seq(ShareIds)
      /\ Len(Append(p.shares[m], s)) = Len(p.shares[m]) + 1
      /\ \A i \in 1 .. Len(p.shares[m]) : Append(p.shares[m], s)[i] = p.shares[m][i]
      /\ Append(p.shares[m], s)[Len(p.shares[m]) + 1] = s
    BY <1>1, AppendProperties
<1>4. Listed(p, m) /\ p.count[m] < MaxShares /\ p.count[m] \in Nat
    BY <1>1, SharePoolAssumption DEF GoodPool, Full, m
<1>5. IsFiniteSet(q.hashes) /\ q.memory = Cardinality(q.hashes) /\ q.memory \in Nat
  <2>1. IsFiniteSet(p.hashes) /\ p.memory = Cardinality(p.hashes)
    BY DEF GoodPool
  <2>2. IsFiniteSet(p.hashes \cup {s}) /\ Cardinality(p.hashes \cup {s}) = Cardinality(p.hashes) + 1
    BY <2>1, FS_AddElement
  <2>3. QED
    BY <1>1, <1>2, <2>1, <2>2
<1>6. q \in PoolType
  <2>1. q.shares \in [Miner -> Seq(ShareIds)]
    BY <1>1, <1>2, <1>3
  <2>2. q.count \in [Miner -> Nat]
    BY <1>1, <1>2, <1>4
  <2>3. q.hashes \in SUBSET ShareIds
    BY <1>1, <1>2
  <2>4. QED
    BY <1>2, <1>5, <2>1, <2>2, <2>3 DEF PoolType
<1>7. /\ \A o \in Miner : o # m => q.shares[o] = p.shares[o] /\ q.count[o] = p.count[o]
      /\ q.shares[m] = Append(p.shares[m], s) /\ q.count[m] = p.count[m] + 1
    BY <1>1, <1>2
<1>8. \A o \in Miner : ~Holds(p, o, s)
    BY DEF GoodPool
<1>9. ASSUME NEW o \in Miner PROVE Listed(q, o)
  <2>1. CASE o = m
    <3>1. /\ Len(q.shares[m]) = Len(p.shares[m]) + 1 /\ q.count[m] <= MaxShares
          /\ q.count[m] = Len(q.shares[m])
        BY <1>3, <1>4, <1>7, SharePoolAssumption DEF Listed
    <3>2. ASSUME NEW i \in 1 .. Len(q.shares[m])
          PROVE  \/ i \in 1 .. Len(p.shares[m]) /\ q.shares[m][i] = p.shares[m][i]
                 \/ i = Len(p.shares[m]) + 1 /\ q.shares[m][i] = s
        BY <1>3, <1>7, <3>1
    <3>3. \A i \in 1 .. Len(q.shares[m]) : MinerOf[q.shares[m][i]] = m
        BY <1>4, <3>2 DEF Listed, m
    <3>4. \A i \in 1 .. Len(p.shares[m]) : p.shares[m][i] # s
        BY <1>1, <1>8 DEF Holds
    <3>5. ASSUME NEW i \in 1 .. Len(q.shares[m]), NEW j \in 1 .. Len(q.shares[m]),
                 q.shares[m][i] = q.shares[m][j]
          PROVE  i = j
        BY <1>4, <3>2, <3>4, <3>5 DEF Listed
    <3>6. QED
        BY <2>1, <3>1, <3>3, <3>5 DEF Listed
  <2>2. CASE o # m
    <3>1. Listed(p, o) /\ q.shares[o] = p.shares[o] /\ q.count[o] = p.count[o]
        BY <1>7, <2>2 DEF GoodPool
    <3>2. QED
        BY <3>1 DEF Listed
  <2>3. QED
    BY <2>1, <2>2
<1>10. ASSUME NEW x \in ShareIds
       PROVE  x \in q.hashes <=> \E o \in Miner : Holds(q, o, x)
  <2>1. ASSUME NEW o \in Miner, Holds(p, o, x) PROVE Holds(q, o, x)
    <3>1. CASE o = m
      <4>1. PICK i \in 1 .. Len(p.shares[m]) : p.shares[m][i] = x
          BY <2>1, <3>1 DEF Holds
      <4>2. i \in 1 .. Len(q.shares[m]) /\ q.shares[m][i] = x
          BY <1>3, <1>7, <4>1
      <4>3. QED
          BY <3>1, <4>2 DEF Holds
    <3>2. CASE o # m
        BY <1>7, <2>1, <3>2 DEF Holds
    <3>3. QED
        BY <3>1, <3>2
  <2>2. Holds(q, m, s)
    <3>1. Len(p.shares[m]) + 1 \in 1 .. Len(q.shares[m]) /\ q.shares[m][Len(p.shares[m]) + 1] = s
        BY <1>3, <1>7
    <3>2. QED
        BY <3>1 DEF Holds
  <2>3. ASSUME NEW o \in Miner, Holds(q, o, x), x # s PROVE Holds(p, o, x)
    <3>1. CASE o = m
      <4>1. PICK i \in 1 .. Len(q.shares[m]) : q.shares[m][i] = x
          BY <2>3, <3>1 DEF Holds
      <4>2. i \in 1 .. Len(p.shares[m]) /\ p.shares[m][i] = x
        <5>1. i # Len(p.shares[m]) + 1
            BY <1>3, <1>7, <2>3, <4>1
        <5>2. i \in 1 .. Len(p.shares[m])
            BY <1>3, <1>7, <5>1
        <5>3. QED
            BY <1>3, <1>7, <4>1, <5>2
      <4>3. QED
          BY <3>1, <4>2 DEF Holds
    <3>2. CASE o # m
        BY <1>7, <2>3, <3>2 DEF Holds
    <3>3. QED
        BY <3>1, <3>2
  <2>4. x \in p.hashes <=> \E o \in Miner : Holds(p, o, x)
    BY DEF GoodPool
  <2>5. QED
    BY <1>1, <1>2, <2>1, <2>2, <2>3, <2>4
<1>11. GoodPool(q)
    BY <1>5, <1>6, <1>9, <1>10 DEF GoodPool
<1>12. /\ \A o \in Miner : Len(p.shares[o]) <= Len(q.shares[o])
       /\ \A o \in Miner : q.count[o] = IF o = m THEN p.count[o] + 1 ELSE p.count[o]
  <2>1. \A o \in Miner : Len(p.shares[o]) \in Nat
    BY <1>1
  <2>2. QED
    BY <1>3, <1>7, <2>1
<1>13. QED
    BY <1>11, <1>12 DEF q, m

----------------------------------------------------------------------------
(* The invariant *)

LEMMA SharesInvInit == Init => SharesInv
<1> SUFFICES ASSUME Init PROVE SharesInv
    OBVIOUS
<1>1. Pool = [shares |-> [m \in Miner |-> <<>>], count |-> Zero, hashes |-> {}, memory |-> 0]
    BY DEF Init, Pool
<1>2. GoodPool(Pool)
    BY <1>1, PoolsEmpty
<1>3. QED
    BY <1>2 DEF Init, Zero, SharesInv

\* The pool that is there when a share has made room for itself.
LEMMA RoomyGood ==
    ASSUME GoodPool(Pool), NEW p \in Roomy(Pool)
    PROVE  /\ GoodPool(p) /\ p.hashes \subseteq hashes
           /\ \A o \in Miner : p.count[o] <= count[o]
           /\ \A o \in Miner : Len(p.shares[o]) < Len(shares[o]) => o \in Largest(Pool)
<1>1. /\ Pool.shares = shares /\ Pool.count = count /\ Pool.hashes = hashes
      /\ count \in [Miner -> Nat] /\ shares \in [Miner -> Seq(ShareIds)]
    BY DEF Pool, GoodPool, PoolType
<1>2. CASE p = Pool
  <2>1. \A o \in Miner : count[o] <= count[o] /\ ~(Len(shares[o]) < Len(shares[o]))
    <3>1. \A o \in Miner : count[o] \in Nat /\ Len(shares[o]) \in Nat
        BY <1>1
    <3>2. QED
        BY <3>1
  <2>2. QED
    BY <1>1, <1>2, <2>1
<1>3. CASE p # Pool
  <2>1. PICK m \in Largest(Pool) : p = WithoutOldest(Pool, m)
    BY <1>3 DEF Roomy
  <2>2. m \in Miner /\ Pool.shares[m] # <<>>
    BY DEF Largest
  <2>3. /\ GoodPool(p) /\ p.hashes \subseteq hashes
        /\ \A o \in Miner : p.count[o] <= count[o]
        /\ \A o \in Miner : p.shares[o] = IF o = m THEN Tail(shares[o]) ELSE shares[o]
    BY <1>1, <2>1, <2>2, EvictionGood
  <2>4. ASSUME NEW o \in Miner, Len(p.shares[o]) < Len(shares[o]) PROVE o = m
    <3>1. Len(shares[o]) \in Nat
        BY <1>1
    <3>2. QED
        BY <2>3, <2>4, <3>1
  <2>5. QED
    BY <2>3, <2>4
<1>4. QED
    BY <1>2, <1>3

LEMMA BanInRange ==
    ASSUME SharesInv, NEW m \in Miner
    PROVE  BanFor(m) \in 0 .. 2
BY DEF SharesInv, BanFor

LEMMA EmptiedGood ==
    ASSUME Emptied
    PROVE  GoodPool(Pool)' /\ count' = Zero /\ invalid' = Zero /\ total' = Zero /\ memory' = 0
<1>1. Pool' = [shares |-> [m \in Miner |-> <<>>], count |-> Zero, hashes |-> {}, memory |-> 0]
    BY DEF Emptied, Pool
<1>2. GoodPool(Pool')
    BY <1>1, PoolsEmpty
<1>3. QED
    BY <1>2 DEF Emptied, GoodPool

LEMMA SharesInvNext == SharesInv /\ [Next]_vars => SharesInv'
<1> SUFFICES ASSUME SharesInv, [Next]_vars PROVE SharesInv'
    OBVIOUS
<1> USE DEF SharesInv
<1>1. ASSUME NEW s \in ShareIds, AddValid(s) PROVE SharesInv'
  <2> DEFINE m == MinerOf[s]
  <2>1. m \in Miner
    BY SharePoolAssumption
  <2>2. PICK p \in Roomy(Pool) : ~Full(p, m) /\ SetPool(With(p, m, s))
    BY <1>1 DEF AddValid
  <2>3. /\ s \notin hashes /\ total' = [total EXCEPT ![m] = @ + 1]
        /\ credit' = [credit EXCEPT ![m] = @ + 1]
        /\ UNCHANGED <<invalid, height, ban>>
    BY <1>1 DEF AddValid, Offered
  <2>4. /\ GoodPool(p) /\ s \notin p.hashes /\ \A o \in Miner : p.count[o] <= count[o]
    BY <2>2, <2>3, RoomyGood
  <2>5. /\ GoodPool(With(p, m, s))
        /\ \A o \in Miner : With(p, m, s).count[o] = IF o = m THEN p.count[o] + 1 ELSE p.count[o]
    BY <2>2, <2>4, AdditionGood
  <2>6. Pool' = With(p, m, s)
    BY <2>2 DEF SetPool, Pool, With
  <2>7. ASSUME NEW o \in Miner PROVE count'[o] <= credit'[o]
    <3>1. count'[o] = IF o = m THEN p.count[o] + 1 ELSE p.count[o]
        BY <2>2, <2>5 DEF SetPool
    <3>2. credit'[o] = IF o = m THEN credit[o] + 1 ELSE credit[o]
        BY <2>1, <2>3
    <3>3. p.count[o] <= count[o] /\ p.count[o] \in Nat /\ count[o] \in Nat
        BY <2>4 DEF GoodPool, PoolType, Pool
    <3>4. credit[o] \in Nat /\ count[o] <= credit[o]
        OBVIOUS
    <3>5. QED
        BY <3>1, <3>2, <3>3, <3>4
  <2>8. GoodPool(Pool)'
    BY <2>5, <2>6 DEF GoodPool
  <2> HIDE DEF m
  <2>9. QED
    BY <2>1, <2>3, <2>7, <2>8
<1>2. ASSUME NEW s \in ShareIds, AddOverLimit(s) PROVE SharesInv'
  <2> DEFINE m == MinerOf[s]
  <2>1. m \in Miner
    BY SharePoolAssumption
  <2>2. PICK p \in Roomy(Pool) : SetPool(p)
    BY <1>2 DEF AddOverLimit
  <2>3. /\ total' = [total EXCEPT ![m] = @ + 1]
        /\ ban' = [ban EXCEPT ![m] = BanFor(m)]
        /\ UNCHANGED <<invalid, height, credit>>
    BY <1>2 DEF AddOverLimit, Offered
  <2>4. GoodPool(p) /\ \A o \in Miner : p.count[o] <= count[o]
    BY <2>2, RoomyGood
  <2>5. Pool' = p
    BY <2>2, <2>4 DEF SetPool, Pool, GoodPool, PoolType
  <2>6. ASSUME NEW o \in Miner PROVE count'[o] <= credit'[o]
    <3>1. count'[o] = p.count[o] /\ credit'[o] = credit[o]
        BY <2>2, <2>3 DEF SetPool
    <3>2. p.count[o] <= count[o] /\ p.count[o] \in Nat /\ count[o] \in Nat
        BY <2>4 DEF GoodPool, PoolType, Pool
    <3>3. credit[o] \in Nat /\ count[o] <= credit[o]
        OBVIOUS
    <3>4. QED
        BY <3>1, <3>2, <3>3
  <2>7. GoodPool(Pool)'
    BY <2>4, <2>5 DEF GoodPool
  <2> HIDE DEF m
  <2>8. BanFor(m) \in 0 .. 2
    BY <2>1, BanInRange
  <2>9. ban' \in [Miner -> 0 .. 2] /\ total' \in [Miner -> Nat]
    BY <2>1, <2>3, <2>8
  <2>10. QED
    BY <2>3, <2>6, <2>7, <2>9
<1>3. ASSUME NEW s \in ShareIds, AddInvalid(s) PROVE SharesInv'
  <2>1. MinerOf[s] \in Miner
    BY SharePoolAssumption
  <2>2. /\ total' = [total EXCEPT ![MinerOf[s]] = @ + 1]
        /\ invalid' = [invalid EXCEPT ![MinerOf[s]] = @ + 1]
        /\ Pool' = Pool /\ UNCHANGED <<count, height, credit, ban>>
    BY <1>3 DEF AddInvalid, Offered, Pool
  <2>3. GoodPool(Pool)'
    BY <2>2 DEF GoodPool
  <2>4. QED
    BY <2>1, <2>2, <2>3
<1>4. ASSUME NEW m \in Miner, BanEnds(m) PROVE SharesInv'
  <2>1. /\ ban' = [ban EXCEPT ![m] = 0]
        /\ Pool' = Pool /\ UNCHANGED <<count, invalid, total, height, credit>>
    BY <1>4 DEF BanEnds, Pool
  <2>2. GoodPool(Pool)'
    BY <2>1 DEF GoodPool
  <2>3. QED
    BY <2>1, <2>2
<1>5. ASSUME NewBlock PROVE SharesInv'
  <2>1. height' \in Nat /\ UNCHANGED ban
    BY <1>5 DEF NewBlock
  <2>2. CASE height' % EpochBlocks = 0
    <3>1. Emptied /\ credit' = Zero
        BY <1>5, <2>2 DEF NewBlock
    <3>2. QED
        BY <2>1, <3>1, EmptiedGood DEF Zero
  <2>3. CASE height' % EpochBlocks # 0
    <3>1. Pool' = Pool /\ UNCHANGED <<count, invalid, total, credit>>
        BY <1>5, <2>3 DEF NewBlock, Pool
    <3>2. GoodPool(Pool)'
        BY <3>1 DEF GoodPool
    <3>3. QED
        BY <2>1, <3>1, <3>2
  <2>4. QED
    BY <2>2, <2>3
<1>6. ASSUME Restart PROVE SharesInv'
  <2>1. UNCHANGED <<height, credit, ban>> /\ Emptied
    BY <1>6 DEF Restart
  <2>2. QED
    BY <2>1, EmptiedGood DEF Zero
<1>7. ASSUME UNCHANGED vars PROVE SharesInv'
  <2>1. Pool' = Pool /\ UNCHANGED <<count, invalid, total, height, credit, ban>>
    BY <1>7 DEF vars, Pool
  <2>2. GoodPool(Pool)'
    BY <2>1 DEF GoodPool
  <2>3. QED
    BY <2>1, <2>2
<1>8. QED
    BY <1>1, <1>2, <1>3, <1>4, <1>5, <1>6, <1>7 DEF Next

----------------------------------------------------------------------------
(* Theorems *)

LEMMA SharesInvHolds == Spec => []SharesInv
BY SharesInvInit, SharesInvNext, PTL DEF Spec

\* Through evictions, refusals, epochs and restarts the count of a miner, the
\* set of hashes and the memory in use are those of the shares in the pool,
\* no miner exceeds its limit and none is paid for less than it holds
\* (SharePool::add_share, evict_oldest).
THEOREM PoolCountsExact == Spec => []CountsExact
<1>1. SharesInv => CountsExact
  <2> SUFFICES ASSUME SharesInv PROVE CountsExact
    OBVIOUS
  <2>1. /\ GoodPool(Pool) /\ Pool.shares = shares /\ Pool.count = count
        /\ Pool.hashes = hashes /\ Pool.memory = memory
        /\ shares \in [Miner -> Seq(ShareIds)]
        /\ hashes \subseteq ShareIds
    BY DEF SharesInv, Pool, GoodPool, PoolType
  <2>2. \A m \in Miner : \A x : x \in Range(shares[m]) <=> Holds(Pool, m, x)
    <3>1. ASSUME NEW m \in Miner PROVE DOMAIN shares[m] = 1 .. Len(shares[m])
        BY <2>1
    <3>2. QED
        BY <2>1, <3>1 DEF Range, Holds
  <2>3. hashes = UNION {Range(shares[m]) : m \in Miner}
    <3>1. ASSUME NEW x \in hashes PROVE \E m \in Miner : x \in Range(shares[m])
        BY <2>1, <2>2 DEF GoodPool
    <3>2. ASSUME NEW m \in Miner, NEW x \in Range(shares[m]) PROVE x \in hashes
      <4>1. Holds(Pool, m, x)
          BY <2>2
      <4>2. x \in ShareIds
          BY <2>1, <4>1 DEF Holds
      <4>3. QED
          BY <2>1, <4>1, <4>2 DEF GoodPool
    <3>3. QED
        BY <3>1, <3>2
  <2>4. memory = Cardinality(hashes)
    BY <2>1 DEF GoodPool
  <2>5. ASSUME NEW m \in Miner
        PROVE  /\ count[m] = Len(shares[m]) /\ IsInjective(shares[m])
               /\ count[m] <= MaxShares /\ count[m] <= credit[m]
               /\ \A s \in Range(shares[m]) : MinerOf[s] = m
    <3>1. Listed(Pool, m) /\ DOMAIN shares[m] = 1 .. Len(shares[m])
        BY <2>1 DEF GoodPool
    <3>2. IsInjective(shares[m])
        BY <2>1, <3>1 DEF IsInjective, Listed
    <3>3. \A s \in Range(shares[m]) : MinerOf[s] = m
        BY <2>1, <3>1 DEF Range, Listed
    <3>4. QED
        BY <2>1, <3>1, <3>2, <3>3 DEF Listed, SharesInv
  <2>6. QED
    BY <2>3, <2>4, <2>5 DEF CountsExact
<1>2. QED
    BY <1>1, SharesInvHolds, PTL

\* Within an epoch a miner loses a share only while no other has more of them
\* (evict_oldest).
THEOREM EvictionTakesFromLargest == Spec => EvictionIsFair
<1> DEFINE Fair == \A m \in Miner :
                       Len(shares'[m]) < Len(shares[m]) /\ memory' # 0
                       => \A other \in Miner : Len(shares[other]) <= Len(shares[m])
<1>1. SharesInv /\ [Next]_vars => Fair \/ UNCHANGED vars
  <2> SUFFICES ASSUME SharesInv, Next, NEW m \in Miner,
                      Len(shares'[m]) < Len(shares[m]), memory' # 0
               PROVE  \A other \in Miner : Len(shares[other]) <= Len(shares[m])
    OBVIOUS
  <2>1. /\ shares \in [Miner -> Seq(ShareIds)] /\ GoodPool(Pool)
        /\ Pool.shares = shares /\ Len(shares[m]) \in Nat
    BY DEF SharesInv, Pool, GoodPool, PoolType
  <2>2. m \in Largest(Pool) => \A other \in Miner : Len(shares[other]) <= Len(shares[m])
    BY <2>1 DEF Largest
  <2>3. CASE \E s \in ShareIds : AddValid(s)
    <3>1. PICK s \in ShareIds : AddValid(s)
        BY <2>3
    <3>2. PICK p \in Roomy(Pool) : ~Full(p, MinerOf[s]) /\ SetPool(With(p, MinerOf[s], s))
        BY <3>1 DEF AddValid
    <3>3. s \notin p.hashes /\ GoodPool(p)
        BY <2>1, <3>1, <3>2, RoomyGood DEF AddValid, Offered
    <3>4. Len(p.shares[m]) <= Len(shares'[m]) /\ GoodPool(With(p, MinerOf[s], s))
        BY <3>2, <3>3, AdditionGood DEF SetPool
    <3>5. Len(p.shares[m]) \in Nat /\ Len(shares'[m]) \in Nat
      <4>1. p.shares[m] \in Seq(ShareIds)
          BY <3>3 DEF GoodPool, PoolType
      <4>2. shares'[m] \in Seq(ShareIds)
          BY <3>2, <3>4 DEF GoodPool, PoolType, SetPool
      <4>3. QED
          BY <4>1, <4>2
    <3>6. Len(p.shares[m]) < Len(shares[m])
        BY <2>1, <3>4, <3>5
    <3>7. QED
        BY <2>1, <2>2, <3>2, <3>6, RoomyGood
  <2>4. CASE \E s \in ShareIds : AddOverLimit(s)
    <3>1. PICK p \in Roomy(Pool) : SetPool(p)
        BY <2>4 DEF AddOverLimit
    <3>2. Len(p.shares[m]) < Len(shares[m])
        BY <3>1 DEF SetPool
    <3>3. QED
        BY <2>1, <2>2, <3>1, <3>2, RoomyGood
  <2>5. ASSUME UNCHANGED shares PROVE FALSE
    BY <2>1, <2>5
  <2>6. ASSUME Emptied PROVE FALSE
    BY <2>6 DEF Emptied
  <2>7. CASE \E s \in ShareIds : AddInvalid(s)
    BY <2>5, <2>7 DEF AddInvalid
  <2>8. CASE \E miner \in Miner : BanEnds(miner)
    BY <2>5, <2>8 DEF BanEnds
  <2>9. CASE NewBlock
    BY <2>5, <2>6, <2>9 DEF NewBlock
  <2>10. CASE Restart
    BY <2>6, <2>10 DEF Restart
  <2>11. QED
    BY <2>3, <2>4, <2>7, <2>8, <2>9, <2>10 DEF Next
<1>2. QED
    BY <1>1, SharesInvHolds, PTL DEF Spec, EvictionIsFair

----------------------------------------------------------------------------
(* ShareSync: the inductive invariant *)

\* The types of all but votes and messages, which no property rests on.
StoreTypeOK ==
    /\ pool \in [Node -> OptionalShares]
    /\ archive \in [Node -> OptionalShares]
    /\ root \in [Node -> OptionalShares]
    /\ savedShares \in [Node -> OptionalShares]
    /\ savedRoot \in [Node -> OptionalShares]
    /\ torn \subseteq Node
    /\ nodeRestarts \in Nat

\* What has not been served yet was collected by the node itself.
OwnIsMined ==
    \A n \in Node :
        /\ pool[n] # Absent => pool[n] \subseteq Mined[n]
        /\ savedShares[n] # Absent => savedShares[n] \subseteq Mined[n]

SyncInv ==
    /\ StoreTypeOK
    /\ OwnIsMined
    /\ RootIsOfArchive
    /\ OwnSharesServed
    /\ OnlyAcceptable

LEMMA SyncInitInv == SyncInit => SyncInv
BY ShareSyncAssumption
   DEF SyncInit, SyncInv, StoreTypeOK, OptionalShares, OwnIsMined, RootIsOfArchive, RootOf,
       OwnSharesServed, OnlyAcceptable

\* An archive with shares in it is a set of shares, and not the sentinel.
LEMMA MergedIsSet ==
    ASSUME StoreTypeOK, NEW n \in Node, NEW received
    PROVE  Merged(n, received) \in SUBSET Shares /\ Merged(n, received) # Absent
<1>1. Merged(n, received) \in SUBSET Shares
    BY ShareSyncAssumption DEF Merged, StoreTypeOK, OptionalShares
<1>2. QED
    BY <1>1, ShareSyncAssumption

LEMMA CloseEpochInv == ASSUME SyncInv, NEW n \in Node, CloseEpoch(n) PROVE SyncInv'
<1>1. pool[n] \in SUBSET Shares /\ pool[n] # Absent
    BY DEF SyncInv, StoreTypeOK, OptionalShares, CloseEpoch
<1>2. StoreTypeOK'
    BY <1>1 DEF SyncInv, StoreTypeOK, OptionalShares, CloseEpoch, Root
<1>3. OwnIsMined'
    BY DEF SyncInv, StoreTypeOK, OwnIsMined, CloseEpoch
<1>4. RootIsOfArchive'
    BY <1>1 DEF SyncInv, StoreTypeOK, RootIsOfArchive, RootOf, CloseEpoch, Root
<1>5. OwnSharesServed'
    BY <1>1 DEF SyncInv, StoreTypeOK, OwnSharesServed, CloseEpoch
<1>6. OnlyAcceptable'
    BY DEF SyncInv, StoreTypeOK, OwnIsMined, OnlyAcceptable, CloseEpoch
<1>7. QED
    BY <1>2, <1>3, <1>4, <1>5, <1>6 DEF SyncInv

LEMMA ShareReplyInv ==
    ASSUME SyncInv, NEW n \in Node, NEW p \in Node, HandleShareReply(n, p)
    PROVE  SyncInv'
<1> DEFINE merged == Merged(n, Head(net[p][n]).shares)
<1>1. /\ archive' = [archive EXCEPT ![n] = merged]
      /\ root' = [root EXCEPT ![n] = merged]
      /\ UNCHANGED <<pool, saved, nodeRestarts>>
    BY DEF HandleShareReply, Root
<1>2. merged \in SUBSET Shares /\ merged # Absent
    BY MergedIsSet DEF SyncInv
<1>3. merged \subseteq Accepts[n] \cup (IF archive[n] = Absent THEN {} ELSE archive[n])
    BY DEF Merged
<1>4. (IF archive[n] = Absent THEN {} ELSE archive[n]) \subseteq merged
    BY DEF Merged
<1> HIDE DEF merged
<1>5. StoreTypeOK'
    BY <1>1, <1>2 DEF SyncInv, StoreTypeOK, OptionalShares, saved
<1>6. OwnIsMined'
    BY <1>1 DEF SyncInv, OwnIsMined, saved
<1>7. RootIsOfArchive'
    BY <1>1, <1>2 DEF SyncInv, StoreTypeOK, RootIsOfArchive, RootOf, Root, saved
<1>8. OwnSharesServed'
    BY <1>1, <1>2, <1>4 DEF SyncInv, StoreTypeOK, OwnSharesServed, saved
<1>9. OnlyAcceptable'
    BY <1>1, <1>3 DEF SyncInv, StoreTypeOK, OnlyAcceptable
<1>10. QED
    BY <1>5, <1>6, <1>7, <1>8, <1>9 DEF SyncInv

\* A process that starts from a disk as RootIsOfArchive wants it.
LEMMA StartsInv ==
    ASSUME SyncInv, NEW n \in Node, Starts(n),
           pool' \in [Node -> OptionalShares], savedShares' \in [Node -> OptionalShares],
           savedRoot' \in [Node -> OptionalShares], torn' \subseteq Node,
           OwnIsMined',
           \A o \in Node \ {n} : /\ savedShares'[o] = savedShares[o]
                                 /\ savedRoot'[o] = savedRoot[o]
                                 /\ o \in torn' <=> o \in torn,
           n \in torn' \/ savedRoot'[n] = RootOf(savedShares'[n])
    PROVE  SyncInv'
<1>1. /\ archive' = [archive EXCEPT ![n] = Loaded(savedShares'[n])]
      /\ root' = [root EXCEPT ![n] = LoadedRoot(savedShares'[n], savedRoot'[n])]
      /\ nodeRestarts' \in Nat
    BY DEF Starts, SyncInv, StoreTypeOK
<1>2. /\ archive \in [Node -> OptionalShares] /\ root \in [Node -> OptionalShares]
      /\ Absent \in OptionalShares /\ {} # Absent
    BY ShareSyncAssumption DEF SyncInv, StoreTypeOK, OptionalShares
<1>3. /\ Loaded(savedShares'[n]) \in OptionalShares
      /\ LoadedRoot(savedShares'[n], savedRoot'[n]) \in OptionalShares
    BY <1>2 DEF Loaded, LoadedRoot
<1>4. StoreTypeOK'
    BY <1>1, <1>2, <1>3 DEF StoreTypeOK, OptionalShares
<1>5. /\ archive'[n] = Loaded(savedShares'[n])
      /\ root'[n] = LoadedRoot(savedShares'[n], savedRoot'[n])
      /\ \A o \in Node \ {n} : archive'[o] = archive[o] /\ root'[o] = root[o]
    BY <1>1, <1>2
<1>6. \A o \in Node \ {n} : /\ archive'[o] = archive[o] /\ root'[o] = root[o]
                            /\ savedShares'[o] = savedShares[o]
                            /\ savedRoot'[o] = savedRoot[o]
                            /\ o \in torn' <=> o \in torn
    BY <1>5
<1>7. RootIsOfArchive'
  <2> SUFFICES ASSUME NEW o \in Node
               PROVE  /\ \/ root'[o] = RootOf(archive'[o])
                         \/ /\ o \in torn' /\ archive'[o] = savedShares'[o]
                            /\ root'[o] = savedRoot'[o]
                      /\ o \in torn' \/ savedRoot'[o] = RootOf(savedShares'[o])
    BY DEF RootIsOfArchive, RootOf
  <2>1. CASE o = n
    BY <1>2, <1>5, <2>1 DEF Loaded, LoadedRoot, RootOf
  <2>2. CASE o # n
    <3>1. /\ \/ root[o] = RootOf(archive[o])
             \/ o \in torn /\ archive[o] = savedShares[o] /\ root[o] = savedRoot[o]
          /\ o \in torn \/ savedRoot[o] = RootOf(savedShares[o])
        BY DEF SyncInv, RootIsOfArchive
    <3>2. QED
        BY <1>6, <2>2, <3>1
  <2>3. QED
    BY <2>1, <2>2
<1>8. OwnSharesServed'
  <2>1. ASSUME NEW o \in Node, savedShares'[o] \notin {Absent, {}}
        PROVE  archive'[o] # Absent /\ savedShares'[o] \subseteq archive'[o]
    <3>1. savedShares[o] \notin {Absent, {}}
          => archive[o] # Absent /\ savedShares[o] \subseteq archive[o]
        BY DEF SyncInv, OwnSharesServed
    <3>2. CASE o = n
        BY <1>5, <2>1, <3>2 DEF Loaded
    <3>3. CASE o # n
        BY <1>6, <2>1, <3>1, <3>3
    <3>4. QED
        BY <3>2, <3>3
  <2>2. QED
    BY <2>1 DEF OwnSharesServed
<1>9. OnlyAcceptable'
  <2>1. ASSUME NEW o \in Node, archive'[o] # Absent
        PROVE  archive'[o] \subseteq Accepts[o] \cup Mined[o]
    BY <1>5, <2>1 DEF Loaded, SyncInv, OnlyAcceptable, OwnIsMined
  <2>2. QED
    BY <2>1 DEF OnlyAcceptable
<1>10. QED
    BY <1>4, <1>7, <1>8, <1>9 DEF SyncInv

LEMMA RestartNodeInv == ASSUME SyncInv, NEW n \in Node, RestartNode(n) PROVE SyncInv'
<1>1. /\ Starts(n) /\ UNCHANGED <<savedShares, savedRoot, torn>>
      /\ \/ pool' = pool
         \/ \E set \in Recollected[n] : pool' = [pool EXCEPT ![n] = set]
    BY DEF RestartNode, saved
<1>2. \A set \in Recollected[n] : set \in OptionalShares /\ set \subseteq Mined[n]
    BY ShareSyncAssumption DEF OptionalShares
<1>3. pool' \in [Node -> OptionalShares] /\ OwnIsMined'
    BY <1>1, <1>2 DEF SyncInv, StoreTypeOK, OwnIsMined
<1>4. /\ savedShares' \in [Node -> OptionalShares] /\ savedRoot' \in [Node -> OptionalShares]
      /\ torn' \subseteq Node /\ (n \in torn' \/ savedRoot'[n] = RootOf(savedShares'[n]))
      /\ \A o \in Node \ {n} : /\ savedShares'[o] = savedShares[o]
                               /\ savedRoot'[o] = savedRoot[o]
                               /\ o \in torn' <=> o \in torn
    BY <1>1 DEF SyncInv, StoreTypeOK, RootIsOfArchive
<1>5. QED
    BY <1>1, <1>3, <1>4, StartsInv

LEMMA CrashInCloseInv == ASSUME SyncInv, NEW n \in Node, CrashInClose(n) PROVE SyncInv'
<1>1. /\ Starts(n) /\ pool[n] \in SUBSET Shares /\ pool[n] # Absent
      /\ \E set \in Recollected[n] \cup {Absent} : pool' = [pool EXCEPT ![n] = set]
    BY DEF CrashInClose, SyncInv, StoreTypeOK, OptionalShares
<1>2. \/ UNCHANGED <<savedShares, savedRoot, torn>>
      \/ /\ savedShares' = [savedShares EXCEPT ![n] = pool[n]]
         /\ savedRoot' = savedRoot /\ torn' = torn \cup {n}
      \/ /\ savedShares' = [savedShares EXCEPT ![n] = pool[n]]
         /\ savedRoot' = [savedRoot EXCEPT ![n] = pool[n]] /\ torn' = torn \ {n}
    BY DEF CrashInClose, saved, Root
<1>3. \A set \in Recollected[n] \cup {Absent} :
          set \in OptionalShares /\ (set # Absent => set \subseteq Mined[n])
    BY ShareSyncAssumption DEF OptionalShares
<1>4. /\ savedShares \in [Node -> OptionalShares] /\ savedRoot \in [Node -> OptionalShares]
      /\ pool \in [Node -> OptionalShares] /\ torn \subseteq Node
      /\ pool[n] \in OptionalShares /\ pool[n] \subseteq Mined[n]
    BY <1>1 DEF SyncInv, StoreTypeOK, OwnIsMined
<1>5. /\ pool' \in [Node -> OptionalShares]
      /\ savedShares' \in [Node -> OptionalShares] /\ savedRoot' \in [Node -> OptionalShares]
      /\ torn' \subseteq Node
    BY <1>1, <1>2, <1>3, <1>4
<1>6. OwnIsMined'
  <2>1. ASSUME NEW o \in Node, pool'[o] # Absent PROVE pool'[o] \subseteq Mined[o]
    BY <1>1, <1>3, <1>4, <2>1 DEF SyncInv, OwnIsMined
  <2>2. ASSUME NEW o \in Node, savedShares'[o] # Absent PROVE savedShares'[o] \subseteq Mined[o]
    BY <1>2, <1>4, <2>2 DEF SyncInv, OwnIsMined
  <2>3. QED
    BY <2>1, <2>2 DEF OwnIsMined
<1>7. \A o \in Node \ {n} : /\ savedShares'[o] = savedShares[o]
                            /\ savedRoot'[o] = savedRoot[o]
                            /\ o \in torn' <=> o \in torn
    BY <1>2, <1>4
<1>8. n \in torn' \/ savedRoot'[n] = RootOf(savedShares'[n])
    BY <1>1, <1>2, <1>4 DEF RootOf, Root, SyncInv, RootIsOfArchive
<1>9. QED
    BY <1>1, <1>5, <1>6, <1>7, <1>8, StartsInv

\* The other handlers touch neither shares nor roots.
LEMMA StoreKept ==
    ASSUME SyncInv, UNCHANGED <<pool, archive, root, saved, nodeRestarts>>
    PROVE  SyncInv'
BY DEF SyncInv, StoreTypeOK, OwnIsMined, RootIsOfArchive, RootOf, OwnSharesServed,
       OnlyAcceptable, saved

LEMMA SyncNextInv == SyncInv /\ [SyncNext]_syncVars => SyncInv'
<1> SUFFICES ASSUME SyncInv, [SyncNext]_syncVars PROVE SyncInv'
    OBVIOUS
<1>1. CASE \E n \in Node : CloseEpoch(n)
    BY <1>1, CloseEpochInv
<1>2. ASSUME NEW n \in Node, NEW p \in Node, Handle(n, p) PROVE SyncInv'
    <2>1. CASE HandleEpochCommit(n, p)
        BY <2>1, StoreKept DEF HandleEpochCommit
    <2>2. CASE HandleGetShares(n, p)
        BY <2>2, StoreKept DEF HandleGetShares
    <2>3. CASE HandleShareReply(n, p)
        BY <2>3, ShareReplyInv
    <2>4. QED
        BY <1>2, <2>1, <2>2, <2>3 DEF Handle
<1>3. CASE \E n \in Node : RestartNode(n)
    BY <1>3, RestartNodeInv
<1>4. CASE \E n \in Node : CrashInClose(n)
    BY <1>4, CrashInCloseInv
<1>5. CASE UNCHANGED syncVars
    BY <1>5, StoreKept DEF syncVars
<1>6. QED
    BY <1>1, <1>2, <1>3, <1>4, <1>5 DEF SyncNext

THEOREM SyncInvHolds == SyncSpec => []SyncInv
BY SyncInitInv, SyncNextInv, PTL DEF SyncSpec

----------------------------------------------------------------------------
(* ShareSync: the properties that TLC checks *)

\* The root a node compares with is that of the archive it serves, unless its
\* close died between the keys of the two and nothing has come since; of all
\* other nodes the two keys agree (process_epoch_end, load_state,
\* handle_share_reply).
THEOREM RootsAgree == SyncSpec => []RootIsOfArchive
<1>1. SyncInv => RootIsOfArchive
    BY DEF SyncInv
<1>2. QED
    BY <1>1, SyncInvHolds, PTL

\* No merge, close, restart or crash in a close takes out of the archive what
\* the last close has saved.
THEOREM OwnSharesStay == SyncSpec => []OwnSharesServed
<1>1. SyncInv => OwnSharesServed
    BY DEF SyncInv
<1>2. QED
    BY <1>1, SyncInvHolds, PTL

\* No chain of replies brings a share into an archive whose owner would not
\* have accepted it.
THEOREM NothingUnacceptable == SyncSpec => []OnlyAcceptable
<1>1. SyncInv => OnlyAcceptable
    BY DEF SyncInv
<1>2. QED
    BY <1>1, SyncInvHolds, PTL

\* A reply never takes shares away; only the close and a restart do.
THEOREM LossesAreKnown == SyncSpec => LostOnlyByCloseOrRestart
<1> DEFINE Lost(n) ==
        \/ archive[n] = Absent
        \/ archive'[n] # Absent /\ archive[n] \subseteq archive'[n]
        \/ pool'[n] # pool[n]
        \/ nodeRestarts' # nodeRestarts
<1>1. ASSUME SyncInv, [SyncNext]_syncVars, NEW n \in Node PROVE Lost(n)
    <2>1. CASE archive'[n] = archive[n]
        BY <2>1
    <2>2. ASSUME NEW m \in Node, CloseEpoch(m) PROVE Lost(n)
        <3>1. CASE n = m
            BY <3>1, <2>2, <1>1 DEF CloseEpoch, SyncInv, StoreTypeOK
        <3>2. CASE n # m
            BY <3>2, <2>2, <2>1, <1>1 DEF CloseEpoch, SyncInv, StoreTypeOK
        <3>3. QED
            BY <3>1, <3>2
    <2>3. ASSUME NEW m \in Node, NEW p \in Node, HandleShareReply(m, p) PROVE Lost(n)
        <3> DEFINE merged == Merged(m, Head(net[p][m]).shares)
        <3>1. archive' = [archive EXCEPT ![m] = merged]
            BY <2>3 DEF HandleShareReply
        <3>2. merged # Absent
            BY MergedIsSet, <1>1 DEF SyncInv
        <3>3. archive[m] # Absent => archive[m] \subseteq merged
            BY DEF Merged
        <3> HIDE DEF merged
        <3>4. QED
            BY <3>1, <3>2, <3>3, <1>1 DEF SyncInv, StoreTypeOK
    <2>4. ASSUME NEW m \in Node, RestartNode(m) \/ CrashInClose(m) PROVE Lost(n)
        <3>1. nodeRestarts' # nodeRestarts
            BY <2>4, <1>1 DEF RestartNode, CrashInClose, Starts, SyncInv, StoreTypeOK
        <3>2. QED
            BY <3>1
    <2>5. QED
        BY <1>1, <2>1, <2>2, <2>3, <2>4
        DEF SyncNext, Handle, HandleEpochCommit, HandleGetShares, syncVars
<1>2. SyncInv /\ [SyncNext]_syncVars => [\A n \in Node : Lost(n)]_syncVars
    BY <1>1
<1>3. QED
    BY <1>2, SyncInvHolds, PTL DEF SyncSpec, LostOnlyByCloseOrRestart

=============================================================================

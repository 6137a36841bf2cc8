--------------------------- MODULE Retarget_proofs ---------------------------
(***************************************************************************)
(* Proofs about Retarget, for every set of nodes, every skew of their      *)
(* clocks and all parameters of the difficulty: blocks on one parent carry *)
(* one target, no target is easier than that of genesis, and a block is    *)
(* refused for its timestamp only when clocks differ, and by how much.     *)
(*                                                                         *)
(* The argument: the target of a block is a function of the blocks below   *)
(* it (Computed), also when it came out of the cache; a timestamp is the   *)
(* real time at which its maker prepared the job plus the skew of its      *)
(* clock, and real times increase along a chain, timestamps need not; the  *)
(* median of any timestamps is one of them.                                *)
(***************************************************************************)
EXTENDS Retarget, FiniteSetTheorems, SequenceTheorems, WellFoundedInduction, TLAPS

----------------------------------------------------------------------------
(* The inductive invariant *)

Header == [time : Nat, target : 0 .. GenesisTarget, by : Nodes \cup {"genesis"}]
Job == [found : {TRUE}, since : Nat, header : Header]

\* What compute_difficulty_for_next_block returns on c without a cache.
Computed(c) ==
    IF Retargets(c) THEN AdjustDifficulty(Window(c), Last(c).target) ELSE Last(c).target

\* A chain on which every target was computed from the blocks below.
GoodChain(c) ==
    /\ c \in Seq(Header) /\ Len(c) >= 1 /\ c[1] = Genesis
    /\ \A i \in 2 .. Len(c) : c[i].target = Computed(SubSeq(c, 1, i - 1))

CacheOK(n) ==
    /\ cached[n] \in [height : Nat, target : 0 .. GenesisTarget]
    /\ Retargets(chain[n]) /\ cached[n].height = Height(chain[n])
            => cached[n].target = Computed(chain[n])

JobOK(n) ==
    job[n] # NoJob => job[n] \in Job /\ job[n].header.target = Computed(chain[n])

TargetInv ==
    /\ now \in Nat /\ DOMAIN chain = Nodes /\ DOMAIN cached = Nodes /\ DOMAIN job = Nodes
    /\ \A n \in Nodes : GoodChain(chain[n]) /\ CacheOK(n) /\ JobOK(n)

----------------------------------------------------------------------------
(* Lemmas about chains *)

LEMMA ConstantsOK ==
    /\ GenesisTime \in Nat /\ StartTime \in Nat /\ GenesisTime < StartTime
    /\ MinSearch \in Nat /\ FutureLimit \in Nat /\ MaxHeight \in Nat /\ MaxTime \in Nat
    /\ GenesisTarget \in Nat \ {0} /\ Interval \in Nat \ {0} /\ BlockTime \in Nat \ {0}
    /\ MedianWindow \in Nat \ {0} /\ MinPercent \in Nat /\ MaxPercent \in Nat
    /\ \A n \in Nodes : Skew[n] \in Nat
BY RetargetAssumption

LEMMA GenesisIsHeader == Genesis \in Header
BY ConstantsOK DEF Genesis, Header

\* The chain of a node that knows nothing but genesis.
LEMMA GenesisChain == GoodChain(<<Genesis>>)
<1>1. <<Genesis>> \in Seq(Header) /\ Len(<<Genesis>>) = 1 /\ <<Genesis>>[1] = Genesis
    BY GenesisIsHeader
<1>2. QED
    BY <1>1 DEF GoodChain

\* The blocks below a block do not change when the chain grows or is cut above.
LEMMA BelowAppend ==
    ASSUME NEW c \in Seq(Header), NEW b \in Header, NEW i \in 1 .. Len(c)
    PROVE  SubSeq(Append(c, b), 1, i) = SubSeq(c, 1, i)
BY SMT

LEMMA BelowPrefix ==
    ASSUME NEW c \in Seq(Header), NEW k \in 1 .. Len(c), NEW i \in 1 .. k
    PROVE  SubSeq(SubSeq(c, 1, k), 1, i) = SubSeq(c, 1, i)
BY SMT

LEMMA AppendedChain ==
    ASSUME NEW c, GoodChain(c), NEW b \in Header, b.target = Computed(c)
    PROVE  GoodChain(Append(c, b))
<1>1. c \in Seq(Header) /\ Len(c) \in Nat \ {0} /\ c[1] = Genesis
    BY DEF GoodChain
<1>2. /\ Append(c, b) \in Seq(Header) /\ Len(Append(c, b)) = Len(c) + 1
      /\ \A i \in 1 .. Len(c) : Append(c, b)[i] = c[i]
      /\ Append(c, b)[Len(c) + 1] = b
    BY <1>1, AppendProperties
<1>3. ASSUME NEW i \in 2 .. Len(c) + 1
      PROVE  Append(c, b)[i].target = Computed(SubSeq(Append(c, b), 1, i - 1))
  <2>1. SubSeq(Append(c, b), 1, i - 1) = SubSeq(c, 1, i - 1)
    <3>1. i - 1 \in 1 .. Len(c)
        BY <1>1
    <3>2. QED
        BY <1>1, <3>1, BelowAppend
  <2>2. CASE i = Len(c) + 1
    <3>1. SubSeq(c, 1, i - 1) = c
        BY <1>1, <2>2, SubSeqFull
    <3>2. QED
        BY <1>2, <2>1, <2>2, <3>1
  <2>3. CASE i # Len(c) + 1
    <3>1. i \in 2 .. Len(c) /\ i \in 1 .. Len(c)
        BY <1>1, <2>3
    <3>2. c[i].target = Computed(SubSeq(c, 1, i - 1))
        BY <3>1 DEF GoodChain
    <3>3. QED
        BY <1>2, <2>1, <3>1, <3>2
  <2>4. QED
    BY <2>2, <2>3
<1>4. Append(c, b)[1] = Genesis /\ Len(Append(c, b)) >= 1
    BY <1>1, <1>2
<1>5. QED
    BY <1>2, <1>3, <1>4 DEF GoodChain

LEMMA PrefixChain ==
    ASSUME NEW c, GoodChain(c), NEW k \in 1 .. Len(c)
    PROVE  /\ GoodChain(SubSeq(c, 1, k)) /\ Len(SubSeq(c, 1, k)) = k
           /\ \A i \in 1 .. k : SubSeq(c, 1, k)[i] = c[i]
<1> DEFINE p == SubSeq(c, 1, k)
<1>1. c \in Seq(Header) /\ Len(c) \in Nat \ {0} /\ c[1] = Genesis
    BY DEF GoodChain
<1>2. p \in Seq(Header) /\ Len(p) = k /\ \A i \in 1 .. k : p[i] = c[i]
    BY <1>1
<1>3. ASSUME NEW i \in 2 .. k
      PROVE  p[i].target = Computed(SubSeq(p, 1, i - 1))
  <2>1. i \in 2 .. Len(c) /\ i \in 1 .. k /\ i - 1 \in 1 .. k
    BY <1>1
  <2>2. SubSeq(p, 1, i - 1) = SubSeq(c, 1, i - 1)
    BY <1>1, <2>1, BelowPrefix
  <2>3. c[i].target = Computed(SubSeq(c, 1, i - 1))
    BY <2>1 DEF GoodChain
  <2>4. QED
    BY <1>2, <2>1, <2>2, <2>3
<1>4. p[1] = Genesis /\ Len(p) >= 1
    BY <1>1, <1>2
<1>5. QED
    BY <1>2, <1>3, <1>4 DEF GoodChain

\* What a node appends when it accepts the next block of another one is a
\* longer part of that other chain.
LEMMA OfferedExtends ==
    ASSUME NEW m \in Nodes, NEW n \in Nodes,
           GoodChain(chain[m]), GoodChain(chain[n]), Offers(m, n)
    PROVE  /\ Len(chain[n]) + 1 \in 1 .. Len(chain[m])
           /\ Append(chain[n], Offered(m, n)) = SubSeq(chain[m], 1, Len(chain[n]) + 1)
           /\ \A i \in 1 .. Len(chain[n]) : chain[n][i] = chain[m][i]
<1> DEFINE k == Len(chain[n])
<1>1. chain[m] \in Seq(Header) /\ chain[n] \in Seq(Header) /\ k \in Nat \ {0}
    BY DEF GoodChain
<1>2. k + 1 \in 1 .. Len(chain[m]) /\ k \in 1 .. Len(chain[m])
    BY <1>1 DEF Offers
<1>3. chain[n] = SubSeq(chain[m], 1, k)
    BY <1>1, SubSeqFull DEF Offers, IsPrefix
<1>4. \A i \in 1 .. k : chain[n][i] = chain[m][i]
    BY <1>2, <1>3, PrefixChain
<1>5. Append(chain[n], chain[m][k + 1]) = SubSeq(chain[m], 1, k + 1)
    BY <1>1, <1>2, <1>4
<1>6. QED
    BY <1>2, <1>4, <1>5 DEF Offered

----------------------------------------------------------------------------
(* Lemmas about targets *)

LEMMA LastIsHeader ==
    ASSUME NEW c \in Seq(Header), Len(c) >= 1
    PROVE  Last(c) = c[Len(c)] /\ Last(c) \in Header
<1>1. c[Len(c)] \in Header
    BY ElementOfSeq
<1>2. QED
    BY <1>1 DEF Last

LEMMA ProductPositive ==
    ASSUME NEW a \in Nat \ {0}, NEW b \in Nat \ {0}
    PROVE  a * b \in Nat \ {0}
BY SMT

\* A block at which the difficulty is adjusted has a full window behind it.
LEMMA WindowOfChain ==
    ASSUME NEW c \in Seq(Header), Len(c) >= 1, Retargets(c)
    PROVE  /\ Len(c) >= Interval
           /\ Window(c) \in Seq(Header) /\ Len(Window(c)) = Interval
<1>1. Len(c) >= Interval
    BY ConstantsOK DEF Retargets, Height
<1>2. QED
    BY <1>1, ConstantsOK DEF Window

\* The computation never leaves the range up to the proof-of-work limit.
LEMMA ComputedInRange ==
    ASSUME NEW c, GoodChain(c)
    PROVE  Computed(c) \in 0 .. GenesisTarget
<1>1. c \in Seq(Header) /\ Len(c) \in Nat \ {0} /\ Len(c) \in 1 .. Len(c)
    BY DEF GoodChain
<1>2. Last(c).target \in 0 .. GenesisTarget
  <2>1. Last(c) \in Header
    BY <1>1, LastIsHeader
  <2>2. QED
    BY <2>1 DEF Header
<1>3. CASE ~Retargets(c)
    BY <1>2, <1>3 DEF Computed
<1>4. CASE Retargets(c)
  <2> DEFINE w == Window(c)
             target == Last(c).target
             actual == w[Len(w)].time - w[1].time
             expected == BlockTime * (Interval - 1)
             lower == AtLeast(1, (expected * MinPercent) \div 100)
             upper == AtLeast(lower, (expected * MaxPercent) \div 100)
             scaled == (target * Clamp(actual, lower, upper)) \div expected
  <2>1. CASE Interval < 2 \/ actual <= 0
    BY <1>2, <1>4, <2>1 DEF Computed, AdjustDifficulty
  <2>2. CASE ~(Interval < 2 \/ actual <= 0)
    <3>1. Computed(c) = Capped(scaled)
        BY <1>4, <2>2 DEF Computed, AdjustDifficulty
    <3>2. scaled \in Nat
      <4>1. BlockTime \in Nat \ {0} /\ Interval \in Nat /\ Interval >= 2
          BY <2>2, ConstantsOK
      <4>2. expected \in Nat \ {0}
          BY <4>1, ProductPositive
      <4>3. lower \in Int /\ upper \in Int /\ 1 <= lower /\ lower <= upper
        <5>1. expected * MinPercent \in Nat /\ expected * MaxPercent \in Nat
            BY <4>2, ConstantsOK
        <5>2. (expected * MinPercent) \div 100 \in Int /\ (expected * MaxPercent) \div 100 \in Int
            BY <5>1
        <5>3. QED
            BY <5>2 DEF AtLeast
      <4>4. actual \in Int
        <5>1. Len(w) \in Nat \ {0} /\ w \in Seq(Header)
            BY <1>1, <1>4, <4>1, WindowOfChain DEF GoodChain
        <5>2. w[Len(w)] \in Header /\ w[1] \in Header
            BY <5>1
        <5>3. QED
            BY <5>2 DEF Header
      <4>5. Clamp(actual, lower, upper) \in Nat
          BY <4>3, <4>4 DEF Clamp, AtLeast
      <4>6. target * Clamp(actual, lower, upper) \in Nat
          BY <1>2, <4>5
      <4>7. QED
          BY <4>2, <4>6
    <3>3. QED
        BY <3>1, <3>2, ConstantsOK DEF Capped
  <2>3. QED
    BY <2>1, <2>2
<1>5. QED
    BY <1>3, <1>4

----------------------------------------------------------------------------
(* The invariant of the targets *)

LEMMA TargetInvInit == Init => TargetInv
<1> SUFFICES ASSUME Init PROVE TargetInv
    OBVIOUS
<1>1. now \in Nat /\ DOMAIN chain = Nodes /\ DOMAIN cached = Nodes /\ DOMAIN job = Nodes
    BY ConstantsOK DEF Init
<1>2. ASSUME NEW n \in Nodes PROVE GoodChain(chain[n]) /\ CacheOK(n) /\ JobOK(n)
  <2>1. chain[n] = <<Genesis>> /\ cached[n] = NoCache /\ job[n] = NoJob
    BY DEF Init
  <2>2. CacheOK(n)
    <3>1. Height(chain[n]) = 0
        BY <2>1 DEF Height
    <3>2. QED
        BY <2>1, <3>1, ConstantsOK DEF CacheOK, NoCache, Retargets
  <2>3. QED
    BY <2>1, <2>2, GenesisChain DEF JobOK
<1>3. QED
    BY <1>1, <1>2 DEF TargetInv

\* A node that moves to a good chain starts again without cache and job.
LEMMA MoveKeeps ==
    ASSUME TargetInv, NEW n \in Nodes, NEW c, GoodChain(c), Move(n, c), UNCHANGED now
    PROVE  TargetInv'
<1>1. now' \in Nat /\ DOMAIN chain' = Nodes /\ DOMAIN cached' = Nodes /\ DOMAIN job' = Nodes
    BY DEF TargetInv, Move
<1>2. ASSUME NEW p \in Nodes PROVE (GoodChain(chain[p]) /\ CacheOK(p) /\ JobOK(p))'
  <2>1. CASE p = n
    <3>1. chain'[p] = c /\ cached'[p] = NoCache /\ job'[p] = NoJob
        BY <2>1 DEF TargetInv, Move, Forgotten
    <3>2. CacheOK(p)'
      <4>1. Height(c) \in Nat
          BY DEF GoodChain, Height
      <4>2. QED
          BY <3>1, <4>1, ConstantsOK DEF CacheOK, NoCache, Retargets
    <3>3. QED
        BY <3>1, <3>2 DEF JobOK
  <2>2. CASE p # n
    <3>1. chain'[p] = chain[p] /\ cached'[p] = cached[p] /\ job'[p] = job[p]
        BY <2>2 DEF TargetInv, Move
    <3>2. QED
        BY <3>1 DEF TargetInv, CacheOK, JobOK
  <2>3. QED
    BY <2>1, <2>2
<1>3. QED
    BY <1>1, <1>2 DEF TargetInv

\* What prepare_mining_job takes from the cache is what it would compute.
LEMMA NextIsComputed ==
    ASSUME TargetInv, NEW n \in Nodes
    PROVE  NextDifficulty(n) = Computed(chain[n])
BY DEF TargetInv, CacheOK, NextDifficulty, Computed

LEMMA TargetInvNext == TargetInv /\ [Next]_vars => TargetInv'
<1> SUFFICES ASSUME TargetInv, [Next]_vars PROVE TargetInv'
    OBVIOUS
<1>1. ASSUME NEW n \in Nodes, PrepareMiningJob(n) PROVE TargetInv'
  <2> DEFINE target == NextDifficulty(n)
  <2>1. /\ target = Computed(chain[n]) /\ target \in 0 .. GenesisTarget
        /\ Height(chain[n]) \in Nat
    <3>1. GoodChain(chain[n])
        BY DEF TargetInv
    <3>2. Height(chain[n]) \in Nat
        BY <3>1 DEF GoodChain, Height
    <3>3. QED
        BY <3>1, <3>2, NextIsComputed, ComputedInRange
  <2> HIDE DEF target
  <2>2. /\ now' = now /\ chain' = chain
        /\ job' = [job EXCEPT ![n] = [found |-> TRUE, since |-> now,
                     header |-> [time |-> Clock(n), target |-> target, by |-> n]]]
        /\ cached' = IF Retargets(chain[n])
                     THEN [cached EXCEPT ![n] = [height |-> Height(chain[n]), target |-> target]]
                     ELSE cached
    BY <1>1 DEF PrepareMiningJob, target
  <2>3. now' \in Nat /\ DOMAIN chain' = Nodes /\ DOMAIN cached' = Nodes /\ DOMAIN job' = Nodes
    BY <2>2 DEF TargetInv
  <2>4. ASSUME NEW p \in Nodes PROVE (GoodChain(chain[p]) /\ CacheOK(p) /\ JobOK(p))'
    <3>1. chain'[p] = chain[p] /\ GoodChain(chain[p]) /\ CacheOK(p) /\ JobOK(p)
        BY <2>2 DEF TargetInv
    <3>2. CASE p # n
      <4>1. cached'[p] = cached[p] /\ job'[p] = job[p]
          BY <2>2, <3>2 DEF TargetInv
      <4>2. QED
          BY <3>1, <4>1 DEF CacheOK, JobOK
    <3>3. CASE p = n
      <4>1. CacheOK(p)'
        <5>1. CASE Retargets(chain[n])
          <6>1. cached'[p] = [height |-> Height(chain[n]), target |-> target]
              BY <2>2, <3>3, <5>1 DEF TargetInv
          <6>2. QED
              BY <2>1, <3>1, <3>3, <6>1 DEF CacheOK
        <5>2. CASE ~Retargets(chain[n])
          <6>1. cached'[p] = cached[p]
              BY <2>2, <5>2
          <6>2. QED
              BY <3>1, <6>1 DEF CacheOK
        <5>3. QED
          BY <5>1, <5>2
      <4>2. JobOK(p)'
        <5>1. job'[p] = [found |-> TRUE, since |-> now,
                     header |-> [time |-> Clock(n), target |-> target, by |-> n]]
            BY <2>2, <3>3 DEF TargetInv
        <5>2. [time |-> Clock(n), target |-> target, by |-> n] \in Header
            BY <2>1, ConstantsOK DEF TargetInv, Clock, Header
        <5>3. job'[p] \in Job /\ job'[p].header.target = target
            BY <5>1, <5>2 DEF TargetInv, Job
        <5>4. QED
            BY <2>1, <3>1, <3>3, <5>3 DEF JobOK
      <4>3. QED
          BY <3>1, <4>1, <4>2
    <3>4. QED
        BY <3>2, <3>3
  <2>5. QED
    BY <2>3, <2>4 DEF TargetInv
<1>2. ASSUME NEW n \in Nodes, CommitBlock(n) PROVE TargetInv'
  <2>1. job[n] \in Job /\ job[n].header.target = Computed(chain[n]) /\ GoodChain(chain[n])
    BY <1>2 DEF TargetInv, JobOK, CommitBlock
  <2>2. GoodChain(Append(chain[n], job[n].header))
    BY <2>1, AppendedChain DEF Job
  <2>3. QED
    BY <1>2, <2>2, MoveKeeps DEF CommitBlock
<1>3. ASSUME NEW n \in Nodes, DropJob(n) PROVE TargetInv'
  <2>1. ASSUME NEW p \in Nodes PROVE JobOK(p)'
    BY <1>3 DEF TargetInv, JobOK, DropJob
  <2>2. QED
    BY <1>3, <2>1 DEF TargetInv, DropJob, CacheOK
<1>4. ASSUME NEW n \in Nodes, Restart(n) PROVE TargetInv'
  <2>1. GoodChain(chain[n])
    BY DEF TargetInv
  <2>2. QED
    BY <1>4, <2>1, MoveKeeps DEF Restart
<1>5. ASSUME NEW n \in Nodes, NEW m \in Nodes, AcceptBlock(n, m) PROVE TargetInv'
  <2>1. GoodChain(chain[m]) /\ GoodChain(chain[n]) /\ Offers(m, n)
    BY <1>5 DEF TargetInv, AcceptBlock
  <2>2. GoodChain(Append(chain[n], Offered(m, n)))
    BY <2>1, OfferedExtends, PrefixChain
  <2>3. QED
    BY <1>5, <2>2, MoveKeeps DEF AcceptBlock
<1>6. ASSUME NEW n \in Nodes, NEW m \in Nodes, RollbackToGenesis(n, m) PROVE TargetInv'
    BY <1>6, GenesisChain, MoveKeeps DEF RollbackToGenesis
<1>7. ASSUME Tick PROVE TargetInv'
    BY <1>7 DEF TargetInv, Tick, CacheOK, JobOK
<1>8. ASSUME UNCHANGED vars PROVE TargetInv'
    BY <1>8 DEF TargetInv, vars, CacheOK, JobOK
<1>9. QED
    BY <1>1, <1>2, <1>3, <1>4, <1>5, <1>6, <1>7, <1>8 DEF Next

\* Targets are functions of the blocks below them, so two blocks on one
\* parent have the same one (compute_difficulty_for_next_block): for any
\* nodes, clocks and parameters, the comparison of the two fork switches is
\* a tie between honest miners.
THEOREM TargetsAgree == Spec => []SiblingsTie
<1>1. TargetInv => SiblingsTie
  <2> SUFFICES ASSUME TargetInv, NEW n \in Nodes, NEW m \in Nodes,
                      NEW i \in 2 .. Len(chain[n]), i <= Len(chain[m]),
                      SubSeq(chain[n], 1, i - 1) = SubSeq(chain[m], 1, i - 1)
               PROVE  chain[n][i].target = chain[m][i].target
    BY DEF SiblingsTie
  <2>1. GoodChain(chain[n]) /\ GoodChain(chain[m])
    BY DEF TargetInv
  <2>2. i \in 2 .. Len(chain[m])
    BY <2>1 DEF GoodChain
  <2>3. QED
    BY <2>1, <2>2 DEF GoodChain
<1>2. QED
    BY <1>1, TargetInvInit, TargetInvNext, PTL DEF Spec

----------------------------------------------------------------------------
(* The invariant of the times *)

\* When the maker of a block prepared it, by a clock without skew.
RealTime(b) == b.time - Skew[b.by]

\* A block is prepared after the one below it was found, and each took a search.
TimedChain(c, t) ==
    \A i \in 2 .. Len(c) :
        /\ c[i].by \in Nodes
        /\ StartTime <= RealTime(c[i]) /\ RealTime(c[i]) + MinSearch <= t
        /\ \A j \in 2 .. Len(c) :
              j < i => RealTime(c[j]) + MinSearch * (i - j) <= RealTime(c[i])

TimedJob(n) ==
    job[n] # NoJob =>
        /\ StartTime <= job[n].since /\ job[n].since <= now
        /\ job[n].header.by = n /\ job[n].header.time = job[n].since + Skew[n]
        /\ Len(chain[n]) >= 2 => RealTime(Last(chain[n])) + MinSearch <= job[n].since

TimeInv ==
    /\ TargetInv
    /\ StartTime <= now
    /\ \A n \in Nodes : TimedChain(chain[n], now) /\ TimedJob(n)

LEMMA TimeOfBlock ==
    ASSUME NEW c, GoodChain(c), NEW i \in 1 .. Len(c)
    PROVE  c[i].time \in Nat
<1>1. c[i] \in Header
    BY ElementOfSeq DEF GoodChain
<1>2. QED
    BY <1>1 DEF Header

LEMMA RealTimeIsInt ==
    ASSUME NEW b \in Header, b.by \in Nodes
    PROVE  /\ RealTime(b) \in Int /\ b.time \in Nat /\ Skew[b.by] \in Nat
           /\ b.time = RealTime(b) + Skew[b.by]
<1>1. b.time \in Nat /\ Skew[b.by] \in Nat
    BY ConstantsOK DEF Header
<1>2. QED
    BY <1>1 DEF RealTime

LEMMA OneSearchMore ==
    ASSUME NEW a \in Nat, NEW k \in Nat, NEW j \in Nat
    PROVE  a * (k + 1 - j) = a * (k - j) + a
BY SMT

\* A chain stays timed under a block whose job was prepared after its last block
\* was found.
LEMMA AppendTimed ==
    ASSUME NEW c, GoodChain(c), NEW b \in Header, NEW t \in Nat, TimedChain(c, t),
           b.by \in Nodes, StartTime <= RealTime(b), RealTime(b) + MinSearch <= t,
           Len(c) >= 2 => RealTime(Last(c)) + MinSearch <= RealTime(b)
    PROVE  TimedChain(Append(c, b), t)
<1> DEFINE d == Append(c, b)
           k == Len(c)
<1>1. c \in Seq(Header) /\ k \in Nat \ {0} /\ Last(c) = c[k]
    BY LastIsHeader DEF GoodChain
<1>2. /\ Len(d) = k + 1 /\ d[k + 1] = b
      /\ \A i \in 1 .. k : d[i] = c[i]
    BY <1>1, AppendProperties
<1>3. MinSearch \in Nat /\ RealTime(b) \in Int
    BY ConstantsOK, RealTimeIsInt
<1> HIDE DEF d, k
<1>4. ASSUME NEW i \in 2 .. k + 1
      PROVE  /\ d[i].by \in Nodes
             /\ StartTime <= RealTime(d[i]) /\ RealTime(d[i]) + MinSearch <= t
  <2>1. CASE i = k + 1
    BY <1>2, <2>1
  <2>2. CASE i # k + 1
    <3>1. i \in 2 .. Len(c) /\ d[i] = c[i]
        BY <1>1, <1>2, <2>2 DEF k
    <3>2. QED
        BY <3>1 DEF TimedChain
  <2>3. QED
    BY <2>1, <2>2
<1>5. ASSUME NEW i \in 2 .. k + 1, NEW j \in 2 .. k + 1, j < i
      PROVE  RealTime(d[j]) + MinSearch * (i - j) <= RealTime(d[i])
  <2>1. j \in 2 .. k /\ d[j] = c[j] /\ j \in 2 .. Len(c) /\ j \in Nat
    BY <1>1, <1>2, <1>5 DEF k
  <2>2. CASE i # k + 1
    <3>1. i \in 2 .. Len(c) /\ d[i] = c[i]
        BY <1>1, <1>2, <2>2 DEF k
    <3>2. QED
        BY <1>5, <2>1, <3>1 DEF TimedChain
  <2>3. CASE i = k + 1
    <3>1. k \in 2 .. Len(c) /\ d[i] = b
        BY <1>1, <1>2, <2>1, <2>3 DEF k
    <3>2. RealTime(c[k]) + MinSearch <= RealTime(b)
        BY <1>1, <3>1
    <3>3. MinSearch * (k + 1 - j) = MinSearch * (k - j) + MinSearch
        BY <1>1, <1>3, <2>1, OneSearchMore
    <3>4. RealTime(c[j]) + MinSearch * (k - j) <= RealTime(c[k])
      <4>1. CASE j = k
        <5>1. MinSearch * (k - j) = 0
            BY <1>1, <1>3, <4>1
        <5>2. c[k] \in Header /\ c[k].by \in Nodes
            BY <1>1, <3>1, ElementOfSeq DEF TimedChain
        <5>3. RealTime(c[k]) \in Int
            BY <5>2, RealTimeIsInt
        <5>4. QED
            BY <4>1, <5>1, <5>3
      <4>2. CASE j # k
        <5>1. j < k
            BY <1>1, <2>1, <4>2
        <5>2. QED
            BY <2>1, <3>1, <5>1 DEF TimedChain
      <4>3. QED
        BY <4>1, <4>2
    <3>5. /\ RealTime(c[j]) \in Int /\ RealTime(c[k]) \in Int
          /\ MinSearch * (k - j) \in Int
      <4>1. c[j] \in Header /\ c[k] \in Header /\ c[j].by \in Nodes /\ c[k].by \in Nodes
        BY <1>1, <2>1, <3>1, ElementOfSeq DEF TimedChain
      <4>2. MinSearch * (k - j) \in Int
        BY <1>1, <1>3, <2>1
      <4>3. QED
        BY <4>1, <4>2, RealTimeIsInt
    <3> DEFINE between == MinSearch * (k - j)
    <3> HIDE DEF between
    <3>6. RealTime(c[j]) + (between + MinSearch) <= RealTime(b)
        BY <1>3, <3>2, <3>4, <3>5 DEF between
    <3>7. QED
        BY <2>1, <2>3, <3>1, <3>3, <3>6 DEF between
  <2>4. QED
    BY <2>2, <2>3
<1>6. \A i \in 2 .. Len(d) :
        /\ d[i].by \in Nodes
        /\ StartTime <= RealTime(d[i]) /\ RealTime(d[i]) + MinSearch <= t
        /\ \A j \in 2 .. Len(d) :
              j < i => RealTime(d[j]) + MinSearch * (i - j) <= RealTime(d[i])
    BY <1>2, <1>4, <1>5
<1>7. QED
    BY <1>6 DEF TimedChain, d

LEMMA GenesisTimed == ASSUME NEW t PROVE TimedChain(<<Genesis>>, t)
<1>1. Len(<<Genesis>>) = 1
    OBVIOUS
<1>2. QED
    BY <1>1 DEF TimedChain

LEMMA TimedLater ==
    ASSUME NEW c, GoodChain(c), NEW t \in Nat, TimedChain(c, t)
    PROVE  TimedChain(c, t + 1)
<1>1. ASSUME NEW i \in 2 .. Len(c)
      PROVE  RealTime(c[i]) + MinSearch <= t + 1
  <2>1. i \in 1 .. Len(c) /\ c \in Seq(Header) /\ c[i].by \in Nodes
    BY DEF GoodChain, TimedChain
  <2>2. RealTime(c[i]) \in Int
    BY <2>1, ElementOfSeq, RealTimeIsInt
  <2>3. RealTime(c[i]) + MinSearch <= t
    BY DEF TimedChain
  <2>4. QED
    BY <2>2, <2>3, ConstantsOK
<1>2. QED
    BY <1>1 DEF TimedChain

LEMMA PrefixTimed ==
    ASSUME NEW c, GoodChain(c), NEW t, TimedChain(c, t), NEW k \in 1 .. Len(c)
    PROVE  TimedChain(SubSeq(c, 1, k), t)
<1>1. /\ Len(SubSeq(c, 1, k)) = k /\ Len(c) \in Nat
      /\ \A i \in 1 .. k : SubSeq(c, 1, k)[i] = c[i]
    BY PrefixChain DEF GoodChain
<1>2. QED
    BY <1>1 DEF TimedChain

----------------------------------------------------------------------------
(* The median *)

\* Every nonempty set of numbers has a smallest one.
LEMMA LeastNumber ==
    ASSUME NEW S \in SUBSET Nat, S # {}
    PROVE  \E x \in S : \A y \in S : x <= y
<1> DEFINE R == OpToRel(<, Nat)
<1>1. IsWellFoundedOn(R, Nat)
    BY NatLessThanWellFounded
<1>2. \A y, x \in Nat : y < x => <<y, x>> \in R
    BY DEF OpToRel
<1> HIDE DEF R
<1>3. PICK x \in S : \A y \in S : ~(<<y, x>> \in R)
    BY <1>1, WFMin
<1>4. \A y \in S : ~(y < x) /\ y \in Nat /\ x \in Nat
    BY <1>2, <1>3
<1>5. \A y \in S : x <= y
    BY <1>4
<1>6. QED
    BY <1>5

\* How many of the times of a window are at most u.
UpTo(c, window, u) == Cardinality({i \in window : c[i].time <= u})

LEMMA UpToFacts ==
    ASSUME NEW c, NEW window, IsFiniteSet(window), NEW u
    PROVE  /\ UpTo(c, window, u) \in Nat
           /\ IsFiniteSet({i \in window : c[i].time <= u})
           /\ UpTo(c, window, u) <= Cardinality(window)
<1>1. {i \in window : c[i].time <= u} \subseteq window
    OBVIOUS
<1>2. IsFiniteSet({i \in window : c[i].time <= u})
    BY <1>1, FS_Subset
<1>3. Cardinality({i \in window : c[i].time <= u}) <= Cardinality(window)
    BY <1>1, FS_Subset
<1>4. QED
    BY <1>2, <1>3, FS_CardinalityType DEF UpTo

\* A number that no time of the window exceeds.
LEMMA AllUpTo ==
    ASSUME NEW c, NEW window, IsFiniteSet(window), \A i \in window : c[i].time \in Nat
    PROVE  \E u \in Nat : UpTo(c, window, u) = Cardinality(window)
<1> DEFINE size == Cardinality(window)
           Missing(u) == size - UpTo(c, window, u)
           S == {Missing(u) : u \in Nat}
<1>1. size \in Nat /\ \A u \in Nat : Missing(u) \in Nat
  <2>1. size \in Nat
    BY FS_CardinalityType
  <2>2. ASSUME NEW u \in Nat PROVE Missing(u) \in Nat
    <3>1. UpTo(c, window, u) \in Nat /\ UpTo(c, window, u) <= size
        BY UpToFacts
    <3> HIDE DEF size
    <3>2. QED
        BY <2>1, <3>1
  <2>3. QED
    BY <2>1, <2>2
<1>2. S \in SUBSET Nat /\ S # {}
    BY <1>1
<1>3. \E x \in S : \A y \in S : x <= y
    BY <1>2, LeastNumber
<1>4. PICK u \in Nat : \A v \in Nat : Missing(u) <= Missing(v)
    BY <1>3
<1>5. ASSUME NEW i \in window, c[i].time > u
      PROVE  FALSE
  <2> DEFINE v == c[i].time
             A == {k \in window : c[k].time <= u}
             B == {k \in window : c[k].time <= v}
  <2>1. v \in Nat /\ v > u /\ \A k \in window : c[k].time \in Nat
    BY <1>5
  <2>2. A \subseteq B /\ i \in B /\ i \notin A
    BY <2>1
  <2>3. IsFiniteSet(B) /\ IsFiniteSet(A)
    BY UpToFacts
  <2> HIDE DEF v, A, B
  <2>4. Cardinality(A) # Cardinality(B) /\ Cardinality(A) <= Cardinality(B)
    BY <2>2, <2>3, FS_Subset
  <2>5. UpTo(c, window, u) < UpTo(c, window, v)
    <3>1. UpTo(c, window, u) = Cardinality(A) /\ UpTo(c, window, v) = Cardinality(B)
        BY DEF UpTo, A, B
    <3>2. Cardinality(A) \in Nat /\ Cardinality(B) \in Nat
        BY <2>3, FS_CardinalityType
    <3>3. QED
        BY <2>4, <3>1, <3>2
  <2>6. Missing(u) <= Missing(v)
    BY <1>4, <2>1
  <2>7. UpTo(c, window, u) \in Nat /\ UpTo(c, window, v) \in Nat
    BY UpToFacts
  <2>8. QED
    BY <1>1, <2>5, <2>6, <2>7
<1>6. {i \in window : c[i].time <= u} = window
    BY <1>5
<1>7. QED
    BY <1>6 DEF UpTo

\* The entry with half of the window before it exists, whatever the times are:
\* the smallest number that more than half of them do not exceed.
LEMMA MedianExists ==
    ASSUME NEW c, NEW window, IsFiniteSet(window), \A i \in window : c[i].time \in Nat,
           NEW half \in Nat, half < Cardinality(window)
    PROVE  \E i \in window :
              /\ Cardinality({j \in window : c[j].time < c[i].time}) <= half
              /\ half < Cardinality({j \in window : c[j].time <= c[i].time})
<1> DEFINE S == {u \in Nat : half < UpTo(c, window, u)}
<1>1. S \in SUBSET Nat /\ S # {}
    BY AllUpTo
<1>2. PICK u \in S : \A v \in S : u <= v
    BY <1>1, LeastNumber
<1> DEFINE below == {j \in window : c[j].time < u}
           upto == {j \in window : c[j].time <= u}
<1>3. u \in Nat /\ half < Cardinality(upto)
    BY DEF UpTo
<1>4. Cardinality(below) <= half
  <2>1. CASE u = 0
    <3>1. below = {}
        BY <2>1
    <3>2. QED
        BY <3>1, FS_EmptySet
  <2>2. CASE u # 0
    <3>1. u - 1 \in Nat /\ ~(u <= u - 1)
        BY <1>3, <2>2
    <3>2. u - 1 \notin S
        BY <1>2, <3>1
    <3>3. below = {j \in window : c[j].time <= u - 1}
        BY <1>3
    <3>4. UpTo(c, window, u - 1) \in Nat
        BY UpToFacts
    <3>5. ~(half < UpTo(c, window, u - 1))
        BY <3>1, <3>2
    <3>6. Cardinality(below) = UpTo(c, window, u - 1)
        BY <3>3 DEF UpTo
    <3>7. QED
        BY <3>4, <3>5, <3>6
  <2>3. QED
    BY <2>1, <2>2
<1>5. \E i \in window : c[i].time = u
  <2>1. SUFFICES ASSUME \A i \in window : c[i].time # u
                 PROVE  FALSE
    OBVIOUS
  <2>2. below = upto
    BY <1>3, <2>1
  <2>3. Cardinality(upto) \in Nat
    BY UpToFacts DEF UpTo
  <2> HIDE DEF below, upto
  <2>4. QED
    BY <1>3, <1>4, <2>2, <2>3
<1>6. QED
    BY <1>3, <1>4, <1>5

\* validate_timestamp compares with a time of the chain when it compares with
\* the median.
LEMMA MedianIsATime ==
    ASSUME NEW c, GoodChain(c), Len(c) >= 3
    PROVE  \E i \in 1 .. Len(c) : Median(c) = c[i].time
<1> DEFINE take == IF Len(c) < MedianWindow THEN Len(c) ELSE MedianWindow
           half == take \div 2
           window == Len(c) - take + 1 .. Len(c)
           Before(u) == Cardinality({i \in window : c[i].time < u})
           AtMost(u) == Cardinality({i \in window : c[i].time <= u})
           P(u) == Before(u) <= half /\ half < AtMost(u)
<1>1. Len(c) \in Nat /\ take \in Nat \ {0} /\ take <= Len(c)
    BY ConstantsOK DEF GoodChain
<1>2. Median(c) = CHOOSE u \in {c[i].time : i \in window} : P(u)
    BY DEF Median
<1> HIDE DEF take
<1>3. half \in Nat /\ half < take
    BY <1>1
<1>4. window \subseteq 1 .. Len(c)
    BY <1>1
<1>5. IsFiniteSet(window) /\ Cardinality(window) = take
  <2>1. Len(c) - take + 1 \in Int /\ Len(c) \in Int
    BY <1>1
  <2>2. /\ IsFiniteSet(window)
        /\ Cardinality(window) = IF Len(c) - take + 1 > Len(c) THEN 0
                                 ELSE Len(c) - (Len(c) - take + 1) + 1
    BY <2>1, FS_Interval
  <2>3. QED
    BY <1>1, <2>2
<1>6. \A i \in window : c[i].time \in Nat
    BY <1>4, TimeOfBlock
<1> HIDE DEF half, window
<1>7. \E i \in window : P(c[i].time)
    BY <1>3, <1>5, <1>6, MedianExists
<1>8. \E u \in {c[i].time : i \in window} : P(u)
    BY <1>7
<1> HIDE DEF P
<1>9. Median(c) \in {c[i].time : i \in window}
    BY <1>2, <1>8
<1>10. QED
    BY <1>4, <1>9

----------------------------------------------------------------------------
(* The invariant of the times is inductive *)

LEMMA TimeInvInit == Init => TimeInv
<1> SUFFICES ASSUME Init PROVE TimeInv
    OBVIOUS
<1>1. TargetInv /\ now = StartTime
    BY TargetInvInit DEF Init
<1>2. \A n \in Nodes : TimedChain(chain[n], now) /\ TimedJob(n)
    BY GenesisTimed DEF Init, TimedJob
<1>3. QED
    BY <1>1, <1>2, ConstantsOK DEF TimeInv

LEMMA MoveKeepsTimes ==
    ASSUME TimeInv, TargetInv', NEW n \in Nodes, NEW c, TimedChain(c, now),
           Move(n, c), UNCHANGED now
    PROVE  TimeInv'
<1>1. ASSUME NEW p \in Nodes PROVE (TimedChain(chain[p], now) /\ TimedJob(p))'
  <2>1. CASE p = n
    BY <2>1 DEF TimeInv, TargetInv, Move, TimedJob
  <2>2. CASE p # n
    <3>1. chain'[p] = chain[p] /\ job'[p] = job[p] /\ now' = now
        BY <2>2 DEF TimeInv, TargetInv, Move
    <3>2. QED
        BY <3>1 DEF TimeInv, TimedJob
  <2>3. QED
    BY <2>1, <2>2
<1>2. QED
    BY <1>1 DEF TimeInv

LEMMA TimeInvNext == TimeInv /\ [Next]_vars => TimeInv'
<1> SUFFICES ASSUME TimeInv, [Next]_vars PROVE TimeInv'
    OBVIOUS
<1> TargetInv /\ TargetInv' /\ now \in Nat /\ StartTime <= now
    BY TargetInvNext DEF TimeInv, TargetInv
<1>1. ASSUME NEW n \in Nodes, PrepareMiningJob(n) PROVE TimeInv'
  <2>1. /\ now' = now /\ chain' = chain
        /\ job' = [job EXCEPT ![n] = [found |-> TRUE, since |-> now, header |->
                    [time |-> Clock(n), target |-> NextDifficulty(n), by |-> n]]]
    BY <1>1 DEF PrepareMiningJob
  <2>2. ASSUME NEW p \in Nodes PROVE (TimedChain(chain[p], now) /\ TimedJob(p))'
    <3>1. TimedChain(chain'[p], now')
        BY <2>1 DEF TimeInv
    <3>2. CASE p = n
      <4>1. /\ job'[p].since = now /\ job'[p].header.time = now + Skew[n]
            /\ job'[p].header.by = n /\ chain'[p] = chain[n]
          BY <2>1, <3>2 DEF TargetInv, Clock
      <4>2. GoodChain(chain[n]) /\ TimedChain(chain[n], now)
          BY DEF TargetInv, TimeInv
      <4>3. Len(chain[n]) >= 2 => RealTime(Last(chain[n])) + MinSearch <= now
        <5>1. Len(chain[n]) >= 2 =>
                Last(chain[n]) = chain[n][Len(chain[n])] /\ Len(chain[n]) \in 2 .. Len(chain[n])
            BY <4>2, LastIsHeader DEF GoodChain
        <5>2. QED
            BY <4>2, <5>1 DEF TimedChain
      <4>4. QED
          BY <2>1, <3>1, <3>2, <4>1, <4>3 DEF TimedJob
    <3>3. CASE p # n
      <4>1. job'[p] = job[p]
          BY <2>1, <3>3 DEF TargetInv
      <4>2. QED
          BY <2>1, <3>1, <4>1 DEF TimeInv, TimedJob
    <3>4. QED
        BY <3>2, <3>3
  <2>3. QED
    BY <2>1, <2>2 DEF TimeInv
<1>2. ASSUME NEW n \in Nodes, CommitBlock(n) PROVE TimeInv'
  <2> DEFINE b == job[n].header
  <2>1. /\ job[n] \in Job /\ job[n].since + MinSearch <= now
        /\ StartTime <= job[n].since
        /\ b.by = n /\ b.time = job[n].since + Skew[n]
        /\ Len(chain[n]) >= 2 => RealTime(Last(chain[n])) + MinSearch <= job[n].since
        /\ GoodChain(chain[n]) /\ TimedChain(chain[n], now)
    <3>1. job[n] \in Job /\ now >= job[n].since + MinSearch /\ GoodChain(chain[n])
        BY <1>2 DEF TargetInv, JobOK, CommitBlock
    <3>2. job[n].since \in Nat
        BY <3>1 DEF Job
    <3>3. TimedJob(n) /\ TimedChain(chain[n], now) /\ job[n] # NoJob
        BY <1>2 DEF TimeInv, CommitBlock
    <3>4. QED
        BY <3>1, <3>2, <3>3, ConstantsOK DEF TimedJob
  <2>2. b \in Header /\ job[n].since \in Nat
    BY <2>1 DEF Job
  <2>3. RealTime(b) = job[n].since
    BY <2>1, <2>2, ConstantsOK DEF RealTime
  <2> HIDE DEF b
  <2>4. TimedChain(Append(chain[n], b), now)
    BY <2>1, <2>2, <2>3, AppendTimed
  <2>5. QED
    BY <1>2, <2>4, MoveKeepsTimes DEF CommitBlock, b
<1>3. ASSUME NEW n \in Nodes, DropJob(n) PROVE TimeInv'
  <2>1. ASSUME NEW p \in Nodes PROVE TimedJob(p)'
    BY <1>3 DEF TimeInv, TargetInv, TimedJob, DropJob
  <2>2. QED
    BY <1>3, <2>1 DEF TimeInv, DropJob
<1>4. ASSUME NEW n \in Nodes, Restart(n) PROVE TimeInv'
    BY <1>4, MoveKeepsTimes DEF Restart, TimeInv
<1>5. ASSUME NEW n \in Nodes, NEW m \in Nodes, AcceptBlock(n, m) PROVE TimeInv'
  <2> DEFINE k == Len(chain[n]) + 1
  <2>1. /\ GoodChain(chain[m]) /\ GoodChain(chain[n]) /\ Offers(m, n)
        /\ TimedChain(chain[m], now)
    BY <1>5 DEF TimeInv, TargetInv, AcceptBlock
  <2>2. k \in 1 .. Len(chain[m]) /\ Append(chain[n], Offered(m, n)) = SubSeq(chain[m], 1, k)
    BY <2>1, OfferedExtends
  <2> HIDE DEF k
  <2>3. TimedChain(SubSeq(chain[m], 1, k), now)
    BY <2>1, <2>2, PrefixTimed
  <2>4. QED
    BY <1>5, <2>2, <2>3, MoveKeepsTimes DEF AcceptBlock
<1>6. ASSUME NEW n \in Nodes, NEW m \in Nodes, RollbackToGenesis(n, m) PROVE TimeInv'
    BY <1>6, GenesisTimed, MoveKeepsTimes DEF RollbackToGenesis
<1>7. ASSUME Tick PROVE TimeInv'
  <2>1. now' = now + 1 /\ chain' = chain /\ job' = job
    BY <1>7 DEF Tick
  <2>2. ASSUME NEW p \in Nodes PROVE (TimedChain(chain[p], now) /\ TimedJob(p))'
    <3>1. TimedChain(chain[p], now + 1)
        BY TimedLater DEF TimeInv, TargetInv
    <3>2. TimedJob(p)'
      <4>1. ASSUME job[p] # NoJob PROVE job[p].since <= now + 1
        <5>1. job[p] \in Job /\ job[p].since <= now
            BY <4>1 DEF TimeInv, TargetInv, JobOK, TimedJob
        <5>2. job[p].since \in Nat
            BY <5>1 DEF Job
        <5>3. QED
            BY <5>1, <5>2
      <4>2. QED
        BY <2>1, <4>1 DEF TimeInv, TimedJob
    <3>3. QED
        BY <2>1, <3>1, <3>2
  <2>3. QED
    BY <2>1, <2>2, ConstantsOK DEF TimeInv
<1>8. ASSUME UNCHANGED vars PROVE TimeInv'
  <2>1. now' = now /\ chain' = chain /\ job' = job
    BY <1>8 DEF vars
  <2>2. QED
    BY <2>1 DEF TimeInv, TimedJob
<1>9. QED
    BY <1>1, <1>2, <1>3, <1>4, <1>5, <1>6, <1>7, <1>8 DEF Next

\* Whoever refuses a block for its timestamp (validate_timestamp) does so because
\* clocks differ, and by the searches in between: for any number of nodes, any
\* skews and any parameters.
THEOREM RefusalsHaveACause == Spec => []RefusedForSkew
<1>1. TimeInv => RefusedForSkew
  <2> SUFFICES ASSUME TimeInv, NEW n \in Nodes, NEW m \in Nodes, Offers(m, n),
                      ~ValidTimestamp(Offered(m, n), chain[n], Clock(n))
               PROVE  LET b == Offered(m, n)
                          k == Len(chain[n])
                      IN \/ Skew[b.by] > Skew[n] + FutureLimit + MinSearch
                         \/ \E i \in 2 .. k :
                               Skew[chain[n][i].by] >= Skew[b.by] + MinSearch * (k + 1 - i)
    BY DEF RefusedForSkew
  <2> DEFINE k == Len(chain[n])
             b == Offered(m, n)
  <2>1. /\ GoodChain(chain[m]) /\ GoodChain(chain[n]) /\ now \in Nat
        /\ TimedChain(chain[m], now)
    BY DEF TimeInv, TargetInv
  <2>2. /\ k \in Nat \ {0} /\ k + 1 \in 2 .. Len(chain[m]) /\ b = chain[m][k + 1]
        /\ \A i \in 1 .. k : chain[n][i] = chain[m][i] /\ i \in 1 .. Len(chain[m])
    <3>1. k \in Nat \ {0} /\ Len(chain[m]) \in Nat /\ b = chain[m][k + 1]
        BY <2>1 DEF GoodChain, Offered
    <3>2. k + 1 \in 1 .. Len(chain[m]) /\ \A i \in 1 .. k : chain[n][i] = chain[m][i]
        BY <2>1, OfferedExtends
    <3>3. QED
        BY <3>1, <3>2
  <2>3. /\ b.by \in Nodes /\ StartTime <= RealTime(b) /\ RealTime(b) + MinSearch <= now
        /\ b \in Header
    BY <2>1, <2>2, ElementOfSeq DEF TimedChain, GoodChain
  <2>4. ValidTimestamp(b, chain[n], Clock(n)) <=>
            /\ b.time <= now + Skew[n] + FutureLimit
            /\ k - 1 > 0 => b.time > Last(chain[n]).time
            /\ k >= 3 => b.time > Median(chain[n])
    BY DEF ValidTimestamp, Height, Clock
  <2>5. Last(chain[n]) = chain[n][k] /\ chain[n] \in Seq(Header)
    BY <2>1, LastIsHeader DEF GoodChain
  <2>6. k >= 3 => \E i \in 1 .. k : Median(chain[n]) = chain[n][i].time
    BY <2>1, MedianIsATime
  <2> HIDE DEF b, k
  <2>7. /\ RealTime(b) \in Int /\ b.time \in Nat /\ Skew[b.by] \in Nat
        /\ b.time = RealTime(b) + Skew[b.by]
    BY <2>3, RealTimeIsInt
  <2>8. CASE ~(b.time <= now + Skew[n] + FutureLimit)
    <3>1. Skew[b.by] > Skew[n] + FutureLimit + MinSearch
        BY <2>1, <2>3, <2>7, <2>8, ConstantsOK
    <3>2. QED
        BY <3>1 DEF b, k
  <2>9. ASSUME NEW i \in 1 .. k, b.time <= chain[n][i].time
        PROVE  i \in 2 .. k /\ Skew[chain[n][i].by] >= Skew[b.by] + MinSearch * (k + 1 - i)
    <3> DEFINE c == chain[m][i]
               between == MinSearch * (k + 1 - i)
    <3>1. i \in 1 .. Len(chain[m]) /\ chain[n][i] = c /\ c.time \in Nat
        BY <2>1, <2>2, TimeOfBlock
    <3>2. i # 1
      <4>1. SUFFICES ASSUME i = 1 PROVE FALSE
        OBVIOUS
      <4>2. c.time = GenesisTime
        BY <2>1, <4>1 DEF GoodChain, Genesis
      <4>3. QED
        BY <2>3, <2>7, <2>9, <3>1, <4>2, ConstantsOK
    <3>3. i \in 2 .. Len(chain[m]) /\ i < k + 1 /\ i \in 2 .. k
        BY <2>2, <3>1, <3>2
    <3>4. c \in Header /\ c.by \in Nodes
        BY <2>1, <3>1, <3>3, ElementOfSeq DEF TimedChain, GoodChain
    <3>5. RealTime(c) + between <= RealTime(b)
        BY <2>1, <2>2, <3>3 DEF TimedChain
    <3>6. /\ RealTime(c) \in Int /\ Skew[c.by] \in Nat /\ c.time = RealTime(c) + Skew[c.by]
        BY <3>4, RealTimeIsInt
    <3>7. between \in Int
        BY <2>2, ConstantsOK
    <3> HIDE DEF between, c
    <3>8. Skew[c.by] >= Skew[b.by] + between
        BY <2>7, <2>9, <3>1, <3>5, <3>6, <3>7
    <3>9. QED
        BY <3>1, <3>3, <3>8 DEF between
  <2>10. CASE k - 1 > 0 /\ ~(b.time > Last(chain[n]).time)
    <3>1. k \in 1 .. k /\ chain[n][k].time \in Nat
        BY <2>1, <2>2, TimeOfBlock DEF k
    <3>2. b.time <= chain[n][k].time
        BY <2>5, <2>7, <2>10, <3>1 DEF k
    <3>3. k \in 2 .. k /\ Skew[chain[n][k].by] >= Skew[b.by] + MinSearch * (k + 1 - k)
        BY <2>9, <3>1, <3>2
    <3>4. QED
        BY <3>3 DEF b, k
  <2>11. CASE k >= 3 /\ ~(b.time > Median(chain[n]))
    <3>1. PICK i \in 1 .. k : Median(chain[n]) = chain[n][i].time
        BY <2>6, <2>11
    <3>2. i \in 1 .. Len(chain[n]) /\ chain[n][i].time \in Nat
        BY <2>1, TimeOfBlock DEF k
    <3>3. b.time <= chain[n][i].time
        BY <2>7, <2>11, <3>1, <3>2
    <3>4. i \in 2 .. k /\ Skew[chain[n][i].by] >= Skew[b.by] + MinSearch * (k + 1 - i)
        BY <2>9, <3>1, <3>3
    <3>5. QED
        BY <3>4 DEF b, k
  <2>12. QED
    BY <2>4, <2>8, <2>10, <2>11 DEF b
<1>2. TimeInv /\ [Next]_vars => TimeInv'
    BY TimeInvNext
<1>3. QED
    BY <1>1, <1>2, TimeInvInit, PTL DEF Spec

=============================================================================

---------------------------- MODULE Ledger_proofs ----------------------------
(***************************************************************************)
(* Proofs about Ledger, for all transactions, outputs, miners and bounds:  *)
(* nothing is spent twice, money comes only out of rewards and further     *)
(* coinbases, a job that is still current can be paid, no transaction is   *)
(* locked out by a stray mark, and none silently leaves the mempool.       *)
(*                                                                         *)
(* A rollback does not restore what its block consumed, and it may turn a  *)
(* chain with a repeated coinbase into one without: so both arguments      *)
(* about money are about every prefix of the chain and about what is left  *)
(* unspent when the node is rolled back to it (Left).  A rollback only     *)
(* forgets the last prefix, and a block adds one and leaves the others.    *)
(*                                                                         *)
(* The argument for SpentOnce: every unspent and every consumed output was *)
(* in the base or was created by a block below (NothingFromNowhere), an    *)
(* output belongs to one transaction or to one height, and a transaction   *)
(* whose inputs are unspent is not on the chain: so a new block creates    *)
(* nothing that an earlier one has created, unless it repeats a coinbase   *)
(* (CreatedOnce).                                                          *)
(*                                                                         *)
(* The argument for NoInflation: what the transactions of a block take in  *)
(* covers what they pay out and their fees, coinbases apart                *)
(* (FeesAreCovered).  The sums are reasoned about by lemmas of their own.  *)
(***************************************************************************)
EXTENDS Ledger, SequenceTheorems, FiniteSetTheorems, WellFoundedInduction, TLAPS

----------------------------------------------------------------------------
(* The inductive invariant *)

\* A block for height h.
BlockAt(b, h) ==
    /\ b.txs \subseteq Txs
    /\ b.again \subseteq Respent(b.txs)
    /\ b.reward.tx \in Miners /\ b.reward.height = h

LedgerTypeOK ==
    /\ \E S : chain \in Seq(S)
    /\ \A i \in DOMAIN chain : BlockAt(chain[i], BaseHeight + i)
    /\ mempool \subseteq Txs /\ saved_mempool = mempool
    /\ generation \in Nat /\ crashes \in Nat

PoolOK == \A t, u \in mempool : t # u => Compatible(t, u)

\* As long as no block was appended since the job was prepared, the chain is
\* the one it was prepared on, with the same outputs, or a shorter one.
JobOK ==
    job # NoJob =>
        /\ job.generation \in Nat /\ job.generation <= generation
        /\ Len(job.prev) \in Nat
        /\ BlockAt(job.block, BaseHeight + Len(job.prev) + 1)
        /\ NoDoubleSpend(job.block)
        /\ job.generation = generation =>
              /\ Len(chain) <= Len(job.prev)
              /\ Len(chain) = Len(job.prev) => \A t \in job.block.txs : Payable(t)

\* What is unspent was created on this chain, what a block consumed was created
\* below it.
NothingFromNowhere ==
    /\ utxo \subseteq BaseUtxo \cup UNION {Creates(chain[i]) : i \in DOMAIN chain}
    /\ \A i \in DOMAIN chain : \A o \in Consumes(chain[i]) :
          o \in BaseUtxo \/ \E j \in DOMAIN chain : j < i /\ o \in Creates(chain[j])

\* The outputs that rolling back to the first n blocks leaves.
Left(n) == utxo \ UNION {Creates(chain[i]) : i \in n + 1 .. Len(chain)}

\* No other coinbase is in two of the first n blocks.
OnceBelow(n) ==
    \A i, j \in 1 .. n : i # j => (chain[i].txs \ Ordinary(chain[i])) \cap chain[j].txs = {}

\* SpentOnce for the first n blocks.
SpentBelow(n) ==
    OnceBelow(n) =>
        /\ \A i, j \in 1 .. n : i # j => Consumes(chain[i]) \cap Consumes(chain[j]) = {}
        /\ \A i \in 1 .. n : Consumes(chain[i]) \cap Left(n) = {}

MoneyOK == ~torn => (\A n \in 0 .. Len(chain) : SpentBelow(n)) /\ NothingFromNowhere

Inv == LedgerTypeOK /\ PoolOK /\ JobOK /\ MoneyOK /\ NoStrayMark

----------------------------------------------------------------------------
(* Lemmas *)

\* The chain after a block or a rollback.
LEMMA AppendedChain ==
    ASSUME LedgerTypeOK, NEW b
    PROVE  /\ Len(chain) \in Nat /\ DOMAIN chain = 1 .. Len(chain)
           /\ Len(Append(chain, b)) = Len(chain) + 1
           /\ DOMAIN Append(chain, b) = 1 .. Len(chain) + 1
           /\ \A i \in 1 .. Len(chain) : Append(chain, b)[i] = chain[i]
           /\ Append(chain, b)[Len(chain) + 1] = b
           /\ \E S : Append(chain, b) \in Seq(S)
<1>1. PICK S : chain \in Seq(S)
    BY DEF LedgerTypeOK
<1>2. chain \in Seq(S \cup {b})
    BY <1>1
<1>3. Append(chain, b) \in Seq(S \cup {b})
    BY <1>2
<1>4. /\ Len(chain) \in Nat /\ DOMAIN chain = 1 .. Len(chain)
      /\ Len(Append(chain, b)) = Len(chain) + 1
      /\ DOMAIN Append(chain, b) = 1 .. Len(chain) + 1
      /\ \A i \in 1 .. Len(chain) : Append(chain, b)[i] = chain[i]
      /\ Append(chain, b)[Len(chain) + 1] = b
    BY <1>2
<1>5. QED
    BY <1>3, <1>4

LEMMA ShortenedChain ==
    ASSUME LedgerTypeOK, chain # <<>>
    PROVE  /\ Len(chain) \in Nat \ {0} /\ DOMAIN chain = 1 .. Len(chain)
           /\ Len(SubSeq(chain, 1, Len(chain) - 1)) = Len(chain) - 1
           /\ DOMAIN SubSeq(chain, 1, Len(chain) - 1) = 1 .. Len(chain) - 1
           /\ \A i \in 1 .. Len(chain) - 1 : SubSeq(chain, 1, Len(chain) - 1)[i] = chain[i]
           /\ \E S : SubSeq(chain, 1, Len(chain) - 1) \in Seq(S)
<1> DEFINE n == Len(chain) - 1
           short == SubSeq(chain, 1, n)
<1>1. PICK S : chain \in Seq(S)
    BY DEF LedgerTypeOK
<1>2. /\ Len(chain) \in Nat \ {0} /\ DOMAIN chain = 1 .. Len(chain)
      /\ n \in Nat /\ \A i \in 1 .. n : chain[i] \in S
    BY <1>1
<1> HIDE DEF n
<1>3. /\ short \in Seq(S)
      /\ Len(short) = IF 1 <= n THEN n - 1 + 1 ELSE 0
      /\ \A i \in 1 .. n - 1 + 1 : short[i] = chain[1 + i - 1]
    BY <1>2, SubSeqProperties
<1>4. Len(short) = n /\ \A i \in 1 .. n : short[i] = chain[i]
    BY <1>2, <1>3
<1>5. DOMAIN short = 1 .. n
    BY <1>3, <1>4
<1>6. QED
    BY <1>2, <1>3, <1>4, <1>5 DEF n

\* An output of a transaction is neither in the base nor a coinbase, and no
\* other transaction creates it.
LEMMA OutputsAreOwn ==
    ASSUME NEW t \in Txs, NEW o \in Outputs[t]
    PROVE  /\ o.tx = t /\ o \notin BaseUtxo
           /\ \A u \in Txs : o \in Outputs[u] => u = t
           /\ \A m \in Miners : o.tx # m
BY LedgerAssumption

\* Everything is left if nothing is rolled back.
LEMMA LeftAtTip ==
    ASSUME LedgerTypeOK
    PROVE  Left(Len(chain)) = utxo
<1>1. Len(chain) \in Nat
    BY AppendedChain
<1>2. Len(chain) + 1 .. Len(chain) = {}
    BY <1>1
<1>3. QED
    BY <1>2 DEF Left

\* A block that can be paid creates what neither the base nor a block of the chain
\* has created, unless it repeats a coinbase.
LEMMA CreatedOnce ==
    ASSUME LedgerTypeOK, MoneyOK, ~torn, NEW b, BlockAt(b, Height + 1),
           \A t \in b.txs : Payable(t), OnceBelow(Len(chain)),
           \A i \in 1 .. Len(chain) : \A t \in b.txs : IsCoinbase(t) => t \notin chain[i].txs
    PROVE  \A o \in Creates(b) :
               o \notin BaseUtxo /\ \A j \in 1 .. Len(chain) : o \notin Creates(chain[j])
<1> DEFINE n == Len(chain)
<1>1. n \in Nat /\ DOMAIN chain = 1 .. n /\ n \in 0 .. n
    BY AppendedChain
<1>2. \A i \in 1 .. n : Consumes(chain[i]) \cap utxo = {}
    BY <1>1, LeftAtTip DEF MoneyOK, SpentBelow
<1>3. \A j \in 1 .. n : BlockAt(chain[j], BaseHeight + j)
    BY <1>1 DEF LedgerTypeOK
<1>4. SUFFICES ASSUME NEW o \in Creates(b)
               PROVE  o \notin BaseUtxo /\ \A j \in 1 .. n : o \notin Creates(chain[j])
    OBVIOUS
<1>5. CASE o = b.reward
  <2>1. o.tx \in Miners /\ o.height = BaseHeight + n + 1 /\ BaseHeight \in Nat
    BY <1>5, LedgerAssumption DEF BlockAt, Height
  <2>2. o \notin BaseUtxo
    BY <2>1, <1>1, LedgerAssumption DEF Outpoint
  <2>3. ASSUME NEW j \in 1 .. n, o \in Creates(chain[j]) PROVE FALSE
    <3>1. o # chain[j].reward
        BY <1>3, <2>1, <1>1 DEF BlockAt
    <3>2. PICK t \in chain[j].txs : o \in Outputs[t]
        BY <2>3, <3>1 DEF Creates
    <3>3. t \in Txs
        BY <1>3, <3>2 DEF BlockAt
    <3>4. QED
        BY <2>1, <3>2, <3>3, OutputsAreOwn
  <2>4. QED
    BY <2>2, <2>3
<1>6. CASE o # b.reward
  <2>1. PICK t \in b.txs : o \in Outputs[t]
    BY <1>4, <1>6 DEF Creates
  <2>2. t \in Txs /\ o \notin BaseUtxo
    BY <2>1, OutputsAreOwn DEF BlockAt
  <2>3. ASSUME NEW j \in 1 .. n, o \in Creates(chain[j]) PROVE FALSE
    <3>1. o # chain[j].reward
        BY <1>3, <2>1, <2>2, OutputsAreOwn DEF BlockAt
    <3>2. PICK u \in chain[j].txs : o \in Outputs[u]
        BY <2>3, <3>1 DEF Creates
    <3>3. u = t
        BY <1>3, <2>1, <2>2, <3>2, OutputsAreOwn DEF BlockAt
    <3>4. ~IsCoinbase(t)
        BY <2>1, <3>2, <3>3
    <3>5. Inputs[t] # {} /\ Inputs[t] \subseteq utxo
        BY <2>1, <3>4 DEF Payable, IsCoinbase
    <3>6. Inputs[t] \subseteq Consumes(chain[j])
        BY <3>2, <3>3 DEF Consumes
    <3>7. QED
        BY <1>2, <3>5, <3>6
  <2>4. QED
    BY <2>2, <2>3
<1>7. QED
    BY <1>5, <1>6

\* What a block that can be paid, put on the chain, leaves of the prefixes.
LEMMA AppendKeepsPrefixes ==
    ASSUME LedgerTypeOK, NEW b, BlockAt(b, Height + 1), \A t \in b.txs : Payable(t),
           chain' = Append(chain, b), utxo' = UpdateUtxoSet(b)
    PROVE  LET n == Len(chain)
           IN /\ n \in Nat /\ DOMAIN chain = 1 .. n /\ DOMAIN chain' = 1 .. n + 1
              /\ Len(chain') = n + 1
              /\ \A i \in 1 .. n : chain'[i] = chain[i]
              /\ chain'[n + 1] = b
              /\ Consumes(b) \subseteq utxo
              /\ b.again \subseteq Creates(b) \cap Consumes(b)
              /\ utxo' = ((utxo \cup Creates(b)) \ Consumes(b)) \cup b.again
              /\ \A k \in 0 .. n : Left(k)' \subseteq Left(k)
              /\ \A k \in {n + 1} : Left(k)' = utxo'
<1> DEFINE n == Len(chain)
<1>1. /\ n \in Nat /\ DOMAIN chain = 1 .. n /\ DOMAIN chain' = 1 .. n + 1
      /\ Len(chain') = n + 1
      /\ \A i \in 1 .. n : chain'[i] = chain[i]
      /\ chain'[n + 1] = b
    BY AppendedChain
<1>2. Consumes(b) \subseteq utxo
    BY DEF Consumes, Payable, IsCoinbase
<1>3. b.again \subseteq Creates(b) \cap Consumes(b)
  <2>1. b.again \subseteq Respent(b.txs)
    BY DEF BlockAt
  <2>2. Respent(b.txs) \subseteq Creates(b)
    BY DEF Respent, Creates
  <2>3. Respent(b.txs) \subseteq Consumes(b)
    <3>1. ASSUME NEW o \in Respent(b.txs) PROVE o \in Consumes(b)
      <4>1. PICK t \in b.txs : o \in Inputs[t]
        BY DEF Respent
      <4>2. QED
        BY <4>1 DEF Consumes
    <3>2. QED
        BY <3>1
  <2>4. QED
    BY <2>1, <2>2, <2>3
<1>4. utxo' = ((utxo \cup Creates(b)) \ Consumes(b)) \cup b.again
    BY DEF UpdateUtxoSet
<1>5. ASSUME NEW k \in 0 .. n PROVE Left(k)' \subseteq Left(k)
  <2> DEFINE C(i) == Creates(chain[i])
             C1(i) == Creates(chain'[i])
  <2>1. \A i \in k + 1 .. n : i \in 1 .. n /\ i \in k + 1 .. n + 1 /\ C1(i) = C(i)
    BY <1>1, <1>5
  <2>2. n + 1 \in k + 1 .. n + 1 /\ C1(n + 1) = Creates(b)
    BY <1>1, <1>5
  <2>3. Left(k) = utxo \ UNION {C(i) : i \in k + 1 .. n}
    BY DEF Left
  <2>4. Left(k)' = utxo' \ UNION {C1(i) : i \in k + 1 .. n + 1}
    BY <1>1 DEF Left, Creates
  <2> HIDE DEF C, C1, n
  <2>5. QED
    BY <1>3, <1>4, <2>1, <2>2, <2>3, <2>4
<1>6. ASSUME NEW k \in {n + 1} PROVE Left(k)' = utxo'
  <2>1. k + 1 .. Len(chain') = {}
    BY <1>1
  <2>2. QED
    BY <2>1 DEF Left
<1>7. QED
    BY <1>1, <1>2, <1>3, <1>4, <1>5, <1>6

\* A block whose transactions can be paid, put on the chain, spends nothing
\* that was spent and brings nothing back that was spent.
LEMMA AppendKeepsMoney ==
    ASSUME LedgerTypeOK, MoneyOK, NEW b, BlockAt(b, Height + 1),
           \A t \in b.txs : Payable(t),
           chain' = Append(chain, b), utxo' = UpdateUtxoSet(b), torn' = torn
    PROVE  MoneyOK'
<1> DEFINE n == Len(chain)
<1>1. SUFFICES ASSUME ~torn
               PROVE  (\A k \in 0 .. Len(chain') : SpentBelow(k)') /\ NothingFromNowhere'
    BY DEF MoneyOK
<1>2. /\ n \in Nat /\ DOMAIN chain = 1 .. n /\ DOMAIN chain' = 1 .. n + 1
      /\ Len(chain') = n + 1
      /\ \A i \in 1 .. n : chain'[i] = chain[i]
      /\ chain'[n + 1] = b
      /\ Consumes(b) \subseteq utxo
      /\ b.again \subseteq Creates(b) \cap Consumes(b)
      /\ utxo' = ((utxo \cup Creates(b)) \ Consumes(b)) \cup b.again
    BY AppendKeepsPrefixes
<1>3. (\A k \in 0 .. n : Left(k)' \subseteq Left(k)) /\ \A k \in {n + 1} : Left(k)' = utxo'
    BY AppendKeepsPrefixes
<1>4. (\A k \in 0 .. n : SpentBelow(k)) /\ NothingFromNowhere
    BY <1>1 DEF MoneyOK
<1>5. \A k \in 0 .. n :
          (OnceBelow(k)' => OnceBelow(k)) /\ \A m \in {n + 1} : OnceBelow(m)' => OnceBelow(k)
  <2>1. \A k \in 0 .. n : \A i \in 1 .. k : i \in 1 .. n /\ i \in 1 .. n + 1
    BY <1>2
  <2>2. QED
    BY <1>2, <2>1 DEF OnceBelow, Ordinary
<1>6. ASSUME NEW k \in 0 .. n PROVE SpentBelow(k)'
  <2>1. SUFFICES ASSUME OnceBelow(k)'
                 PROVE  /\ \A i, j \in 1 .. k :
                               i # j => Consumes(chain'[i]) \cap Consumes(chain'[j]) = {}
                        /\ \A i \in 1 .. k : Consumes(chain'[i]) \cap Left(k)' = {}
    BY DEF SpentBelow, Consumes
  <2>2. SpentBelow(k) /\ OnceBelow(k)
    BY <1>4, <1>5, <2>1
  <2>3. \A i \in 1 .. k : i \in 1 .. n
    BY <1>2
  <2>4. \A i \in 1 .. k : Consumes(chain'[i]) = Consumes(chain[i])
    BY <1>2, <2>3
  <2>5. Left(k)' \subseteq Left(k)
    BY <1>3
  <2>6. QED
    BY <2>2, <2>4, <2>5 DEF SpentBelow
<1>7. ASSUME NEW m \in {n + 1} PROVE SpentBelow(m)'
  <2>0. m = n + 1
    BY <1>7
  <2>1. SUFFICES ASSUME OnceBelow(m)'
                 PROVE  /\ \A i, j \in 1 .. n + 1 :
                               i # j => Consumes(chain'[i]) \cap Consumes(chain'[j]) = {}
                        /\ \A i \in 1 .. n + 1 : Consumes(chain'[i]) \cap utxo' = {}
    BY <1>3, <2>0 DEF SpentBelow, Consumes
  <2>2. n \in 0 .. n /\ n + 1 \in 1 .. n + 1 /\ \A i \in 1 .. n : i \in 1 .. n + 1 /\ i # n + 1
    BY <1>2
  <2>3. OnceBelow(n)
    BY <1>5, <2>1, <2>2
  <2>4. /\ \A i, j \in 1 .. n : i # j => Consumes(chain[i]) \cap Consumes(chain[j]) = {}
        /\ \A i \in 1 .. n : Consumes(chain[i]) \cap utxo = {}
    BY <1>4, <2>2, <2>3, LeftAtTip DEF SpentBelow
  <2>5. \A i \in 1 .. n : \A t \in b.txs : IsCoinbase(t) => t \notin chain[i].txs
    <3>1. \A i \in 1 .. n : (b.txs \ Ordinary(b)) \cap chain[i].txs = {}
        BY <1>2, <2>0, <2>1, <2>2 DEF OnceBelow, Ordinary
    <3>2. QED
        BY <3>1 DEF Ordinary
  <2>6. \A o \in Creates(b) :
            o \notin BaseUtxo /\ \A j \in 1 .. n : o \notin Creates(chain[j])
    BY <1>1, <2>3, <2>5, CreatedOnce
  <2>7. Creates(b) \cap utxo = {} /\ \A i \in 1 .. n : Consumes(chain[i]) \cap Creates(b) = {}
    BY <1>2, <1>4, <2>6 DEF NothingFromNowhere
  <2>8. b.again = {}
    BY <1>2, <2>7
  <2>9. \A i \in 1 .. n + 1 : i \in 1 .. n \/ i = n + 1
    BY <1>2
  <2>10. Consumes(chain'[n + 1]) = Consumes(b) /\ \A i \in 1 .. n : Consumes(chain'[i]) = Consumes(chain[i])
    BY <1>2
  <2> HIDE DEF n
  <2>11. ASSUME NEW i \in 1 .. n + 1 PROVE Consumes(chain'[i]) \cap utxo' = {}
    <3>1. CASE i = n + 1
        BY <3>1, <1>2, <2>8, <2>10
    <3>2. CASE i \in 1 .. n
        BY <3>2, <1>2, <2>4, <2>7, <2>8, <2>10
    <3>3. QED
        BY <3>1, <3>2, <2>9
  <2>12. ASSUME NEW i \in 1 .. n + 1, NEW j \in 1 .. n + 1, i # j
         PROVE  Consumes(chain'[i]) \cap Consumes(chain'[j]) = {}
    <3>1. CASE i \in 1 .. n /\ j \in 1 .. n
        BY <3>1, <2>12, <2>4, <2>10
    <3>2. CASE i = n + 1 /\ j \in 1 .. n
        BY <3>2, <1>2, <2>4, <2>10
    <3>3. CASE i \in 1 .. n /\ j = n + 1
        BY <3>3, <1>2, <2>4, <2>10
    <3>4. QED
        BY <2>9, <2>12, <3>1, <3>2, <3>3
  <2>13. QED
    BY <2>11, <2>12
<1>8. NothingFromNowhere'
  <2>1. utxo' \subseteq BaseUtxo \cup UNION {Creates(chain'[i]) : i \in 1 .. n + 1}
    <3>1. SUFFICES ASSUME NEW o \in utxo', o \notin BaseUtxo
                   PROVE  \E i \in 1 .. n + 1 : o \in Creates(chain'[i])
        OBVIOUS
    <3>2. CASE o \in Creates(b)
        BY <3>2, <1>2
    <3>3. CASE o \in utxo
      <4>1. PICK i \in 1 .. n : o \in Creates(chain[i])
        BY <3>1, <3>3, <1>2, <1>4 DEF NothingFromNowhere
      <4>2. QED
        BY <4>1, <1>2
    <3>4. QED
        BY <3>1, <3>2, <3>3, <1>2
  <2>2. ASSUME NEW i \in 1 .. n + 1, NEW o \in Consumes(chain'[i])
        PROVE  o \in BaseUtxo \/ \E j \in 1 .. n + 1 : j < i /\ o \in Creates(chain'[j])
    <3>1. CASE i \in 1 .. n
      <4>1. o \in BaseUtxo \/ \E j \in 1 .. n : j < i /\ o \in Creates(chain[j])
        BY <3>1, <2>2, <1>2, <1>4 DEF NothingFromNowhere
      <4>2. QED
        BY <4>1, <1>2
    <3>2. CASE i = n + 1
      <4>1. o \in utxo
        BY <3>2, <2>2, <1>2
      <4>2. o \in BaseUtxo \/ \E j \in 1 .. n : o \in Creates(chain[j])
        BY <4>1, <1>2, <1>4 DEF NothingFromNowhere
      <4>3. QED
        BY <4>2, <3>2, <1>2
    <3>3. QED
        BY <3>1, <3>2, <1>2
  <2>3. QED
    BY <1>2, <2>1, <2>2 DEF NothingFromNowhere, Creates, Consumes
<1>9. \A k \in 0 .. n + 1 : k \in 0 .. n \/ k = n + 1
    BY <1>2
<1>10. QED
    BY <1>2, <1>6, <1>7, <1>8, <1>9

\* A rollback leaves what its prefix says.
LEMMA RollbackKeepsPrefixes ==
    ASSUME LedgerTypeOK, chain # <<>>,
           chain' = SubSeq(chain, 1, Len(chain) - 1),
           utxo' = RollbackUtxoSet(chain[Len(chain)])
    PROVE  LET n == Len(chain')
           IN /\ n \in Nat /\ DOMAIN chain = 1 .. n + 1 /\ DOMAIN chain' = 1 .. n
              /\ Len(chain) = n + 1
              /\ \A i \in 1 .. n : chain'[i] = chain[i]
              /\ utxo' = utxo \ Creates(chain[n + 1])
              /\ \A k \in 0 .. n : Left(k)' = Left(k)
<1> DEFINE n == Len(chain')
<1>1. /\ n \in Nat /\ DOMAIN chain = 1 .. n + 1 /\ DOMAIN chain' = 1 .. n
      /\ \A i \in 1 .. n : chain'[i] = chain[i]
      /\ Len(chain) = n + 1
  <2>1. Len(chain) \in Nat \ {0} /\ DOMAIN chain = 1 .. Len(chain)
    BY ShortenedChain
  <2>2. n = Len(chain) - 1
    BY ShortenedChain
  <2>3. DOMAIN chain' = 1 .. Len(chain) - 1 /\ \A i \in 1 .. Len(chain) - 1 : chain'[i] = chain[i]
    BY ShortenedChain
  <2> HIDE DEF n
  <2>4. n \in Nat /\ Len(chain) = n + 1 /\ Len(chain) - 1 = n
    BY <2>1, <2>2
  <2>5. QED
    BY <2>1, <2>3, <2>4
<1>2. utxo' = utxo \ Creates(chain[n + 1])
    BY <1>1 DEF RollbackUtxoSet
<1>3. ASSUME NEW k \in 0 .. n PROVE Left(k)' = Left(k)
  <2> DEFINE C(i) == Creates(chain[i])
             C1(i) == Creates(chain'[i])
  <2>1. \A i \in k + 1 .. n : C1(i) = C(i) /\ i \in k + 1 .. n + 1
    BY <1>1, <1>3
  <2>2. n + 1 \in k + 1 .. n + 1 /\ \A i \in k + 1 .. n + 1 : i \in k + 1 .. n \/ i = n + 1
    <3>1. n \in Nat /\ k \in 0 .. n
        BY <1>1, <1>3
    <3> HIDE DEF n, C, C1
    <3>2. QED
        BY <3>1
  <2>3. Left(k) = utxo \ UNION {C(i) : i \in k + 1 .. n + 1}
    BY <1>1 DEF Left
  <2>4. Left(k)' = (utxo \ C(n + 1)) \ UNION {C1(i) : i \in k + 1 .. n}
    BY <1>2 DEF Left, Creates
  <2> HIDE DEF C, C1, n
  <2>5. QED
    BY <2>1, <2>2, <2>3, <2>4
<1>4. QED
    BY <1>1, <1>2, <1>3

\* Blocks abandoned by a rollback give nothing back.
LEMMA RollbackKeepsMoney ==
    ASSUME LedgerTypeOK, MoneyOK, chain # <<>>,
           chain' = SubSeq(chain, 1, Len(chain) - 1),
           utxo' = RollbackUtxoSet(chain[Len(chain)]), torn' = torn
    PROVE  MoneyOK'
<1> DEFINE n == Len(chain')
<1>1. SUFFICES ASSUME ~torn
               PROVE  (\A k \in 0 .. n : SpentBelow(k)') /\ NothingFromNowhere'
    BY DEF MoneyOK
<1>2. /\ n \in Nat /\ DOMAIN chain = 1 .. n + 1 /\ DOMAIN chain' = 1 .. n
      /\ Len(chain) = n + 1
      /\ \A i \in 1 .. n : chain'[i] = chain[i]
      /\ utxo' = utxo \ Creates(chain[n + 1])
      /\ \A k \in 0 .. n : Left(k)' = Left(k)
    BY RollbackKeepsPrefixes
<1>3. (\A k \in 0 .. n + 1 : SpentBelow(k)) /\ NothingFromNowhere
    BY <1>1, <1>2 DEF MoneyOK
<1> HIDE DEF n
<1>4. ASSUME NEW k \in 0 .. n PROVE SpentBelow(k)'
  <2>1. SpentBelow(k) /\ Left(k)' = Left(k) /\ \A i \in 1 .. k : i \in 1 .. n
    BY <1>2, <1>3
  <2>2. \A i \in 1 .. k : chain'[i] = chain[i]
    BY <1>2, <2>1
  <2>3. OnceBelow(k)' => OnceBelow(k)
    BY <2>2 DEF OnceBelow, Ordinary
  <2>4. QED
    BY <2>1, <2>2, <2>3 DEF SpentBelow, Consumes
<1>6. NothingFromNowhere'
  <2>1. ASSUME NEW o \in utxo', o \notin BaseUtxo
        PROVE  \E i \in 1 .. n : o \in Creates(chain'[i])
    <3>1. PICK i \in 1 .. n + 1 : o \in Creates(chain[i])
      <4>1. utxo \subseteq BaseUtxo \cup UNION {Creates(chain[i]) : i \in 1 .. n + 1}
        BY <1>2, <1>3 DEF NothingFromNowhere
      <4>2. QED
        BY <2>1, <4>1, <1>2
    <3>2. i # n + 1
        BY <2>1, <3>1, <1>2
    <3>3. QED
        BY <3>1, <3>2, <1>2
  <2>2. ASSUME NEW i \in 1 .. n, NEW o \in Consumes(chain'[i])
        PROVE  o \in BaseUtxo \/ \E j \in 1 .. n : j < i /\ o \in Creates(chain'[j])
    <3>1. o \in BaseUtxo \/ \E j \in 1 .. n + 1 : j < i /\ o \in Creates(chain[j])
        BY <2>2, <1>2, <1>3 DEF NothingFromNowhere
    <3>2. \A j \in 1 .. n + 1 : j < i => j \in 1 .. n
        BY <1>2
    <3>3. QED
        BY <3>1, <3>2, <1>2
  <2>3. utxo' \subseteq BaseUtxo \cup UNION {Creates(chain'[i]) : i \in DOMAIN chain'}
    BY <1>2, <2>1
  <2>4. \A i \in DOMAIN chain' : \A o \in Consumes(chain'[i]) :
            o \in BaseUtxo \/ \E j \in DOMAIN chain' : j < i /\ o \in Creates(chain'[j])
    BY <1>2, <2>2
  <2>5. QED
    BY <2>3, <2>4 DEF NothingFromNowhere, Creates, Consumes
<1>7. QED
    BY <1>4, <1>6

\* What a block put on the chain does to the rest of the state.
LEMMA AppendKeepsBlocks ==
    ASSUME LedgerTypeOK, NEW b, BlockAt(b, Height + 1), chain' = Append(chain, b)
    PROVE  /\ \E S : chain' \in Seq(S)
           /\ \A i \in DOMAIN chain' : BlockAt(chain'[i], BaseHeight + i)
           /\ Confirmed' = Confirmed \cup b.txs
<1> DEFINE n == Len(chain)
<1>1. /\ n \in Nat /\ DOMAIN chain = 1 .. n /\ DOMAIN chain' = 1 .. n + 1
      /\ \A i \in 1 .. n : chain'[i] = chain[i]
      /\ chain'[n + 1] = b
      /\ \E S : chain' \in Seq(S)
    BY AppendedChain
<1>2. BlockAt(b, BaseHeight + (n + 1))
    BY <1>1, LedgerAssumption DEF Height
<1>3. \A i \in 1 .. n : BlockAt(chain[i], BaseHeight + i)
    BY <1>1 DEF LedgerTypeOK
<1> HIDE DEF n
<1>4. \A i \in 1 .. n + 1 : i \in 1 .. n \/ i = n + 1
    BY <1>1
<1>5. \A i \in DOMAIN chain' : BlockAt(chain'[i], BaseHeight + i)
    BY <1>1, <1>2, <1>3, <1>4
<1>6. UNION {chain'[i].txs : i \in 1 .. n + 1} = (UNION {chain[i].txs : i \in 1 .. n}) \cup b.txs
  <2> DEFINE T(i) == chain[i].txs
             U(i) == chain'[i].txs
  <2>1. (\A i \in 1 .. n : i \in 1 .. n + 1) /\ n + 1 \in 1 .. n + 1
    BY <1>1
  <2>2. (\A i \in 1 .. n : U(i) = T(i)) /\ U(n + 1) = b.txs
    BY <1>1
  <2> HIDE DEF T, U
  <2>3. UNION {U(i) : i \in 1 .. n + 1} = (UNION {T(i) : i \in 1 .. n}) \cup b.txs
    BY <1>4, <2>1, <2>2
  <2>4. QED
    BY <2>3 DEF T, U
<1>7. QED
    BY <1>1, <1>5, <1>6 DEF Confirmed

LEMMA RollbackKeepsBlocks ==
    ASSUME LedgerTypeOK, chain # <<>>, chain' = SubSeq(chain, 1, Len(chain) - 1)
    PROVE  /\ \E S : chain' \in Seq(S)
           /\ \A i \in DOMAIN chain' : BlockAt(chain'[i], BaseHeight + i)
           /\ Confirmed \subseteq Confirmed' \cup chain[Len(chain)].txs
           /\ Len(chain') \in Nat /\ Len(chain) \in Nat /\ Len(chain') < Len(chain)
<1> DEFINE n == Len(chain) - 1
<1>1. /\ DOMAIN chain' = 1 .. n /\ Len(chain') = n
      /\ \A i \in 1 .. n : chain'[i] = chain[i]
      /\ \E S : chain' \in Seq(S)
    BY ShortenedChain
<1>2. Len(chain) \in Nat \ {0} /\ DOMAIN chain = 1 .. Len(chain)
    BY ShortenedChain
<1>3. n \in Nat /\ Len(chain) = n + 1 /\ DOMAIN chain = 1 .. n + 1
    BY <1>2
<1>4. \A i \in 1 .. n : BlockAt(chain[i], BaseHeight + i)
    BY <1>3 DEF LedgerTypeOK
<1> HIDE DEF n
<1>5. \A i \in 1 .. n + 1 : i \in 1 .. n \/ i = n + 1
    BY <1>3
<1>6. UNION {chain[i].txs : i \in 1 .. n + 1}
        \subseteq (UNION {chain'[i].txs : i \in 1 .. n}) \cup chain[n + 1].txs
  <2> DEFINE T(i) == chain[i].txs
             U(i) == chain'[i].txs
  <2>1. \A i \in 1 .. n : U(i) = T(i)
    BY <1>1
  <2> HIDE DEF T, U
  <2>2. UNION {T(i) : i \in 1 .. n + 1} \subseteq (UNION {U(i) : i \in 1 .. n}) \cup T(n + 1)
    BY <1>5, <2>1
  <2>3. QED
    BY <2>2 DEF T, U
<1>7. Confirmed \subseteq Confirmed' \cup chain[Len(chain)].txs
  <2>1. Confirmed = UNION {chain[i].txs : i \in 1 .. n + 1}
    BY <1>3 DEF Confirmed
  <2>2. Confirmed' = UNION {chain'[i].txs : i \in 1 .. n}
    BY <1>1 DEF Confirmed
  <2>3. QED
    BY <1>3, <1>6, <2>1, <2>2
<1>8. ASSUME NEW i \in DOMAIN chain'
      PROVE  BlockAt(chain'[i], BaseHeight + i)
  <2>1. i \in 1 .. n
    BY <1>1, <1>8
  <2>2. BlockAt(chain[i], BaseHeight + i) /\ chain'[i] = chain[i]
    BY <1>1, <1>4, <2>1
  <2>3. QED
    BY <2>2
<1>9. Len(chain') \in Nat /\ Len(chain) \in Nat /\ Len(chain') < Len(chain)
    BY <1>1, <1>3
<1>10. QED
    BY <1>1, <1>7, <1>8, <1>9

\* An appended block makes every job stale.
LEMMA AppendKeepsJob ==
    ASSUME JobOK, generation \in Nat, generation' = generation + 1, job' = job
    PROVE  JobOK'
BY DEF JobOK, BlockAt, NoDoubleSpend, Compatible

LEMMA ForeignBlockAt ==
    ASSUME NEW b \in ForeignBlocks
    PROVE  BlockAt(b, Height + 1) /\ \A t \in b.txs : Payable(t)
BY DEF ForeignBlocks, BlocksOf, BlockAt, Coinbase

\* A job that is still current can be paid, and would extend the chain.
LEMMA CurrentJob ==
    ASSUME LedgerTypeOK, JobOK, job # NoJob, JobCurrent
    PROVE  /\ BlockAt(job.block, Height + 1)
           /\ \A t \in job.block.txs : Payable(t)
           /\ NoDoubleSpend(job.block)
BY DEF JobOK, JobCurrent, Height

\* The domains of the tables of marks.
LEMMA Marks ==
    ASSUME NEW p, NEW T, NEW h, NEW pool
    PROVE  /\ DOMAIN Mark(p, T, h) = DOMAIN p \cup T
           /\ DOMAIN Unmark(p, T) = DOMAIN p \ T
           /\ DOMAIN Prune(p, h, pool) \subseteq DOMAIN p
BY DEF Mark, Unmark, Prune, Restrict

LEMMA RebuiltMarks ==
    ASSUME NEW c
    PROVE  DOMAIN Rebuilt(c) \subseteq UNION {c[i].txs : i \in DOMAIN c}
BY DEF Rebuilt, Ordinary

----------------------------------------------------------------------------
(* The steps *)

LEMMA InitInv == Init => Inv
<1> SUFFICES ASSUME Init PROVE Inv
    OBVIOUS
<1>1. chain \in Seq({}) /\ DOMAIN chain = {}
    BY DEF Init
<1>2. LedgerTypeOK
    BY <1>1 DEF Init, LedgerTypeOK
<1>3. PoolOK /\ JobOK
    BY DEF Init, PoolOK, JobOK
<1>4. MoneyOK
  <2>1. \A k \in 0 .. Len(chain) : SpentBelow(k)
    <3>1. Len(chain) = 0 /\ \A k \in 0 .. 0 : k = 0 /\ 1 .. k = {}
        BY DEF Init
    <3>2. QED
        BY <3>1 DEF SpentBelow
  <2>2. NothingFromNowhere
    BY <1>1 DEF Init, NothingFromNowhere
  <2>3. QED
    BY <2>1, <2>2 DEF MoneyOK
<1>5. NoStrayMark
    BY DEF Init, NoStrayMark
<1>6. QED
    BY <1>2, <1>3, <1>4, <1>5 DEF Inv

\* The parts of the invariant that speak of the chain, the UTXO set and the job
\* are not touched by what leaves those alone.
LEMMA UntouchedChain ==
    ASSUME Inv, UNCHANGED <<chain, utxo, torn, generation>>
    PROVE  /\ MoneyOK' /\ Confirmed' = Confirmed
           /\ \E S : chain' \in Seq(S)
           /\ \A i \in DOMAIN chain' : BlockAt(chain'[i], BaseHeight + i)
           /\ job' = job => JobOK'
<1>1. MoneyOK'
  <2>1. NothingFromNowhere => NothingFromNowhere'
    BY DEF NothingFromNowhere, Creates, Consumes
  <2>2. \A n : Left(n)' = Left(n) /\ (OnceBelow(n)' <=> OnceBelow(n))
    BY DEF Left, OnceBelow, Creates, Ordinary
  <2>3. \A n : SpentBelow(n) => SpentBelow(n)'
    BY <2>2 DEF SpentBelow, Consumes
  <2>4. QED
    BY <2>1, <2>3 DEF Inv, MoneyOK
<1>2. Confirmed' = Confirmed
    BY DEF Confirmed
<1>3. /\ \E S : chain' \in Seq(S)
      /\ \A i \in DOMAIN chain' : BlockAt(chain'[i], BaseHeight + i)
    BY DEF Inv, LedgerTypeOK
<1>4. job' = job => JobOK'
    BY DEF Inv, JobOK, BlockAt, NoDoubleSpend, Compatible, Payable
<1>5. QED
    BY <1>1, <1>2, <1>3, <1>4

LEMMA AddTransactionInv ==
    ASSUME Inv, NEW t \in Txs, AddTransaction(t)
    PROVE  Inv'
<1> DEFINE pool == mempool \cup {t}
           marks == Mark(processed, {t}, Height)
<1>1. PICK gone \in SUBSET pool :
          mempool' = pool \ gone /\ DOMAIN processed' = (DOMAIN processed \cup {t}) \ gone
  <2>1. DOMAIN marks = DOMAIN processed \cup {t}
    BY Marks
  <2>2. CASE Cardinality(pool) <= MaxMempool
    <3>1. mempool' = pool \ {} /\ DOMAIN processed' = (DOMAIN processed \cup {t}) \ {}
        BY <2>1, <2>2 DEF AddTransaction
    <3>2. QED
        BY <3>1
  <2>3. CASE ~(Cardinality(pool) <= MaxMempool)
    <3>1. Evict(pool, marks)
        BY <2>3 DEF AddTransaction
    <3>2. PICK victim \in pool :
              mempool' = pool \ {victim} /\ processed' = Unmark(marks, {victim})
        BY <3>1 DEF Evict, Cheapest
    <3>3. DOMAIN processed' = DOMAIN marks \ {victim}
        BY <3>2, Marks
    <3>4. QED
        BY <2>1, <3>2, <3>3
  <2>4. QED
    BY <2>2, <2>3
<1>2. UNCHANGED <<chain, utxo, torn, generation>> /\ job' = job
    BY DEF AddTransaction
<1>3. MoneyOK' /\ JobOK' /\ Confirmed' = Confirmed
    BY <1>2, UntouchedChain
<1>4. LedgerTypeOK'
  <2>1. mempool' \subseteq Txs /\ saved_mempool' = mempool'
    BY <1>1 DEF AddTransaction, Inv, LedgerTypeOK
  <2>2. generation' \in Nat /\ crashes' \in Nat
    BY DEF AddTransaction, Inv, LedgerTypeOK
  <2>3. QED
    BY <1>2, <2>1, <2>2, UntouchedChain DEF LedgerTypeOK
<1>5. PoolOK'
    BY <1>1 DEF AddTransaction, Admissible, Compatible, Inv, PoolOK
<1>6. NoStrayMark'
    BY <1>1, <1>3 DEF AddTransaction, Inv, NoStrayMark
<1>7. QED
    BY <1>3, <1>4, <1>5, <1>6 DEF Inv

LEMMA AcceptBlockInv ==
    ASSUME Inv, NEW b \in ForeignBlocks, AcceptBlock(b)
    PROVE  Inv'
<1>1. LedgerTypeOK /\ PoolOK /\ JobOK /\ MoneyOK /\ NoStrayMark
    BY DEF Inv
<1>2. BlockAt(b, Height + 1) /\ \A t \in b.txs : Payable(t)
    BY ForeignBlockAt
<1>3. /\ chain' = Append(chain, b) /\ utxo' = UpdateUtxoSet(b) /\ torn' = torn
      /\ generation' = generation + 1 /\ job' = job
      /\ mempool' = mempool \ Ordinary(b) /\ saved_mempool' = mempool'
      /\ abandoned' = abandoned /\ crashes' = crashes
    BY DEF AcceptBlock, Append1
<1>4. MoneyOK'
    BY <1>1, <1>2, <1>3, AppendKeepsMoney
<1>5. /\ \E S : chain' \in Seq(S)
      /\ \A i \in DOMAIN chain' : BlockAt(chain'[i], BaseHeight + i)
      /\ Confirmed' = Confirmed \cup b.txs
    BY <1>1, <1>2, <1>3, AppendKeepsBlocks
<1>6. JobOK'
    BY <1>1, <1>3, AppendKeepsJob DEF LedgerTypeOK
<1>7. LedgerTypeOK'
  <2>1. generation' \in Nat /\ crashes' \in Nat /\ mempool' \subseteq Txs
    BY <1>1, <1>3 DEF LedgerTypeOK
  <2>2. QED
    BY <1>3, <1>5, <2>1 DEF LedgerTypeOK
<1>8. PoolOK'
    BY <1>1, <1>3 DEF PoolOK, Compatible
<1>9. NoStrayMark'
  <2>1. DOMAIN processed' \subseteq DOMAIN processed \cup b.txs
    <3> DEFINE pruned == Prune(processed, Height + 1, mempool)
    <3>1. processed' = Mark(pruned, Ordinary(b), Height + 1)
        BY DEF AcceptBlock
    <3>2. DOMAIN pruned \subseteq DOMAIN processed
        BY Marks
    <3> HIDE DEF pruned
    <3>3. DOMAIN processed' = DOMAIN pruned \cup Ordinary(b)
        BY <3>1, Marks
    <3>4. QED
        BY <3>2, <3>3 DEF Ordinary
  <2>2. QED
    BY <1>1, <1>3, <1>5, <2>1 DEF NoStrayMark, Ordinary
<1>10. QED
    BY <1>4, <1>6, <1>7, <1>8, <1>9 DEF Inv

LEMMA RollbackTipInv ==
    ASSUME Inv, RollbackTip
    PROVE  Inv'
<1>1. LedgerTypeOK /\ PoolOK /\ JobOK /\ MoneyOK /\ NoStrayMark
    BY DEF Inv
<1>2. /\ chain # <<>> /\ chain' = SubSeq(chain, 1, Len(chain) - 1)
      /\ utxo' = RollbackUtxoSet(chain[Len(chain)]) /\ torn' = torn
      /\ abandoned' = abandoned \cup chain[Len(chain)].txs
      /\ UNCHANGED <<mempool, saved_mempool, processed, job, generation, crashes>>
    BY DEF RollbackTip
<1>3. MoneyOK'
    BY <1>1, <1>2, RollbackKeepsMoney
<1>4. /\ \E S : chain' \in Seq(S)
      /\ \A i \in DOMAIN chain' : BlockAt(chain'[i], BaseHeight + i)
      /\ Confirmed \subseteq Confirmed' \cup chain[Len(chain)].txs
      /\ Len(chain') \in Nat /\ Len(chain) \in Nat /\ Len(chain') < Len(chain)
    BY <1>1, <1>2, RollbackKeepsBlocks
<1>5. JobOK'
  <2>1. SUFFICES ASSUME job # NoJob
                 PROVE  JobOK'
    BY <1>2 DEF JobOK
  <2>2. /\ job.generation \in Nat /\ job.generation <= generation
        /\ Len(job.prev) \in Nat
        /\ BlockAt(job.block, BaseHeight + Len(job.prev) + 1)
        /\ NoDoubleSpend(job.block)
        /\ job.generation = generation => Len(chain) <= Len(job.prev)
    BY <1>1, <2>1 DEF JobOK
  <2>3. job.generation = generation => Len(chain') < Len(job.prev)
    BY <1>4, <2>2
  <2>4. ~(job.generation = generation /\ Len(chain') = Len(job.prev))
    BY <1>4, <2>2, <2>3
  <2>5. job.generation = generation => Len(chain') <= Len(job.prev)
    BY <1>4, <2>2, <2>3
  <2>6. QED
    BY <1>2, <2>2, <2>4, <2>5 DEF JobOK, BlockAt, NoDoubleSpend, Compatible
<1>6. LedgerTypeOK' /\ PoolOK'
    BY <1>1, <1>2, <1>4 DEF LedgerTypeOK, PoolOK, Compatible
<1>7. NoStrayMark'
    BY <1>1, <1>2, <1>4 DEF NoStrayMark
<1>8. QED
    BY <1>3, <1>5, <1>6, <1>7 DEF Inv

LEMMA PrepareMiningJobInv ==
    ASSUME Inv, PrepareMiningJob
    PROVE  Inv'
<1>1. LedgerTypeOK /\ PoolOK /\ NoStrayMark
    BY DEF Inv
<1>2. UNCHANGED <<chain, utxo, mempool, saved_mempool, processed, generation,
                  abandoned, torn, crashes>>
    BY DEF PrepareMiningJob
<1>3. PICK T \in BestTxs : \E b \in BlocksOf(T, Me, 0) :
          job' = [block |-> b, prev |-> chain, generation |-> generation]
    BY DEF PrepareMiningJob
<1>4. T \subseteq mempool /\ \A t \in T : Payable(t)
    BY DEF BestTxs
<1>5. JobOK'
  <2>1. /\ job'.generation = generation /\ job'.prev = chain
        /\ job'.block.txs = T /\ job'.block.again \subseteq Respent(T)
        /\ job'.block.reward.tx = Me /\ job'.block.reward.height = Height + 1
    BY <1>3 DEF BlocksOf, Coinbase
  <2>2. Len(chain) \in Nat /\ generation \in Nat
    BY <1>1 DEF LedgerTypeOK
  <2>3. BlockAt(job'.block, BaseHeight + Len(job'.prev) + 1)
    BY <1>1, <1>4, <2>1, LedgerAssumption DEF BlockAt, Height, LedgerTypeOK
  <2>4. NoDoubleSpend(job'.block)
    BY <1>1, <1>4, <2>1 DEF NoDoubleSpend, PoolOK
  <2>5. \A t \in job'.block.txs : Payable(t)'
    BY <1>2, <1>4, <2>1 DEF Payable
  <2>6. Len(chain') <= Len(job'.prev) /\ job'.generation <= generation'
    BY <1>2, <2>1, <2>2
  <2>7. QED
    BY <1>2, <2>1, <2>2, <2>3, <2>4, <2>5, <2>6
       DEF JobOK, BlockAt, NoDoubleSpend, Compatible
<1>6. MoneyOK' /\ Confirmed' = Confirmed
    BY <1>2, UntouchedChain
<1>7. LedgerTypeOK' /\ PoolOK' /\ NoStrayMark'
    BY <1>1, <1>2, <1>6 DEF LedgerTypeOK, PoolOK, Compatible, NoStrayMark
<1>8. QED
    BY <1>5, <1>6, <1>7 DEF Inv

LEMMA CommitBlockInv ==
    ASSUME Inv, CommitBlock
    PROVE  Inv'
<1> DEFINE b == job.block
<1>1. LedgerTypeOK /\ PoolOK /\ JobOK /\ MoneyOK /\ NoStrayMark
    BY DEF Inv
<1>2. BlockAt(b, Height + 1) /\ \A t \in b.txs : Payable(t)
    BY <1>1, CurrentJob DEF CommitBlock
<1>3. /\ chain' = Append(chain, b) /\ utxo' = UpdateUtxoSet(b) /\ torn' = torn
      /\ generation' = generation + 1 /\ job' = NoJob
      /\ mempool' = mempool \ Ordinary(b) /\ saved_mempool' = mempool'
      /\ abandoned' = abandoned /\ crashes' = crashes
      /\ processed' = Prune(Unmark(Mark(processed, Ordinary(b), Height + 1), mempool'),
                            Height + 1, mempool')
    BY DEF CommitBlock, Append1
<1> HIDE DEF b
<1>4. MoneyOK'
    BY <1>1, <1>2, <1>3, AppendKeepsMoney
<1>5. /\ \E S : chain' \in Seq(S)
      /\ \A i \in DOMAIN chain' : BlockAt(chain'[i], BaseHeight + i)
      /\ Confirmed' = Confirmed \cup b.txs
    BY <1>1, <1>2, <1>3, AppendKeepsBlocks
<1>6. JobOK'
    BY <1>3 DEF JobOK
<1>7. LedgerTypeOK'
  <2>1. generation' \in Nat /\ crashes' \in Nat /\ mempool' \subseteq Txs
    BY <1>1, <1>3 DEF LedgerTypeOK
  <2>2. QED
    BY <1>3, <1>5, <2>1 DEF LedgerTypeOK
<1>8. PoolOK'
    BY <1>1, <1>3 DEF PoolOK, Compatible
<1>9. NoStrayMark'
  <2> DEFINE marked == Mark(processed, Ordinary(b), Height + 1)
             kept == Unmark(marked, mempool')
  <2>1. DOMAIN marked = DOMAIN processed \cup Ordinary(b)
    BY Marks
  <2>2. DOMAIN kept = DOMAIN marked \ mempool'
    BY Marks
  <2>3. DOMAIN processed' \subseteq DOMAIN kept
    BY <1>3, Marks
  <2>4. QED
    BY <1>1, <1>3, <1>5, <2>1, <2>2, <2>3 DEF NoStrayMark, Ordinary
<1>10. QED
    BY <1>4, <1>6, <1>7, <1>8, <1>9 DEF Inv

LEMMA DropJobInv ==
    ASSUME Inv, DropJob
    PROVE  Inv'
<1>1. /\ UNCHANGED <<chain, utxo, mempool, saved_mempool, processed, generation,
                     abandoned, torn, crashes>>
      /\ job' = NoJob
    BY DEF DropJob
<1>2. MoneyOK' /\ Confirmed' = Confirmed
    BY <1>1, UntouchedChain
<1>3. LedgerTypeOK' /\ PoolOK' /\ JobOK' /\ NoStrayMark'
    BY <1>1, <1>2 DEF Inv, LedgerTypeOK, PoolOK, Compatible, JobOK, NoStrayMark
<1>4. QED
    BY <1>2, <1>3 DEF Inv

\* What a crash may leave: a torn UTXO set under the chain as it was, or the
\* state before or after a whole block; the mempool as it was, or without the
\* transactions of the block that was being committed.
LEMMA CrashOutcomes ==
    ASSUME Inv, Crash
    PROVE  /\ mempool' = mempool \/ (torn' /\ mempool' = mempool \ Ordinary(job.block))
           /\ saved_mempool' = mempool' /\ job' = NoJob
           /\ processed' = Rebuilt(chain')
           /\ crashes' = crashes + 1 /\ generation' = generation
           /\ \/ chain' = chain /\ (torn' \/ (utxo' = utxo /\ torn' = torn))
              \/ \E b \in ForeignBlocks :
                    /\ CoinbaseValid(b) /\ NoDoubleSpend(b)
                    /\ chain' = Append(chain, b) /\ utxo' = UpdateUtxoSet(b) /\ torn' = torn
<1>1. PICK image \in CrashImages : Restart(image)
    BY DEF Crash
<1>2. saved_mempool = mempool
    BY DEF Inv, LedgerTypeOK
<1>3. /\ chain' = image.chain /\ utxo' = image.utxo /\ torn' = image.torn
      /\ mempool' = image.mempool /\ saved_mempool' = image.mempool
      /\ processed' = Rebuilt(chain') /\ job' = NoJob
    BY <1>1 DEF Restart
<1>4. crashes' = crashes + 1 /\ generation' = generation
    BY DEF Crash
<1>5. \/ image = Image(chain, utxo, saved_mempool, torn)
      \/ \E b \in ForeignBlocks :
            CoinbaseValid(b) /\ NoDoubleSpend(b) /\ image \in AcceptImages(b)
      \/ image \in CommitImages(job.block)
    BY <1>1 DEF CrashImages
<1>6. CASE image = Image(chain, utxo, saved_mempool, torn)
  <2>1. /\ image.chain = chain /\ image.utxo = utxo /\ image.torn = torn
        /\ image.mempool = saved_mempool
    BY <1>6 DEF Image
  <2>2. /\ chain' = chain /\ utxo' = utxo /\ torn' = torn
        /\ mempool' = mempool /\ saved_mempool' = mempool'
    BY <1>2, <1>3, <2>1
  <2>3. QED
    BY <1>3, <1>4, <2>2, Zenon
<1>7. CASE \E b \in ForeignBlocks :
               CoinbaseValid(b) /\ NoDoubleSpend(b) /\ image \in AcceptImages(b)
  <2>1. PICK b \in ForeignBlocks :
            CoinbaseValid(b) /\ NoDoubleSpend(b) /\ image \in AcceptImages(b)
    BY <1>7
  <2>2. \/ /\ image.chain = chain /\ image.torn = TRUE /\ image.mempool = saved_mempool
        \/ /\ image.chain = Append(chain, b) /\ image.utxo = UpdateUtxoSet(b)
           /\ image.torn = torn /\ image.mempool = saved_mempool
    BY <2>1 DEF AcceptImages, Image
  <2>3. mempool' = mempool /\ saved_mempool' = mempool'
    BY <1>2, <1>3, <2>2
  <2>4. \/ chain' = chain /\ torn' = TRUE
        \/ chain' = Append(chain, b) /\ utxo' = UpdateUtxoSet(b) /\ torn' = torn
    BY <1>3, <2>2
  <2>5. QED
    BY <1>3, <1>4, <2>1, <2>3, <2>4, Zenon
<1>8. CASE image \in CommitImages(job.block)
  <2>1. /\ image.chain = chain /\ image.torn = TRUE
        /\ image.mempool = saved_mempool \/ image.mempool = mempool \ Ordinary(job.block)
    BY <1>8 DEF CommitImages, Image
  <2>2. /\ chain' = chain /\ torn' = TRUE /\ saved_mempool' = mempool'
        /\ mempool' = mempool \/ mempool' = mempool \ Ordinary(job.block)
    BY <1>2, <1>3, <2>1
  <2>3. QED
    BY <1>3, <1>4, <2>2, Zenon
<1>9. QED
    BY <1>5, <1>6, <1>7, <1>8

LEMMA CrashInv ==
    ASSUME Inv, Crash
    PROVE  Inv'
<1>1. LedgerTypeOK /\ PoolOK /\ MoneyOK
    BY DEF Inv
<1>2. /\ mempool' \subseteq mempool
      /\ saved_mempool' = mempool' /\ job' = NoJob
      /\ processed' = Rebuilt(chain')
      /\ crashes' = crashes + 1 /\ generation' = generation
    BY CrashOutcomes
<1>3. /\ \E S : chain' \in Seq(S)
      /\ \A i \in DOMAIN chain' : BlockAt(chain'[i], BaseHeight + i)
      /\ MoneyOK'
  <2>1. CASE chain' = chain /\ torn'
    <3>1. MoneyOK'
        BY <2>1 DEF MoneyOK
    <3>2. QED
        BY <1>1, <2>1, <3>1 DEF LedgerTypeOK
  <2>2. CASE chain' = chain /\ utxo' = utxo /\ torn' = torn
    BY <1>2, <2>2, UntouchedChain
  <2>3. CASE \E b \in ForeignBlocks :
                chain' = Append(chain, b) /\ utxo' = UpdateUtxoSet(b) /\ torn' = torn
    <3>1. PICK b \in ForeignBlocks :
              chain' = Append(chain, b) /\ utxo' = UpdateUtxoSet(b) /\ torn' = torn
        BY <2>3
    <3>2. BlockAt(b, Height + 1) /\ \A t \in b.txs : Payable(t)
        BY ForeignBlockAt
    <3>3. QED
        BY <1>1, <3>1, <3>2, AppendKeepsMoney, AppendKeepsBlocks
  <2>4. QED
    BY <2>1, <2>2, <2>3, CrashOutcomes
<1>4. LedgerTypeOK'
  <2>1. crashes' \in Nat /\ generation' \in Nat /\ mempool' \subseteq Txs
    BY <1>1, <1>2 DEF LedgerTypeOK
  <2>2. QED
    BY <1>2, <1>3, <2>1 DEF LedgerTypeOK
<1>5. PoolOK' /\ JobOK'
    BY <1>1, <1>2 DEF PoolOK, Compatible, JobOK
<1>6. NoStrayMark'
    BY <1>2, RebuiltMarks DEF NoStrayMark, Confirmed
<1>7. QED
    BY <1>3, <1>4, <1>5, <1>6 DEF Inv

LEMMA NextInv == Inv /\ [Next]_vars => Inv'
<1> SUFFICES ASSUME Inv, [Next]_vars
             PROVE  Inv'
    OBVIOUS
<1>1. CASE \E t \in Txs : AddTransaction(t)
    BY <1>1, AddTransactionInv
<1>2. CASE \E b \in ForeignBlocks : AcceptBlock(b)
    BY <1>2, AcceptBlockInv
<1>3. CASE RollbackTip
    BY <1>3, RollbackTipInv
<1>4. CASE PrepareMiningJob
    BY <1>4, PrepareMiningJobInv
<1>5. CASE CommitBlock
    BY <1>5, CommitBlockInv
<1>6. CASE DropJob
    BY <1>6, DropJobInv
<1>7. CASE Crash
    BY <1>7, CrashInv
<1>8. CASE UNCHANGED vars
  <2>1. /\ UNCHANGED <<chain, utxo, mempool, saved_mempool, processed, job, generation,
                       abandoned, torn, crashes>>
    BY <1>8 DEF vars
  <2>2. MoneyOK' /\ Confirmed' = Confirmed /\ JobOK'
    BY <2>1, UntouchedChain
  <2>3. LedgerTypeOK' /\ PoolOK' /\ NoStrayMark'
    BY <2>1, <2>2 DEF Inv, LedgerTypeOK, PoolOK, Compatible, NoStrayMark
  <2>4. QED
    BY <2>2, <2>3 DEF Inv
<1>9. QED
    BY <1>1, <1>2, <1>3, <1>4, <1>5, <1>6, <1>7, <1>8 DEF Next

----------------------------------------------------------------------------
(* Sums *)

\* A set of numbers has a least one.
LEMMA LeastNumber ==
    ASSUME NEW S \in SUBSET Nat, S # {}
    PROVE  \E m \in S : \A k \in S : m <= k
<1> DEFINE R == OpToRel(<, Nat)
<1>1. IsWellFoundedOn(R, Nat)
    BY NatLessThanWellFounded
<1>2. \A k, m \in Nat : k < m => <<k, m>> \in R
    BY DEF OpToRel
<1> HIDE DEF R
<1>3. PICK m \in S : \A k \in S : ~(<<k, m>> \in R)
    BY <1>1, WFMin
<1>4. ASSUME NEW k \in S PROVE m <= k
  <2>1. k \in Nat /\ m \in Nat
    OBVIOUS
  <2>2. ~(k < m)
    BY <1>2, <1>3, <2>1
  <2>3. QED
    BY <2>1, <2>2
<1>5. QED
    BY <1>4

\* A property of finite sets that fails for some set fails for one all of whose
\* smaller subsets have it.
LEMMA SmallestSet ==
    ASSUME NEW D, NEW Bad \in SUBSET SUBSET D, Bad # {}, \A s \in Bad : IsFiniteSet(s)
    PROVE  \E s \in Bad : \A x \in s : s \ {x} \notin Bad
<1> DEFINE N == {n \in Nat : \E s \in Bad : Cardinality(s) = n}
<1>1. N \in SUBSET Nat /\ N # {}
    BY FS_CardinalityType
<1>2. PICK m \in N : \A k \in N : m <= k
    BY <1>1, LeastNumber
<1>3. PICK s \in Bad : Cardinality(s) = m
    BY <1>2
<1>4. ASSUME NEW x \in s, s \ {x} \in Bad PROVE FALSE
  <2>1. Cardinality(s \ {x}) = m - 1 /\ m \in Nat
    BY <1>2, <1>3, FS_RemoveElement
  <2>2. Cardinality(s \ {x}) \in Nat
    BY <1>4, FS_CardinalityType
  <2>3. m - 1 \in N
    BY <1>4, <2>1, <2>2
  <2>4. m <= m - 1
    BY <1>2, <2>3
  <2>5. QED
    BY <2>1, <2>4
<1>5. QED
    BY <1>4

\* h is the recursive function by which MapThenSumSet adds up f over S, in the
\* order in which CHOOSE takes the elements; SumOver is its value for S.
IsSum(f, S, h) ==
    h = [s \in SUBSET S |->
            IF s = {} THEN 0
            ELSE LET x == CHOOSE x \in s : TRUE IN f[x] + h[s \ {x}]]

SumOver(f, S) == (CHOOSE h : IsSum(f, S, h))[S]

\* The recursion defines a function: by the size of the subsets.
LEMMA SumExists ==
    ASSUME NEW S, IsFiniteSet(S), NEW f
    PROVE  \E h : IsSum(f, S, h)
<1> DEFINE Small(n) == {s \in SUBSET S : Cardinality(s) <= n}
           First(s) == CHOOSE x \in s : TRUE
           Rule(h, s) == IF s = {} THEN 0 ELSE f[First(s)] + h[s \ {First(s)}]
           Piece(h, n) == h = [s \in Small(n) |-> Rule(h, s)]
           Bad == {n \in Nat : \A h : ~Piece(h, n)}
<1>1. \A s \in SUBSET S : IsFiniteSet(s) /\ Cardinality(s) \in Nat
    BY FS_Subset, FS_CardinalityType
<1>2. \A s \in SUBSET S : s # {} => First(s) \in s
    OBVIOUS
<1> HIDE DEF First
<1>3. \A s \in SUBSET S : s # {} =>
          Cardinality(s \ {First(s)}) = Cardinality(s) - 1 /\ s \ {First(s)} \in SUBSET S
    BY <1>1, <1>2, FS_RemoveElement
<1>4. Bad = {}
  <2>1. SUFFICES ASSUME Bad # {} PROVE FALSE
    OBVIOUS
  <2>2. PICK n \in Bad : \A k \in Bad : n <= k
    BY <2>1, LeastNumber
  <2>3. n \in Nat /\ \A h : ~Piece(h, n)
    OBVIOUS
  <2>4. CASE n = 0
    <3> DEFINE z == [s \in Small(0) |-> 0]
    <3>1. \A s \in Small(0) : s = {}
        BY <1>1, FS_EmptySet
    <3>2. Piece(z, n)
        BY <2>4, <3>1
    <3> HIDE DEF z, Piece
    <3>3. QED
        BY <2>3, <3>2
  <2>5. CASE n # 0
    <3>1. n - 1 \in Nat /\ n - 1 \notin Bad
      <4> HIDE DEF Bad
      <4>1. QED
        BY <2>2, <2>3, <2>5
    <3>2. PICK h : Piece(h, n - 1)
        BY <3>1
    <3> DEFINE k == [s \in Small(n) |-> Rule(h, s)]
    <3>3. \A s \in Small(n) : s \in SUBSET S /\ Cardinality(s) \in Nat /\ Cardinality(s) <= n
        BY <1>1
    <3>4. \A s \in Small(n - 1) : s \in Small(n)
        BY <1>1, <2>3, <3>1
    <3>5. \A s \in Small(n - 1) : k[s] = h[s]
        BY <3>2, <3>4
    <3>6. ASSUME NEW s \in Small(n), s # {}
          PROVE  k[s \ {First(s)}] = h[s \ {First(s)}]
      <4>1. s \ {First(s)} \in Small(n - 1)
        BY <1>3, <2>3, <3>1, <3>3, <3>6
      <4>2. QED
        BY <3>5, <4>1
    <3>7. \A s \in Small(n) : Rule(k, s) = Rule(h, s)
      <4> HIDE DEF k, Small
      <4>1. QED
        BY <3>6
    <3>8. Piece(k, n)
      <4>1. \A s \in Small(n) : k[s] = Rule(h, s)
        OBVIOUS
      <4>2. k = [s \in Small(n) |-> k[s]]
        OBVIOUS
      <4> HIDE DEF k, Small, Rule
      <4>3. QED
        BY <3>7, <4>1, <4>2
    <3> HIDE DEF k, Piece
    <3>9. QED
        BY <2>3, <3>8
  <2>6. QED
    BY <2>4, <2>5
<1>5. \E h : Piece(h, Cardinality(S))
  <2>1. Cardinality(S) \in Nat /\ Cardinality(S) \notin Bad
    BY <1>1, <1>4
  <2> HIDE DEF Piece
  <2>2. QED
    BY <2>1
<1>6. Small(Cardinality(S)) = SUBSET S
    BY <1>1, FS_Subset
<1>7. QED
    BY <1>5, <1>6 DEF IsSum, First

\* Any element may be the one that is added last.
LEMMA SumStep ==
    ASSUME NEW D, NEW f \in [D -> Int], NEW S \in SUBSET D, IsFiniteSet(S),
           NEW h, IsSum(f, S, h)
    PROVE  /\ h[{}] = 0
           /\ \A s \in SUBSET S : h[s] \in Int
           /\ \A s \in SUBSET S : \A y \in s : h[s] = f[y] + h[s \ {y}]
<1>1. h[{}] = 0
    BY DEF IsSum
<1>2. \A s \in SUBSET S : s # {} =>
          LET x == CHOOSE x \in s : TRUE IN x \in s /\ h[s] = f[x] + h[s \ {x}]
    BY DEF IsSum
<1>3. \A s \in SUBSET S : s # {} => \E x \in s : h[s] = f[x] + h[s \ {x}]
    BY <1>2
<1>4. \A s \in SUBSET S : IsFiniteSet(s)
    BY FS_Subset
<1>5. \A s \in SUBSET S : h[s] \in Int
  <2> DEFINE Bad == {s \in SUBSET S : h[s] \notin Int}
  <2>1. SUFFICES ASSUME Bad # {} PROVE FALSE
    OBVIOUS
  <2>2. PICK s \in Bad : \A x \in s : s \ {x} \notin Bad
    BY <1>4, <2>1, SmallestSet
  <2>3. s # {}
    BY <1>1, <2>2
  <2>4. PICK x \in s : h[s] = f[x] + h[s \ {x}]
    BY <1>3, <2>3
  <2>5. h[s \ {x}] \in Int /\ f[x] \in Int
    BY <2>2
  <2>6. QED
    BY <2>4, <2>5
<1>6. \A s \in SUBSET S : \A y \in s : h[s] = f[y] + h[s \ {y}]
  <2> DEFINE Bad == {s \in SUBSET S : \E y \in s : h[s] # f[y] + h[s \ {y}]}
  <2>1. SUFFICES ASSUME Bad # {} PROVE FALSE
    OBVIOUS
  <2>2. PICK s \in Bad : \A x \in s : s \ {x} \notin Bad
    BY <1>4, <2>1, SmallestSet
  <2>3. PICK y \in s : h[s] # f[y] + h[s \ {y}]
    BY <2>2
  <2>4. PICK x \in s : h[s] = f[x] + h[s \ {x}]
    BY <1>3, <2>3
  <2>5. x # y
    BY <2>3, <2>4
  <2>6. h[s \ {x}] = f[y] + h[(s \ {x}) \ {y}]
    BY <2>2, <2>5
  <2>7. h[s \ {y}] = f[x] + h[(s \ {y}) \ {x}]
    BY <2>2, <2>5
  <2>8. (s \ {x}) \ {y} = (s \ {y}) \ {x} /\ (s \ {y}) \ {x} \in SUBSET S
    OBVIOUS
  <2>9. f[x] \in Int /\ f[y] \in Int /\ h[(s \ {y}) \ {x}] \in Int
    BY <1>5
  <2> DEFINE rest == h[(s \ {y}) \ {x}]
  <2>10. h[s \ {x}] = f[y] + rest /\ h[s \ {y}] = f[x] + rest /\ rest \in Int
    BY <2>6, <2>7, <2>8, <2>9
  <2> HIDE DEF rest
  <2>11. f[x] + h[s \ {x}] = f[y] + h[s \ {y}]
    BY <2>9, <2>10
  <2>12. QED
    BY <2>3, <2>4, <2>11
<1>7. QED
    BY <1>1, <1>5, <1>6

\* Sums over different sets agree where both are defined.
LEMMA SumUnique ==
    ASSUME NEW D, NEW f \in [D -> Int],
           NEW S \in SUBSET D, IsFiniteSet(S), NEW h, IsSum(f, S, h),
           NEW T \in SUBSET D, IsFiniteSet(T), NEW k, IsSum(f, T, k),
           NEW s, s \subseteq S, s \subseteq T
    PROVE  h[s] = k[s]
<1> DEFINE Bad == {r \in SUBSET s : h[r] # k[r]}
<1>1. SUFFICES ASSUME Bad # {} PROVE FALSE
    OBVIOUS
<1>2. \A r \in SUBSET s : IsFiniteSet(r)
    BY FS_Subset
<1>3. PICK r \in Bad : \A x \in r : r \ {x} \notin Bad
    BY <1>1, <1>2, SmallestSet
<1>4. /\ h[{}] = 0 /\ k[{}] = 0
      /\ \A x \in r : h[r] = f[x] + h[r \ {x}]
      /\ \A x \in r : k[r] = f[x] + k[r \ {x}]
    BY SumStep
<1>5. r # {}
    BY <1>3, <1>4
<1>6. PICK x \in r : TRUE
    BY <1>5
<1>7. h[r \ {x}] = k[r \ {x}]
    BY <1>3
<1>8. QED
    BY <1>3, <1>4, <1>6, <1>7

\* The recursion over a sum, with any element taken out.
LEMMA SumFacts ==
    ASSUME NEW D, NEW f \in [D -> Int], NEW S \in SUBSET D, IsFiniteSet(S)
    PROVE  /\ SumOver(f, {}) = 0
           /\ SumOver(f, S) \in Int
           /\ \A y \in S : SumOver(f, S) = f[y] + SumOver(f, S \ {y})
<1> DEFINE H(T) == CHOOSE h : IsSum(f, T, h)
<1>1. \A T \in SUBSET S : IsFiniteSet(T) /\ IsSum(f, T, H(T))
    BY SumExists, FS_Subset
<1>2. IsSum(f, {}, H({})) /\ IsSum(f, S, H(S))
    BY <1>1
<1> HIDE DEF H
<1>3. H({})[{}] = 0 /\ H(S)[S] \in Int
    BY <1>1, <1>2, SumStep
<1>4. ASSUME NEW y \in S PROVE H(S)[S] = f[y] + H(S \ {y})[S \ {y}]
  <2>1. H(S)[S] = f[y] + H(S)[S \ {y}]
    BY <1>2, SumStep
  <2>2. H(S)[S \ {y}] = H(S \ {y})[S \ {y}]
    <3> DEFINE T == S \ {y}
    <3>1. T \in SUBSET D /\ IsFiniteSet(T) /\ IsSum(f, T, H(T)) /\ T \subseteq S
        BY <1>1
    <3> HIDE DEF T
    <3>2. H(S)[T] = H(T)[T]
        BY <3>1, <1>2, SumUnique
    <3>3. QED
        BY <3>2 DEF T
  <2>3. QED
    BY <2>1, <2>2
<1>5. QED
    BY <1>3, <1>4 DEF SumOver, H

\* The sum over two disjoint sets.
LEMMA SumOfUnion ==
    ASSUME NEW D, NEW f \in [D -> Int], NEW S \in SUBSET D, IsFiniteSet(S),
           NEW T \in SUBSET D, IsFiniteSet(T), S \cap T = {}
    PROVE  SumOver(f, S \cup T) = SumOver(f, S) + SumOver(f, T)
<1> DEFINE Bad == {s \in SUBSET S : SumOver(f, s \cup T) # SumOver(f, s) + SumOver(f, T)}
<1>1. SUFFICES ASSUME Bad # {} PROVE FALSE
    OBVIOUS
<1>2. \A s \in SUBSET S : IsFiniteSet(s) /\ IsFiniteSet(s \cup T)
    BY FS_Subset, FS_Union
<1>3. PICK s \in Bad : \A x \in s : s \ {x} \notin Bad
    BY <1>1, <1>2, SmallestSet
<1>4. SumOver(f, {}) = 0 /\ SumOver(f, T) \in Int
    BY SumFacts
<1>5. s # {}
  <2>1. ASSUME s = {} PROVE FALSE
    <3>1. s \cup T = T
        BY <2>1
    <3>2. QED
        BY <1>3, <1>4, <2>1, <3>1
  <2>2. QED
    BY <2>1
<1>6. PICK x \in s : TRUE
    BY <1>5
<1>7. (s \cup T) \ {x} = (s \ {x}) \cup T
    OBVIOUS
<1>8. SumOver(f, (s \ {x}) \cup T) = SumOver(f, s \ {x}) + SumOver(f, T)
    BY <1>3
<1>9. /\ s \in SUBSET D /\ s \cup T \in SUBSET D /\ s \ {x} \in SUBSET D
      /\ IsFiniteSet(s) /\ IsFiniteSet(s \cup T) /\ IsFiniteSet(s \ {x})
    BY <1>2
<1>10. SumOver(f, s) = f[x] + SumOver(f, s \ {x}) /\ SumOver(f, s \ {x}) \in Int
    BY <1>9, SumFacts
<1>11. SumOver(f, s \cup T) = f[x] + SumOver(f, (s \cup T) \ {x})
    BY <1>9, SumFacts
<1>12. f[x] \in Int
    OBVIOUS
<1>13. QED
    BY <1>3, <1>4, <1>7, <1>8, <1>10, <1>11, <1>12

\* A sum of natural numbers is one.
LEMMA SumIsNat ==
    ASSUME NEW D, NEW f \in [D -> Int], NEW S \in SUBSET D, IsFiniteSet(S),
           \A x \in S : f[x] \in Nat
    PROVE  SumOver(f, S) \in Nat
<1> DEFINE Bad == {s \in SUBSET S : SumOver(f, s) \notin Nat}
<1>1. SUFFICES ASSUME Bad # {} PROVE FALSE
    OBVIOUS
<1>2. \A s \in SUBSET S : IsFiniteSet(s)
    BY FS_Subset
<1>3. PICK s \in Bad : \A x \in s : s \ {x} \notin Bad
    BY <1>1, <1>2, SmallestSet
<1>4. SumOver(f, {}) = 0
    BY SumFacts
<1>5. PICK x \in s : TRUE
    BY <1>3, <1>4
<1>6. SumOver(f, s) = f[x] + SumOver(f, s \ {x})
    BY <1>2, SumFacts
<1>7. SumOver(f, s \ {x}) \in Nat /\ f[x] \in Nat
    BY <1>3
<1>8. QED
    BY <1>3, <1>6, <1>7

----------------------------------------------------------------------------
(* Values and fees *)

\* What Value and Fees add up.
Worth == [o \in Outpoint |-> o.value]
Charge == [t \in Txs |-> Fee(t)]

\* Value is a sum.
LEMMA ValueIsSum ==
    ASSUME NEW S \in SUBSET Outpoint, IsFiniteSet(S)
    PROVE  Value(S) = SumOver(Worth, S) /\ Value(S) \in Nat
<1> DEFINE IsValue(h) ==
             h = [s \in SUBSET S |->
                     IF s = {} THEN 0
                     ELSE LET x == CHOOSE x \in s : TRUE IN x.value + h[s \ {x}]]
           v == CHOOSE h : IsValue(h)
           w == CHOOSE h : IsSum(Worth, S, h)
<1>1. Worth \in [Outpoint -> Int] /\ \A o \in Outpoint : Worth[o] \in Nat
    BY DEF Worth, Outpoint
<1>2. \A s \in SUBSET S : s # {} => LET x == CHOOSE x \in s : TRUE IN Worth[x] = x.value
    BY DEF Worth
<1>3. ASSUME NEW h PROVE IsValue(h) <=> IsSum(Worth, S, h)
    BY <1>2 DEF IsSum
<1>4. Value(S) = v[S]
    BY DEF Value, MapThenSumSet, MapThenFoldSet
<1>5. \E h : IsSum(Worth, S, h)
    BY SumExists
<1> HIDE DEF IsValue
<1>6. IsSum(Worth, S, v)
    BY <1>3, <1>5
<1>7. IsSum(Worth, S, w)
    BY <1>5
<1> HIDE DEF v, w
<1>8. v[S] = w[S]
    BY <1>1, <1>6, <1>7, SumUnique
<1>9. Value(S) = SumOver(Worth, S)
    BY <1>4, <1>8 DEF SumOver, w
<1>10. SumOver(Worth, S) \in Nat
    BY <1>1, SumIsNat
<1>11. QED
    BY <1>9, <1>10

\* One output is worth its value.
LEMMA ValueOfOne ==
    ASSUME NEW o \in Outpoint
    PROVE  Value({o}) = o.value
<1>1. {o} \in SUBSET Outpoint /\ IsFiniteSet({o}) /\ {o} \ {o} = {} /\ o \in {o}
    BY FS_Singleton
<1>2. Worth \in [Outpoint -> Int] /\ Worth[o] = o.value /\ o.value \in Nat
    BY DEF Worth, Outpoint
<1>3. SumOver(Worth, {o}) = Worth[o] + SumOver(Worth, {o} \ {o}) /\ SumOver(Worth, {}) = 0
    BY <1>1, <1>2, SumFacts
<1>4. QED
    BY <1>1, <1>2, <1>3, ValueIsSum

\* Outputs in two sets are not counted twice, and fewer are worth less.
LEMMA ValueOfUnion ==
    ASSUME NEW S \in SUBSET Outpoint, IsFiniteSet(S), NEW T \in SUBSET Outpoint, IsFiniteSet(T)
    PROVE  /\ Value(S \cup T) <= Value(S) + Value(T)
           /\ S \cap T = {} => Value(S \cup T) = Value(S) + Value(T)
           /\ T \subseteq S => Value(T) <= Value(S) /\ Value(S \ T) = Value(S) - Value(T)
<1>1. Worth \in [Outpoint -> Int]
    BY DEF Worth, Outpoint
<1>2. ASSUME NEW A \in SUBSET Outpoint, IsFiniteSet(A), NEW B \in SUBSET Outpoint, IsFiniteSet(B),
             A \cap B = {}
      PROVE  Value(A \cup B) = Value(A) + Value(B)
  <2>1. SumOver(Worth, A \cup B) = SumOver(Worth, A) + SumOver(Worth, B)
    BY <1>1, <1>2, SumOfUnion
  <2>2. IsFiniteSet(A \cup B) /\ A \cup B \in SUBSET Outpoint
    BY <1>2, FS_Union
  <2>3. QED
    BY <1>2, <2>1, <2>2, ValueIsSum
<1>3. /\ IsFiniteSet(T \ S) /\ IsFiniteSet(T \cap S) /\ IsFiniteSet(S \ T)
      /\ Value(S) \in Nat /\ Value(T) \in Nat
    BY FS_Difference, FS_Intersection, ValueIsSum
<1>4. /\ Value(T \ S) \in Nat /\ Value(T \cap S) \in Nat /\ Value(S \ T) \in Nat
    BY <1>3, ValueIsSum
<1>5. Value((T \ S) \cup (T \cap S)) = Value(T \ S) + Value(T \cap S)
  <2>1. (T \ S) \cap (T \cap S) = {}
    OBVIOUS
  <2>2. QED
    BY <1>2, <1>3, <2>1
<1>6. (T \ S) \cup (T \cap S) = T /\ S \cup (T \ S) = S \cup T
    OBVIOUS
<1>7. Value(S \cup (T \ S)) = Value(S) + Value(T \ S)
  <2>1. S \cap (T \ S) = {}
    OBVIOUS
  <2>2. QED
    BY <1>2, <1>3, <2>1
<1>8. Value(S \cup T) <= Value(S) + Value(T)
  <2>1. Value(S \cup T) = Value(S) + Value(T \ S) /\ Value(T) = Value(T \ S) + Value(T \cap S)
    BY <1>5, <1>6, <1>7
  <2>2. QED
    BY <1>3, <1>4, <2>1
<1>9. ASSUME T \subseteq S
      PROVE  Value(T) <= Value(S) /\ Value(S \ T) = Value(S) - Value(T)
  <2>1. (S \ T) \cup T = S /\ (S \ T) \cap T = {}
    BY <1>9
  <2>2. Value(S) = Value(S \ T) + Value(T)
    BY <1>2, <1>3, <2>1
  <2>3. QED
    BY <1>3, <1>4, <2>2
<1>10. QED
    BY <1>2, <1>8, <1>9

\* The fee of a transaction is a number, of a payable one not negative.
LEMMA FeeType ==
    ASSUME NEW t \in Txs
    PROVE  /\ Fee(t) \in Int /\ Value(Inputs[t]) \in Nat /\ Value(Outputs[t]) \in Nat
           /\ Payable(t) => Fee(t) \in Nat
<1>1. /\ Inputs[t] \in SUBSET Outpoint /\ IsFiniteSet(Inputs[t])
      /\ Outputs[t] \in SUBSET Outpoint /\ IsFiniteSet(Outputs[t])
    BY LedgerAssumption
<1>2. Value(Inputs[t]) \in Nat /\ Value(Outputs[t]) \in Nat
    BY <1>1, ValueIsSum
<1>3. QED
    BY <1>2 DEF Fee, Payable, IsCoinbase

\* Fees is a sum.
LEMMA FeesAreSum ==
    ASSUME NEW T \in SUBSET Txs, IsFiniteSet(T)
    PROVE  Fees(T) = SumOver(Charge, T)
<1> DEFINE IsFees(h) ==
             h = [s \in SUBSET T |->
                     IF s = {} THEN 0
                     ELSE LET x == CHOOSE x \in s : TRUE IN Fee(x) + h[s \ {x}]]
           v == CHOOSE h : IsFees(h)
           w == CHOOSE h : IsSum(Charge, T, h)
<1>1. Charge \in [Txs -> Int]
    BY FeeType DEF Charge
<1>2. \A s \in SUBSET T : s # {} => LET x == CHOOSE x \in s : TRUE IN Charge[x] = Fee(x)
    BY DEF Charge
<1>3. ASSUME NEW h PROVE IsFees(h) <=> IsSum(Charge, T, h)
    BY <1>2 DEF IsSum
<1>4. Fees(T) = v[T]
    BY DEF Fees, MapThenSumSet, MapThenFoldSet
<1>5. \E h : IsSum(Charge, T, h)
    BY SumExists
<1> HIDE DEF IsFees
<1>6. IsSum(Charge, T, v)
    BY <1>3, <1>5
<1>7. IsSum(Charge, T, w)
    BY <1>5
<1> HIDE DEF v, w
<1>8. v[T] = w[T]
    BY <1>1, <1>6, <1>7, SumUnique
<1>9. QED
    BY <1>4, <1>8 DEF SumOver, w

\* The fees of some transactions, with any of them taken out.
LEMMA FeesFacts ==
    ASSUME NEW T \in SUBSET Txs
    PROVE  /\ IsFiniteSet(T) /\ Fees({}) = 0 /\ Fees(T) \in Int
           /\ \A t \in T : Fees(T) = Fee(t) + Fees(T \ {t})
           /\ (\A t \in T : Payable(t)) => Fees(T) \in Nat
<1>1. \A S \in SUBSET Txs : IsFiniteSet(S)
    BY LedgerAssumption, FS_Subset
<1>2. Charge \in [Txs -> Int]
    BY FeeType DEF Charge
<1>3. \A S \in SUBSET Txs : Fees(S) = SumOver(Charge, S)
    BY <1>1, FeesAreSum
<1>4. Fees({}) = 0 /\ Fees(T) \in Int
    BY <1>1, <1>2, <1>3, SumFacts
<1>5. ASSUME NEW t \in T PROVE Fees(T) = Fee(t) + Fees(T \ {t})
  <2>1. SumOver(Charge, T) = Charge[t] + SumOver(Charge, T \ {t})
    BY <1>1, <1>2, SumFacts
  <2>2. Charge[t] = Fee(t)
    BY DEF Charge
  <2>3. QED
    BY <1>3, <2>1, <2>2
<1>6. ASSUME \A t \in T : Payable(t) PROVE Fees(T) \in Nat
  <2>1. \A t \in T : Charge[t] \in Nat
    BY <1>6, FeeType DEF Charge
  <2>2. QED
    BY <1>1, <1>2, <1>3, <2>1, SumIsNat
<1>7. QED
    BY <1>1, <1>4, <1>5, <1>6

\* What the coinbases among some transactions create.
Gifts(T) == UNION {Outputs[t] : t \in {u \in T : IsCoinbase(u)}}

\* Transactions that exclude each other take in what they pay out and their fees,
\* but for what coinbases create.
LEMMA FeesAreCovered ==
    ASSUME NEW T \in SUBSET Txs, \A t, u \in T : t # u => Compatible(t, u)
    PROVE  LET spent == UNION {Inputs[t] : t \in T}
               made == UNION {Outputs[t] : t \in T}
           IN /\ spent \in SUBSET Outpoint /\ IsFiniteSet(spent)
              /\ made \in SUBSET Outpoint /\ IsFiniteSet(made)
              /\ Gifts(T) \in SUBSET Outpoint /\ IsFiniteSet(Gifts(T))
              /\ Value(made) + Fees(T) <= Value(spent) + Value(Gifts(T))
<1> DEFINE In(S) == UNION {Inputs[t] : t \in S}
           Out(S) == UNION {Outputs[t] : t \in S}
           Good(S) == /\ In(S) \in SUBSET Outpoint /\ IsFiniteSet(In(S))
                      /\ Out(S) \in SUBSET Outpoint /\ IsFiniteSet(Out(S))
                      /\ Gifts(S) \in SUBSET Outpoint /\ IsFiniteSet(Gifts(S))
                      /\ Value(Out(S)) + Fees(S) <= Value(In(S)) + Value(Gifts(S))
           Bad == {S \in SUBSET T : ~Good(S)}
<1>1. SUFFICES Bad = {}
    OBVIOUS
<1>2. SUFFICES ASSUME Bad # {} PROVE FALSE
    OBVIOUS
<1>3. \A S \in SUBSET T : IsFiniteSet(S)
    BY FeesFacts, FS_Subset
<1>4. PICK S \in Bad : \A t \in S : S \ {t} \notin Bad
  <2>1. Bad \in SUBSET SUBSET T
    OBVIOUS
  <2> HIDE DEF Bad
  <2>2. QED
    BY <1>2, <1>3, <2>1, SmallestSet
<1>5. ASSUME S = {} PROVE FALSE
  <2>1. In({}) = {} /\ Out({}) = {} /\ Gifts({}) = {}
    BY DEF Gifts
  <2>2. Value({}) \in Nat /\ IsFiniteSet({})
    BY FS_EmptySet, ValueIsSum
  <2>3. Fees({}) = 0
    BY FeesFacts
  <2>4. Good({})
    <3>1. Value({}) + Fees({}) <= Value({}) + Value({})
        BY <2>2, <2>3
    <3> HIDE DEF In, Out
    <3>2. QED
        BY <2>1, <2>2, <3>1
  <2>5. QED
    BY <1>4, <1>5, <2>4
<1>6. PICK t \in S : TRUE
    BY <1>5
<1> DEFINE R == S \ {t}
           gift == IF IsCoinbase(t) THEN Outputs[t] ELSE {}
<1>7. t \in Txs /\ R \in SUBSET T /\ S \in SUBSET T /\ S \in SUBSET Txs /\ R \in SUBSET Txs
    OBVIOUS
<1>8. Good(R)
    BY <1>4, <1>7
<1>9. In(S) = In(R) \cup Inputs[t] /\ Out(S) = Out(R) \cup Outputs[t]
    BY <1>6
<1>10. In(R) \cap Inputs[t] = {}
    BY <1>6 DEF Compatible
<1>11. Fees(S) = Fee(t) + Fees(R) /\ Fees(R) \in Int
    BY <1>6, <1>7, FeesFacts
<1>12. ~Good(S)
    BY <1>4
<1>13. Gifts(S) = Gifts(R) \cup gift
    BY <1>6 DEF Gifts
<1>14. Gifts(R) \cap gift = {}
    BY <1>7, OutputsAreOwn DEF Gifts
<1>15. gift \in SUBSET Outpoint /\ IsFiniteSet(gift)
    BY <1>7, LedgerAssumption, FS_EmptySet
<1>16. Value(Outputs[t]) + Fee(t) <= Value(Inputs[t]) + Value(gift)
  <2>1. Value({}) \in Nat /\ Value(Inputs[t]) \in Nat /\ Value(Outputs[t]) \in Nat
    BY <1>7, FeeType, FS_EmptySet, ValueIsSum
  <2>2. CASE IsCoinbase(t)
    <3>1. Fee(t) = 0 /\ gift = Outputs[t]
        BY <2>2 DEF Fee
    <3>2. QED
        BY <2>1, <3>1
  <2>3. CASE ~IsCoinbase(t)
    <3>1. Fee(t) = Value(Inputs[t]) - Value(Outputs[t]) /\ gift = {}
        BY <2>3 DEF Fee
    <3>2. QED
        BY <2>1, <3>1
  <2>4. QED
    BY <2>2, <2>3
<1> HIDE DEF In, Out, R, gift
<1>17. /\ Inputs[t] \in SUBSET Outpoint /\ IsFiniteSet(Inputs[t])
       /\ Outputs[t] \in SUBSET Outpoint /\ IsFiniteSet(Outputs[t])
    BY <1>7, LedgerAssumption
<1>18. /\ IsFiniteSet(In(S)) /\ IsFiniteSet(Out(S)) /\ IsFiniteSet(Gifts(S))
       /\ In(S) \in SUBSET Outpoint /\ Out(S) \in SUBSET Outpoint
       /\ Gifts(S) \in SUBSET Outpoint
  <2>1. IsFiniteSet(In(S)) /\ In(S) \in SUBSET Outpoint
    BY <1>8, <1>9, <1>17, FS_Union
  <2>2. IsFiniteSet(Out(S)) /\ Out(S) \in SUBSET Outpoint
    BY <1>8, <1>9, <1>17, FS_Union
  <2>3. IsFiniteSet(Gifts(S)) /\ Gifts(S) \in SUBSET Outpoint
    <3>1. IsFiniteSet(Gifts(R)) /\ Gifts(R) \in SUBSET Outpoint
        BY <1>8
    <3> HIDE DEF Good, Bad
    <3>2. IsFiniteSet(Gifts(R) \cup gift)
        BY <1>15, <3>1, FS_Union
    <3>3. QED
        BY <1>13, <1>15, <3>1, <3>2
  <2>4. QED
    BY <2>1, <2>2, <2>3
<1>19. Value(In(S)) = Value(In(R)) + Value(Inputs[t])
    BY <1>8, <1>9, <1>10, <1>17, ValueOfUnion
<1>20. Value(Out(S)) <= Value(Out(R)) + Value(Outputs[t])
    BY <1>8, <1>9, <1>17, ValueOfUnion
<1>21. Value(Gifts(S)) = Value(Gifts(R)) + Value(gift)
    BY <1>8, <1>13, <1>14, <1>15, ValueOfUnion
<1>22. /\ Value(In(R)) \in Nat /\ Value(Out(R)) \in Nat /\ Value(Gifts(R)) \in Nat
       /\ Value(In(S)) \in Nat /\ Value(Out(S)) \in Nat /\ Value(Gifts(S)) \in Nat
       /\ Value(Inputs[t]) \in Nat /\ Value(Outputs[t]) \in Nat /\ Value(gift) \in Nat
    BY <1>8, <1>15, <1>17, <1>18, ValueIsSum
<1>23. Fee(t) \in Int
    BY <1>7, FeeType
<1>24. Value(Out(S)) + Fees(S) <= Value(In(S)) + Value(Gifts(S))
  <2>1. Value(Out(R)) + Fees(R) <= Value(In(R)) + Value(Gifts(R))
    BY <1>8
  <2>2. QED
    BY <1>11, <1>16, <1>19, <1>20, <1>21, <1>22, <1>23, <2>1
<1>25. QED
    BY <1>12, <1>18, <1>24

----------------------------------------------------------------------------
(* What the chain is worth *)

\* What a coinbase claims.
FairReward(b) ==
    b.reward \in Outpoint /\ b.reward.value <= BlockReward + Fees(b.txs)

\* Unfunded of every block of the chain c, and its sum over the first n of them.
Creation(c) == [i \in Nat |-> IF i \in DOMAIN c THEN Unfunded(c[i]) ELSE 0]
UnfundedBelow(c, n) == SumOver(Creation(c), 1 .. n)

BlocksFit(c) == \A i \in DOMAIN c : BlockAt(c[i], BaseHeight + i)

\* What the first n blocks of the chain c may leave.
Bounded(c, n, left) ==
    /\ left \subseteq Outpoint /\ IsFiniteSet(left)
    /\ Value(left) <= Value(BaseUtxo) + BlockReward * n + UnfundedBelow(c, n)

MoneyBounded == ~torn => \A n \in 0 .. Len(chain) : Bounded(chain, n, Left(n))

JobFair ==
    job # NoJob =>
        job.block.reward \in Outpoint
        /\ job.block.reward.value = BlockReward + Fees(job.block.txs)

BoundInv == MoneyBounded /\ JobFair

\* The arithmetic of one more reward.
LEMMA Products ==
    ASSUME NEW a \in Nat, NEW k \in Nat
    PROVE  a * (k + 1) = a * k + a /\ a * k \in Nat
OBVIOUS

\* What a block of transactions that are known creates out of nothing.
LEMMA UnfundedIsNat ==
    ASSUME NEW b, NEW h, BlockAt(b, h)
    PROVE  /\ Unfunded(b) \in Nat /\ Unfunded(b) = Value(Gifts(b.txs))
           /\ Gifts(b.txs) \in SUBSET Outpoint /\ IsFiniteSet(Gifts(b.txs))
<1>1. b.txs \in SUBSET Txs
    BY DEF BlockAt
<1>2. b.txs \ Ordinary(b) = {u \in b.txs : IsCoinbase(u)}
    BY DEF Ordinary
<1>3. Unfunded(b) = Value(Gifts(b.txs))
    BY <1>2 DEF Unfunded, Gifts
<1>4. /\ Gifts(b.txs) \in SUBSET Outpoint
      /\ \A t \in Txs : IsFiniteSet(Outputs[t])
    BY <1>1, LedgerAssumption DEF Gifts
<1>5. IsFiniteSet(Gifts(b.txs))
  <2> DEFINE given == {u \in b.txs : IsCoinbase(u)}
             Sets == {Outputs[t] : t \in given}
             f == [t \in given |-> Outputs[t]]
  <2>1. IsFiniteSet(given)
    BY <1>1, FeesFacts, FS_Subset
  <2>2. IsFiniteSet(Sets)
    <3>1. f \in Surjection(given, Sets)
        BY DEF Surjection
    <3> HIDE DEF given, Sets, f
    <3>2. QED
        BY <2>1, <3>1, FS_Surjection
  <2>3. \A X \in Sets : IsFiniteSet(X)
    BY <1>1, <1>4
  <2>4. UNION Sets = Gifts(b.txs)
    BY DEF Gifts
  <2> HIDE DEF Sets
  <2>5. QED
    BY <2>2, <2>3, <2>4, FS_UNION
<1>6. QED
    BY <1>3, <1>4, <1>5, ValueIsSum

\* Sums of functions that agree are the same.
LEMMA SumOfEqual ==
    ASSUME NEW D, NEW f \in [D -> Int], NEW g \in [D -> Int], NEW S \in SUBSET D,
           IsFiniteSet(S), \A x \in S : f[x] = g[x]
    PROVE  SumOver(f, S) = SumOver(g, S)
<1> DEFINE Bad == {s \in SUBSET S : SumOver(f, s) # SumOver(g, s)}
<1>1. SUFFICES ASSUME Bad # {} PROVE FALSE
    OBVIOUS
<1>2. \A s \in SUBSET S : IsFiniteSet(s)
    BY FS_Subset
<1>3. PICK s \in Bad : \A x \in s : s \ {x} \notin Bad
    BY <1>1, <1>2, SmallestSet
<1>4. SumOver(f, {}) = 0 /\ SumOver(g, {}) = 0
    BY SumFacts
<1>5. PICK x \in s : TRUE
    BY <1>3, <1>4
<1>6. s \in SUBSET D /\ IsFiniteSet(s)
    BY <1>2
<1>7. SumOver(f, s) = f[x] + SumOver(f, s \ {x}) /\ SumOver(g, s) = g[x] + SumOver(g, s \ {x})
    BY <1>5, <1>6, SumFacts
<1>8. SumOver(f, s \ {x}) = SumOver(g, s \ {x}) /\ f[x] = g[x]
    BY <1>3, <1>5
<1>9. QED
    BY <1>3, <1>7, <1>8

LEMMA CreationType ==
    ASSUME NEW c, BlocksFit(c)
    PROVE  Creation(c) \in [Nat -> Int] /\ \A i \in Nat : Creation(c)[i] \in Nat
<1>1. ASSUME NEW i \in DOMAIN c PROVE Unfunded(c[i]) \in Nat
  <2>1. BlockAt(c[i], BaseHeight + i)
    BY DEF BlocksFit
  <2>2. QED
    BY <2>1, UnfundedIsNat
<1>2. \A i \in Nat : Creation(c)[i] \in Nat
    BY <1>1 DEF Creation
<1>3. QED
    BY <1>2 DEF Creation

LEMMA UnfundedIsInt ==
    ASSUME NEW c, BlocksFit(c), NEW k \in Nat
    PROVE  UnfundedBelow(c, k) \in Nat
<1>1. 1 .. k \in SUBSET Nat /\ IsFiniteSet(1 .. k)
    BY FS_Interval
<1>2. Creation(c) \in [Nat -> Int] /\ \A i \in Nat : Creation(c)[i] \in Nat
    BY CreationType
<1>3. SumOver(Creation(c), 1 .. k) \in Nat
    BY <1>1, <1>2, SumIsNat
<1>4. QED
    BY <1>3 DEF UnfundedBelow

LEMMA UnfundedOfNone ==
    ASSUME NEW c, BlocksFit(c)
    PROVE  UnfundedBelow(c, 0) = 0
<1>1. 1 .. 0 = {} /\ {} \in SUBSET Nat /\ IsFiniteSet({})
    BY FS_EmptySet
<1>2. QED
    BY <1>1, CreationType, SumFacts DEF UnfundedBelow

\* The sum over a prefix depends on that prefix only.
LEMMA UnfundedKept ==
    ASSUME NEW c, BlocksFit(c), NEW d, BlocksFit(d), NEW k \in Nat, 1 .. k \subseteq DOMAIN c,
           1 .. k \subseteq DOMAIN d, \A i \in 1 .. k : d[i] = c[i]
    PROVE  UnfundedBelow(d, k) = UnfundedBelow(c, k)
<1> DEFINE f == Creation(c)
           g == Creation(d)
           S == 1 .. k
<1>1. f \in [Nat -> Int] /\ g \in [Nat -> Int]
    BY CreationType
<1>2. \A i \in S : f[i] = g[i]
    BY DEF Creation
<1>3. S \in SUBSET Nat /\ IsFiniteSet(S)
    BY FS_Interval
<1> HIDE DEF f, g, S
<1>4. SumOver(f, S) = SumOver(g, S)
    BY <1>1, <1>2, <1>3, SumOfEqual
<1>5. QED
    BY <1>4 DEF UnfundedBelow, f, g, S

\* One more block.
LEMMA UnfundedStep ==
    ASSUME NEW c, BlocksFit(c), NEW k \in Nat, NEW h, h = k + 1, h \in DOMAIN c
    PROVE  UnfundedBelow(c, h) = UnfundedBelow(c, k) + Unfunded(c[h])
<1> DEFINE f == Creation(c)
           S == 1 .. h
           R == 1 .. k
<1>1. f \in [Nat -> Int] /\ (\A i \in Nat : f[i] \in Nat) /\ f[h] = Unfunded(c[h])
    BY CreationType DEF Creation
<1>2. h \in S /\ S \ {h} = R /\ h \in Nat
    OBVIOUS
<1>3. S \in SUBSET Nat /\ IsFiniteSet(S) /\ R \in SUBSET Nat /\ IsFiniteSet(R)
    BY <1>2, FS_Interval
<1> HIDE DEF f, S, R
<1>4. \A y \in S : SumOver(f, S) = f[y] + SumOver(f, S \ {y})
  <2> DEFINE D == Nat
  <2>1. f \in [D -> Int] /\ S \in SUBSET D /\ IsFiniteSet(S)
    BY <1>1, <1>3
  <2> HIDE DEF D
  <2>2. QED
    BY <2>1, SumFacts
<1>5. SumOver(f, R) \in Nat
    BY <1>1, <1>3, SumIsNat
<1>6. SumOver(f, S) = f[h] + SumOver(f, R)
    BY <1>2, <1>4
<1>7. f[h] \in Nat
    BY <1>1, <1>2
<1>8. SumOver(f, S) = SumOver(f, R) + f[h]
    BY <1>5, <1>6, <1>7
<1>9. QED
    BY <1>1, <1>8 DEF UnfundedBelow, f, S, R

\* AllUnfunded is the sum over the whole chain.
LEMMA AllUnfundedIsSum ==
    ASSUME LedgerTypeOK
    PROVE  AllUnfunded = UnfundedBelow(chain, Len(chain)) /\ AllUnfunded \in Nat
<1> DEFINE S == DOMAIN chain
           f == Creation(chain)
           IsIt(h) ==
             h = [s \in SUBSET S |->
                     IF s = {} THEN 0
                     ELSE LET x == CHOOSE x \in s : TRUE IN Unfunded(chain[x]) + h[s \ {x}]]
           v == CHOOSE h : IsIt(h)
           w == CHOOSE h : IsSum(f, S, h)
<1>1. S = 1 .. Len(chain) /\ Len(chain) \in Nat
    BY AppendedChain
<1>2. S \in SUBSET Nat /\ IsFiniteSet(S)
    BY <1>1, FS_Interval
<1>3. f \in [Nat -> Int] /\ \A i \in Nat : f[i] \in Nat
    BY CreationType DEF LedgerTypeOK, BlocksFit
<1>4. \A s \in SUBSET S : s # {} =>
          LET x == CHOOSE x \in s : TRUE IN f[x] = Unfunded(chain[x])
    BY <1>2 DEF Creation
<1> HIDE DEF f
<1>5. ASSUME NEW h PROVE IsIt(h) <=> IsSum(f, S, h)
    BY <1>4 DEF IsSum
<1>6. AllUnfunded = v[S]
    BY DEF AllUnfunded, MapThenSumSet, MapThenFoldSet
<1> HIDE DEF S
<1>7. \E h : IsSum(f, S, h)
    BY <1>2, <1>3, SumExists
<1> HIDE DEF IsIt
<1>8. IsSum(f, S, v)
    BY <1>5, <1>7
<1>9. IsSum(f, S, w)
    BY <1>7
<1> HIDE DEF v, w
<1>10. v[S] = w[S]
  <2> DEFINE D == Nat
  <2>1. f \in [D -> Int] /\ S \in SUBSET D /\ IsFiniteSet(S) /\ S \subseteq S
    BY <1>2, <1>3
  <2> HIDE DEF D
  <2>2. QED
    BY <1>8, <1>9, <2>1, SumUnique
<1>11. SumOver(f, S) \in Nat
    BY <1>2, <1>3, SumIsNat
<1>12. AllUnfunded = SumOver(f, S)
    BY <1>6, <1>10 DEF SumOver, w
<1>13. QED
    BY <1>1, <1>11, <1>12 DEF UnfundedBelow, f

\* A valid block adds at most its reward and what its other coinbases create: what
\* its transactions take in covers what they pay out and the fees that its first
\* coinbase claims.
LEMMA AppendKeepsBound ==
    ASSUME LedgerTypeOK, LedgerTypeOK', MoneyBounded, NEW b, BlockAt(b, Height + 1),
           \A t \in b.txs : Payable(t), NoDoubleSpend(b), FairReward(b),
           chain' = Append(chain, b), utxo' = UpdateUtxoSet(b), torn' = torn
    PROVE  MoneyBounded'
<1> DEFINE n == Len(chain)
           spent == Consumes(b)
           made == UNION {Outputs[t] : t \in b.txs}
           gifts == Gifts(b.txs)
<1>1. SUFFICES ASSUME ~torn, NEW k \in 0 .. Len(chain')
               PROVE  Bounded(chain', k, Left(k)')
    BY DEF MoneyBounded
<1>2. /\ n \in Nat /\ DOMAIN chain = 1 .. n /\ DOMAIN chain' = 1 .. n + 1
      /\ Len(chain') = n + 1
      /\ \A i \in 1 .. n : chain'[i] = chain[i]
      /\ chain'[n + 1] = b
      /\ Consumes(b) \subseteq utxo
      /\ b.again \subseteq Creates(b) \cap Consumes(b)
      /\ utxo' = ((utxo \cup Creates(b)) \ Consumes(b)) \cup b.again
    BY AppendKeepsPrefixes
<1>3. (\A i \in 0 .. n : Left(i)' \subseteq Left(i)) /\ \A i \in {n + 1} : Left(i)' = utxo'
    BY AppendKeepsPrefixes
<1>0. BlocksFit(chain) /\ BlocksFit(chain')
    BY DEF LedgerTypeOK, BlocksFit, BlockAt, Respent
<1>4. CASE k \in 0 .. n
  <2>1. k \in Nat /\ 1 .. k \subseteq DOMAIN chain /\ 1 .. k \subseteq DOMAIN chain'
    BY <1>2, <1>4
  <2>2. \A i \in 1 .. k : chain'[i] = chain[i]
    BY <1>2, <2>1
  <2>3. UnfundedBelow(chain', k) = UnfundedBelow(chain, k)
    BY <1>0, <2>1, <2>2, UnfundedKept
  <2>4. Bounded(chain, k, Left(k))
    BY <1>1, <1>4 DEF MoneyBounded
  <2>5. Left(k)' \subseteq Left(k)
    BY <1>3, <1>4
  <2> DEFINE A == Left(k)
             A1 == Left(k)'
             bound == Value(BaseUtxo) + BlockReward * k + UnfundedBelow(chain, k)
  <2>6. A \in SUBSET Outpoint /\ IsFiniteSet(A) /\ Value(A) <= bound
    BY <2>4 DEF Bounded
  <2>7. bound \in Int
    <3>1. UnfundedBelow(chain, k) \in Int
        BY <1>0, <2>1, UnfundedIsInt
    <3>2. Value(BaseUtxo) \in Nat /\ BlockReward * k \in Nat
        BY <2>1, LedgerAssumption, ValueIsSum, Products
    <3>3. QED
        BY <3>1, <3>2
  <2> HIDE DEF A, A1, bound
  <2>8. A1 \subseteq A
    BY <2>5 DEF A, A1
  <2>9. A1 \in SUBSET Outpoint /\ IsFiniteSet(A1) /\ Value(A1) <= Value(A)
    BY <2>6, <2>8, FS_Subset, ValueOfUnion
  <2>10. Value(A) \in Nat /\ Value(A1) \in Nat
    BY <2>6, <2>9, ValueIsSum
  <2>11. Value(A1) <= bound
    BY <2>6, <2>7, <2>9, <2>10
  <2>12. Value(A1) <= Value(BaseUtxo) + BlockReward * k + UnfundedBelow(chain', k)
    BY <2>3, <2>11 DEF bound
  <2>13. QED
    BY <2>9, <2>12 DEF Bounded, A1
<1>5. CASE k = n + 1
  <2>1. Bounded(chain, n, Left(n)) /\ Left(n) = utxo
    BY <1>1, <1>2, LeftAtTip DEF MoneyBounded
  <2>2. /\ utxo \in SUBSET Outpoint /\ IsFiniteSet(utxo)
        /\ Value(utxo) <= Value(BaseUtxo) + BlockReward * n + UnfundedBelow(chain, n)
    BY <2>1 DEF Bounded
  <2>3. b.txs \in SUBSET Txs /\ \A t, u \in b.txs : t # u => Compatible(t, u)
    BY DEF BlockAt, NoDoubleSpend
  <2>4. /\ spent \in SUBSET Outpoint /\ IsFiniteSet(spent)
        /\ made \in SUBSET Outpoint /\ IsFiniteSet(made)
        /\ gifts \in SUBSET Outpoint /\ IsFiniteSet(gifts)
        /\ Value(made) + Fees(b.txs) <= Value(spent) + Value(gifts)
    BY <2>3, FeesAreCovered DEF Consumes
  <2>5. Creates(b) = {b.reward} \cup made /\ spent \subseteq utxo
    BY <1>2 DEF Creates
  <2>6. b.reward \in Outpoint /\ b.reward.value <= BlockReward + Fees(b.txs)
    BY DEF FairReward
  <2>7. Unfunded(b) = Value(gifts)
    BY UnfundedIsNat
  <2> DEFINE all == (utxo \ spent) \cup Creates(b)
             left == ((utxo \cup Creates(b)) \ spent) \cup b.again
  <2>8. left \subseteq all
    BY <1>2
  <2>9. utxo' = left
    BY <1>2
  <2> HIDE DEF n, spent, made, gifts, all, left
  <2>10. /\ utxo \ spent \in SUBSET Outpoint /\ IsFiniteSet(utxo \ spent)
         /\ Value(utxo \ spent) = Value(utxo) - Value(spent)
    BY <2>2, <2>4, <2>5, FS_Difference, ValueOfUnion
  <2>11. /\ {b.reward} \in SUBSET Outpoint /\ IsFiniteSet({b.reward})
         /\ Value({b.reward}) = b.reward.value /\ b.reward.value \in Nat
    <3>1. {b.reward} \in SUBSET Outpoint /\ IsFiniteSet({b.reward}) /\ b.reward.value \in Nat
        BY <2>6, FS_Singleton DEF Outpoint
    <3>2. Value({b.reward}) = b.reward.value
        BY <2>6, <3>1, ValueOfOne
    <3>3. QED
        BY <3>1, <3>2
  <2>12. /\ Creates(b) \in SUBSET Outpoint /\ IsFiniteSet(Creates(b))
         /\ Value(Creates(b)) <= Value({b.reward}) + Value(made)
    <3>1. IsFiniteSet({b.reward} \cup made) /\ {b.reward} \cup made \in SUBSET Outpoint
        BY <2>4, <2>11, FS_Union
    <3>2. Value({b.reward} \cup made) <= Value({b.reward}) + Value(made)
        BY <2>4, <2>11, ValueOfUnion
    <3>3. QED
        BY <2>5, <3>1, <3>2
  <2>13. /\ all \in SUBSET Outpoint /\ IsFiniteSet(all)
         /\ Value(all) <= Value(utxo \ spent) + Value(Creates(b))
    BY <2>10, <2>12, FS_Union, ValueOfUnion DEF all
  <2>14. left \in SUBSET Outpoint /\ IsFiniteSet(left) /\ Value(left) <= Value(all)
    BY <2>8, <2>13, FS_Subset, ValueOfUnion
  <2>15. /\ Value(utxo) \in Nat /\ Value(spent) \in Nat /\ Value(made) \in Nat
         /\ Value(Creates(b)) \in Nat /\ Value(all) \in Nat /\ Value(left) \in Nat
         /\ Value(gifts) \in Nat /\ Fees(b.txs) \in Int
    <3>1. Value(utxo) \in Nat /\ Value(spent) \in Nat /\ Value(made) \in Nat
        BY <2>2, <2>4, ValueIsSum
    <3>2. Value(Creates(b)) \in Nat /\ Value(all) \in Nat
        BY <2>12, <2>13, ValueIsSum
    <3>3. Value(left) \in Nat /\ Value(gifts) \in Nat
        BY <2>4, <2>14, ValueIsSum
    <3>4. Fees(b.txs) \in Int
        BY <2>3, FeesFacts
    <3>5. QED
        BY <3>1, <3>2, <3>3, <3>4
  <2>16. Value(left) <= Value(utxo) + BlockReward + Value(gifts)
    <3> DEFINE vL == Value(left)
               vA == Value(all)
               vR == Value(utxo)
               vD == Value(utxo \ spent)
               vS == Value(spent)
               vM == Value(made)
               vC == Value(Creates(b))
               vG == Value(gifts)
               w == b.reward.value
               F == Fees(b.txs)
    <3>1. /\ vL \in Nat /\ vA \in Nat /\ vR \in Nat /\ vS \in Nat /\ vG \in Nat
          /\ vM \in Nat /\ vC \in Nat /\ w \in Nat /\ F \in Int /\ BlockReward \in Nat
        BY <2>11, <2>15, LedgerAssumption
    <3>2. vL <= vA /\ vA <= vD + vC
        BY <2>13, <2>14
    <3>3. vD = vR - vS
        BY <2>10
    <3>4. vC <= w + vM
        BY <2>11, <2>12
    <3>5. vM + F <= vS + vG /\ w <= BlockReward + F
        BY <2>4, <2>6
    <3> HIDE DEF vL, vA, vR, vD, vS, vM, vC, vG, w, F
    <3>6. vL <= vR + BlockReward + vG
        BY <3>1, <3>2, <3>3, <3>4, <3>5
    <3>7. QED
        BY <3>6 DEF vL, vR, vG
  <2>17. /\ UnfundedBelow(chain', n) = UnfundedBelow(chain, n)
         /\ UnfundedBelow(chain', n + 1) = UnfundedBelow(chain', n) + Value(gifts)
         /\ UnfundedBelow(chain, n) \in Int
    <3>1. n \in Nat /\ 1 .. n \subseteq DOMAIN chain /\ 1 .. n \subseteq DOMAIN chain'
        BY <1>2 DEF n
    <3>2. UnfundedBelow(chain', n) = UnfundedBelow(chain, n)
        BY <1>0, <1>2, <3>1, UnfundedKept DEF n
    <3>3. UnfundedBelow(chain', n + 1) = UnfundedBelow(chain', n) + Unfunded(b)
      <4>1. n + 1 \in DOMAIN chain' /\ n \in Nat /\ chain'[n + 1] = b
        BY <1>2 DEF n
      <4>2. UnfundedBelow(chain', n + 1) = UnfundedBelow(chain', n) + Unfunded(chain'[n + 1])
        BY <1>0, <4>1, UnfundedStep
      <4>3. QED
        BY <4>1, <4>2
    <3>4. UnfundedBelow(chain, n) \in Int
        BY <1>0, <3>1, UnfundedIsInt
    <3>5. QED
        BY <2>7, <3>2, <3>3, <3>4
  <2>18. BlockReward * (n + 1) = BlockReward * n + BlockReward /\ BlockReward * n \in Nat
    BY <1>2, LedgerAssumption, Products DEF n
  <2>19. Value(BaseUtxo) \in Nat /\ BlockReward \in Nat
    BY LedgerAssumption, ValueIsSum
  <2>20. Value(left) <= Value(BaseUtxo) + BlockReward * (n + 1) + UnfundedBelow(chain', n + 1)
    <3> DEFINE vL == Value(left)
               vR == Value(utxo)
               vG == Value(gifts)
               vB == Value(BaseUtxo)
               P == BlockReward * n
               U == UnfundedBelow(chain, n)
    <3>1. vL \in Nat /\ vR \in Nat /\ vG \in Nat /\ vB \in Nat /\ P \in Nat /\ U \in Int
        BY <2>15, <2>17, <2>18, <2>19
    <3>2. vL <= vR + BlockReward + vG /\ vR <= vB + P + U
        BY <2>2, <2>16
    <3>3. BlockReward * (n + 1) = P + BlockReward /\ UnfundedBelow(chain', n + 1) = U + vG
        BY <2>17, <2>18
    <3> HIDE DEF vL, vR, vG, vB, P, U
    <3>4. vL <= vB + (P + BlockReward) + (U + vG)
        BY <2>19, <3>1, <3>2
    <3>5. QED
        BY <3>3, <3>4 DEF vL, vB
  <2>21. Left(k)' = left /\ k = n + 1
    <3>1. k \in {n + 1}
        BY <1>5
    <3>2. QED
        BY <1>3, <1>5, <2>9, <3>1
  <2>22. QED
    BY <2>14, <2>20, <2>21 DEF Bounded
<1>6. QED
    BY <1>1, <1>2, <1>4, <1>5

\* What leaves the chain alone keeps the bound of every prefix.
LEMMA SameKeepsBound ==
    ASSUME MoneyBounded, torn' = torn, chain' = chain, utxo' = utxo
    PROVE  MoneyBounded'
<1>1. \A n \in 0 .. Len(chain) : Left(n)' = Left(n)
    BY DEF Left, Creates
<1>2. QED
    BY <1>1 DEF MoneyBounded

\* A rollback keeps the bound of every shorter prefix.
LEMMA RollbackKeepsBound ==
    ASSUME LedgerTypeOK, LedgerTypeOK', MoneyBounded, torn' = torn, chain # <<>>,
           chain' = SubSeq(chain, 1, Len(chain) - 1),
           utxo' = RollbackUtxoSet(chain[Len(chain)])
    PROVE  MoneyBounded'
<1> DEFINE n == Len(chain')
<1>1. /\ n \in Nat /\ DOMAIN chain = 1 .. n + 1 /\ DOMAIN chain' = 1 .. n
      /\ Len(chain) = n + 1
      /\ \A i \in 1 .. n : chain'[i] = chain[i]
      /\ \A k \in 0 .. n : Left(k)' = Left(k)
    BY RollbackKeepsPrefixes
<1>2. SUFFICES ASSUME ~torn, NEW k \in 0 .. n
               PROVE  Bounded(chain', k, Left(k)')
    BY DEF MoneyBounded
<1>0. BlocksFit(chain) /\ BlocksFit(chain')
    BY DEF LedgerTypeOK, BlocksFit, BlockAt, Respent
<1>3. /\ k \in Nat /\ 1 .. k \subseteq DOMAIN chain /\ 1 .. k \subseteq DOMAIN chain'
      /\ k \in 0 .. Len(chain) /\ \A i \in 1 .. k : i \in 1 .. n
    BY <1>1
<1>4. \A i \in 1 .. k : chain'[i] = chain[i]
    BY <1>1, <1>3
<1>5. UnfundedBelow(chain', k) = UnfundedBelow(chain, k)
    BY <1>0, <1>3, <1>4, UnfundedKept
<1>6. Bounded(chain, k, Left(k)) /\ Left(k)' = Left(k)
    BY <1>1, <1>2, <1>3 DEF MoneyBounded
<1>7. QED
    BY <1>5, <1>6 DEF Bounded

\* A foreign block that passes validate_block_coinbase.
LEMMA ForeignBlockFair ==
    ASSUME LedgerTypeOK, NEW b \in ForeignBlocks, CoinbaseValid(b)
    PROVE  FairReward(b)
<1>1. PICK T \in SUBSET Txs, m \in Miners, extra \in {0, 1} :
          (\A t \in T : Payable(t)) /\ b \in BlocksOf(T, m, extra)
    BY DEF ForeignBlocks
<1>2. Fees(T) \in Nat /\ Height + 1 \in Nat /\ BlockReward \in Nat
    BY <1>1, FeesFacts, AppendedChain, LedgerAssumption DEF Height
<1>3. BlockReward + Fees(T) + extra \in Nat
    BY <1>2
<1>4. b.reward = Coinbase(m, Height + 1, BlockReward + Fees(T) + extra)
    BY <1>1 DEF BlocksOf
<1>5. b.reward \in Outpoint
    BY <1>2, <1>3, <1>4 DEF Coinbase, Outpoint
<1>6. QED
    BY <1>5 DEF FairReward, CoinbaseValid

\* The bound to begin with.
LEMMA BoundInit == Init => BoundInv
<1> SUFFICES ASSUME Init PROVE BoundInv
    OBVIOUS
<1>1. Len(chain) = 0 /\ JobFair /\ LedgerTypeOK
    BY InitInv DEF Init, JobFair, Inv
<1>2. Left(0) = BaseUtxo
    BY <1>1, LeftAtTip DEF Init
<1>3. UnfundedBelow(chain, 0) = 0
    BY <1>1, UnfundedOfNone DEF LedgerTypeOK, BlocksFit
<1>4. Bounded(chain, 0, Left(0))
    BY <1>2, <1>3, LedgerAssumption, ValueIsSum DEF Bounded
<1>5. \A n \in 0 .. 0 : n = 0
    OBVIOUS
<1>6. MoneyBounded
    BY <1>1, <1>4, <1>5 DEF MoneyBounded
<1>7. QED
    BY <1>1, <1>6 DEF BoundInv

\* The bound after every step.
LEMMA BoundNext == Inv /\ BoundInv /\ [Next]_vars => BoundInv'
<1> SUFFICES ASSUME Inv, BoundInv, [Next]_vars
             PROVE  BoundInv'
    OBVIOUS
<1>1. LedgerTypeOK /\ JobOK /\ MoneyOK /\ MoneyBounded /\ JobFair
    BY DEF Inv, BoundInv
<1>2. ASSUME job' = job \/ job' = NoJob PROVE JobFair'
    BY <1>1, <1>2 DEF JobFair
<1>3. LedgerTypeOK'
    BY NextInv DEF Inv
<1>4. ASSUME chain' = chain, utxo' = utxo, torn' = torn, JobFair' PROVE BoundInv'
    BY <1>1, <1>4, SameKeepsBound DEF BoundInv
<1>5. ASSUME NEW t \in Txs, AddTransaction(t) PROVE BoundInv'
  <2>1. chain' = chain /\ utxo' = utxo /\ torn' = torn /\ job' = job
    BY <1>5 DEF AddTransaction
  <2>2. QED
    BY <1>2, <1>4, <2>1
<1>6. ASSUME NEW b \in ForeignBlocks, CoinbaseValid(b), NoDoubleSpend(b), torn' = torn,
             chain' = Append(chain, b), utxo' = UpdateUtxoSet(b), JobFair'
      PROVE  BoundInv'
  <2>1. FairReward(b) /\ BlockAt(b, Height + 1) /\ \A t \in b.txs : Payable(t)
    BY <1>1, <1>6, ForeignBlockFair, ForeignBlockAt
  <2>2. QED
    BY <1>1, <1>3, <1>6, <2>1, AppendKeepsBound DEF BoundInv
<1>7. ASSUME NEW b \in ForeignBlocks, AcceptBlock(b) PROVE BoundInv'
  <2>1. /\ CoinbaseValid(b) /\ NoDoubleSpend(b) /\ chain' = Append(chain, b)
        /\ utxo' = UpdateUtxoSet(b) /\ torn' = torn /\ job' = job
    BY <1>7 DEF AcceptBlock, Append1
  <2>2. QED
    BY <1>2, <1>6, <2>1
<1>8. CASE RollbackTip
  <2>1. /\ chain # <<>> /\ chain' = SubSeq(chain, 1, Len(chain) - 1)
        /\ utxo' = RollbackUtxoSet(chain[Len(chain)]) /\ torn' = torn /\ job' = job
    BY <1>8 DEF RollbackTip
  <2>2. QED
    BY <1>1, <1>2, <1>3, <2>1, RollbackKeepsBound DEF BoundInv
<1>9. CASE PrepareMiningJob
  <2>0. PICK T \in BestTxs : \E b \in BlocksOf(T, Me, 0) :
            job' = [block |-> b, prev |-> chain, generation |-> generation]
    BY <1>9 DEF PrepareMiningJob
  <2>1. PICK b \in BlocksOf(T, Me, 0) :
            job' = [block |-> b, prev |-> chain, generation |-> generation]
    BY <2>0
  <2>2. T \in SUBSET Txs /\ \A t \in T : Payable(t)
    BY <1>1 DEF BestTxs, LedgerTypeOK
  <2>3. Fees(T) \in Nat /\ Height + 1 \in Nat /\ BlockReward \in Nat /\ Me \in Miners
    BY <1>1, <2>2, FeesFacts, AppendedChain, LedgerAssumption DEF Height
  <2>4. BlockReward + Fees(T) \in Nat /\ BlockReward + Fees(T) + 0 = BlockReward + Fees(T)
    BY <2>3
  <2>5. /\ job'.block = b /\ b.txs = T
        /\ b.reward = Coinbase(Me, Height + 1, BlockReward + Fees(T))
    BY <2>1, <2>4 DEF BlocksOf
  <2>6. b.reward \in Outpoint /\ b.reward.value = BlockReward + Fees(T)
    BY <2>3, <2>4, <2>5 DEF Coinbase, Outpoint
  <2>7. JobFair'
    BY <2>5, <2>6 DEF JobFair
  <2>8. chain' = chain /\ utxo' = utxo /\ torn' = torn
    BY <1>9 DEF PrepareMiningJob
  <2>9. QED
    BY <1>4, <2>7, <2>8
<1>10. CASE CommitBlock
  <2> DEFINE b == job.block
  <2>1. /\ NoDoubleSpend(b) /\ chain' = Append(chain, b)
        /\ utxo' = UpdateUtxoSet(b) /\ torn' = torn /\ job' = NoJob
    BY <1>10 DEF CommitBlock, Append1
  <2>2. BlockAt(b, Height + 1) /\ \A t \in b.txs : Payable(t)
    BY <1>1, <1>10, CurrentJob DEF CommitBlock
  <2>3. FairReward(b)
    <3>1. b.reward \in Outpoint /\ b.reward.value = BlockReward + Fees(b.txs)
        BY <1>1, <1>10 DEF JobFair, CommitBlock
    <3>2. b.reward.value \in Nat
        BY <3>1 DEF Outpoint
    <3>3. QED
        BY <3>1, <3>2 DEF FairReward
  <2>4. JobFair'
    BY <1>2, <2>1
  <2> HIDE DEF b
  <2>5. QED
    BY <1>1, <1>3, <2>1, <2>2, <2>3, <2>4, AppendKeepsBound DEF BoundInv
<1>11. CASE DropJob
  <2>1. chain' = chain /\ utxo' = utxo /\ torn' = torn /\ job' = NoJob
    BY <1>11 DEF DropJob
  <2>2. QED
    BY <1>2, <1>4, <2>1
<1>12. CASE Crash
  <2>1. JobFair'
    BY <1>2, <1>12, CrashOutcomes
  <2>2. CASE torn'
    BY <2>1, <2>2 DEF BoundInv, MoneyBounded
  <2>3. CASE chain' = chain /\ utxo' = utxo /\ torn' = torn
    BY <1>4, <2>1, <2>3
  <2>4. ASSUME NEW b \in ForeignBlocks, CoinbaseValid(b), NoDoubleSpend(b),
               chain' = Append(chain, b), utxo' = UpdateUtxoSet(b), torn' = torn
        PROVE  BoundInv'
    BY <1>6, <2>1, <2>4
  <2>5. QED
    BY <1>12, <2>2, <2>3, <2>4, CrashOutcomes
<1>13. CASE UNCHANGED vars
  <2>1. chain' = chain /\ utxo' = utxo /\ torn' = torn /\ job' = job
    BY <1>13 DEF vars
  <2>2. QED
    BY <1>2, <1>4, <2>1
<1>14. QED
    BY <1>5, <1>7, <1>8, <1>9, <1>10, <1>11, <1>12, <1>13 DEF Next

----------------------------------------------------------------------------
(* The theorems *)

\* The inductive invariant holds in every reachable state.
THEOREM Invariance == Spec => []Inv
<1>1. Init => Inv
    BY InitInv
<1>2. Inv /\ [Next]_vars => Inv'
    BY NextInv
<1>3. QED
    BY <1>1, <1>2, PTL DEF Spec

\* No output is consumed by two blocks of the chain, nor left unspent by the one
\* that consumed it, through reorganisations, mining, pruned marks and crashes
\* that do not cut update_utxo_set short, unless a coinbase that is not the first of
\* its block (block.rs asks nothing of it) is on the chain twice.
THEOREM NothingSpentTwice == Spec => []SpentOnce
<1>1. Inv => SpentOnce
  <2> SUFFICES ASSUME Inv, ~torn, CoinbasesOnce
               PROVE  /\ \A i, j \in DOMAIN chain :
                             i # j => Consumes(chain[i]) \cap Consumes(chain[j]) = {}
                      /\ \A i \in DOMAIN chain : Consumes(chain[i]) \cap utxo = {}
    BY DEF SpentOnce
  <2>1. LedgerTypeOK /\ MoneyOK
    BY DEF Inv
  <2>2. /\ Len(chain) \in Nat /\ DOMAIN chain = 1 .. Len(chain)
        /\ Len(chain) \in 0 .. Len(chain) /\ Left(Len(chain)) = utxo
    BY <2>1, AppendedChain, LeftAtTip
  <2>3. OnceBelow(Len(chain))
    BY <2>2 DEF CoinbasesOnce, OnceBelow
  <2>4. SpentBelow(Len(chain))
    BY <2>1, <2>2 DEF MoneyOK
  <2>5. QED
    BY <2>2, <2>3, <2>4 DEF SpentBelow
<1>2. QED
    BY <1>1, Invariance, PTL

\* A transaction marked in processed_txids is pooled, confirmed, or was in an
\* abandoned block: add_transaction_to_mempool refuses no other one as processed.
THEOREM MarksAreAccounted == Spec => []NoStrayMark
<1>1. Inv => NoStrayMark
    BY DEF Inv
<1>2. QED
    BY <1>1, Invariance, PTL

\* The transactions of a job that passes the guards of commit_mining_result can
\* be paid and exclude each other, whatever happened while it was mined.
CurrentJobPayable ==
    job # NoJob /\ JobCurrent =>
        /\ \A t \in job.block.txs : Payable(t)
        /\ NoDoubleSpend(job.block)

THEOREM CurrentJobIsPayable == Spec => []CurrentJobPayable
<1>1. Inv => CurrentJobPayable
    BY CurrentJob DEF Inv, CurrentJobPayable
<1>2. QED
    BY <1>1, Invariance, PTL

\* A transaction leaves the mempool only confirmed, as the cheapest of a full
\* mempool, or in a crash while this node commits a block that holds it.
THEOREM PooledAreKept == Spec => PooledNotLost
<1> DEFINE Accounted(t) ==
             \/ t \in UNION {chain'[i].txs : i \in DOMAIN chain'}
             \/ mempool' \ mempool # {} /\ \A u \in mempool' : SortFee(t) <= SortFee(u)
             \/ crashes' # crashes /\ torn' /\ t \in job.block.txs
<1>1. Inv /\ [Next]_vars => [\A t \in mempool \ mempool' : Accounted(t)]_vars
  <2> SUFFICES ASSUME Inv, [Next]_vars, NEW t \in mempool, t \notin mempool'
               PROVE  Accounted(t)
    OBVIOUS
  <2>1. LedgerTypeOK /\ JobOK
    BY DEF Inv
  <2>2. ASSUME NEW s \in Txs, AddTransaction(s)
        PROVE  Accounted(t)
    <3> DEFINE pool == mempool \cup {s}
               marks == Mark(processed, {s}, Height)
    <3>1. Evict(pool, marks) /\ s \notin mempool
        BY <2>2 DEF AddTransaction, Admissible
    <3>2. PICK victim \in Cheapest(pool) : mempool' = pool \ {victim}
        BY <3>1 DEF Evict
    <3>3. t = victim
        BY <3>2
    <3>4. \A u \in mempool' : SortFee(t) <= SortFee(u)
        BY <3>2, <3>3 DEF Cheapest
    <3>5. s \in mempool' \ mempool
        BY <3>1, <3>2, <3>3
    <3>6. QED
        BY <3>4, <3>5
  <2>3. ASSUME NEW b \in ForeignBlocks, AcceptBlock(b)
        PROVE  Accounted(t)
    <3>1. chain' = Append(chain, b) /\ t \in b.txs
        BY <2>3 DEF AcceptBlock, Append1, Ordinary
    <3>2. BlockAt(b, Height + 1)
        BY ForeignBlockAt
    <3>3. Confirmed' = Confirmed \cup b.txs
        BY <2>1, <3>1, <3>2, AppendKeepsBlocks
    <3>4. QED
        BY <3>1, <3>3 DEF Confirmed
  <2>4. CASE CommitBlock
    <3>1. chain' = Append(chain, job.block) /\ t \in job.block.txs
        BY <2>4 DEF CommitBlock, Append1, Ordinary
    <3>2. BlockAt(job.block, Height + 1)
        BY <2>1, <2>4, CurrentJob DEF CommitBlock
    <3>3. Confirmed' = Confirmed \cup job.block.txs
        BY <2>1, <3>1, <3>2, AppendKeepsBlocks
    <3>4. QED
        BY <3>1, <3>3 DEF Confirmed
  <2>5. CASE Crash
    <3>1. torn' /\ t \in job.block.txs /\ crashes' = crashes + 1
        BY <2>5, CrashOutcomes DEF Ordinary
    <3>2. crashes' # crashes
        BY <2>1, <3>1 DEF LedgerTypeOK
    <3>3. QED
        BY <3>1, <3>2
  <2>6. CASE RollbackTip \/ PrepareMiningJob \/ DropJob \/ UNCHANGED vars
    BY <2>6 DEF RollbackTip, PrepareMiningJob, DropJob, vars
  <2>7. QED
    BY <2>2, <2>3, <2>4, <2>5, <2>6 DEF Next
<1>2. QED
    BY <1>1, Invariance, PTL DEF Spec, PooledNotLost

\* What rolling back to any prefix of the chain leaves is worth at most the base,
\* the rewards of the prefix and its other coinbases, and a job claims exactly the
\* reward and its fees, in every reachable state.
THEOREM BoundHolds == Spec => []BoundInv
<1>1. Init => BoundInv
    BY BoundInit
<1>2. Inv /\ BoundInv /\ [Next]_vars => BoundInv'
    BY BoundNext
<1>3. QED
    BY <1>1, <1>2, Invariance, PTL DEF Spec

\* The unspent outputs are never worth more than the base, one reward per block
\* and the coinbases that blocks carry besides their first one (block.rs,
\* validate_block_coinbase, update_utxo_set, rollback_utxo_set), whatever was
\* confirmed, abandoned or mined without validation, unless a crash cut
\* update_utxo_set short.
THEOREM MoneyIsBounded == Spec => []NoInflation
<1>1. Inv /\ BoundInv => NoInflation
  <2> SUFFICES ASSUME Inv, BoundInv, ~torn
               PROVE  Value(utxo) <= Value(BaseUtxo) + BlockReward * Len(chain) + AllUnfunded
    BY DEF NoInflation
  <2>1. LedgerTypeOK
    BY DEF Inv
  <2>2. Len(chain) \in 0 .. Len(chain) /\ Left(Len(chain)) = utxo
    BY <2>1, AppendedChain, LeftAtTip
  <2>3. Bounded(chain, Len(chain), Left(Len(chain)))
    BY <2>2 DEF BoundInv, MoneyBounded
  <2>4. AllUnfunded = UnfundedBelow(chain, Len(chain))
    BY <2>1, AllUnfundedIsSum
  <2>5. QED
    BY <2>2, <2>3, <2>4 DEF Bounded
<1>2. QED
    BY <1>1, Invariance, BoundHolds, PTL

\* A job that passes the guards of commit_mining_result is a block that
\* validate_block_coinbase and validate_block_no_double_spend of any other node
\* accept, although commit_mining_result calls neither.
THEOREM JobsAreAcceptable == Spec => []JobAcceptable
<1>1. Inv /\ BoundInv => JobAcceptable
  <2> SUFFICES ASSUME Inv, BoundInv, job # NoJob, JobCurrent
               PROVE  CoinbaseValid(job.block) /\ NoDoubleSpend(job.block)
    BY DEF JobAcceptable
  <2>1. (\A t \in job.block.txs : Payable(t)) /\ NoDoubleSpend(job.block)
    BY CurrentJob DEF Inv
  <2>2. /\ job.block.reward.value = BlockReward + Fees(job.block.txs)
        /\ job.block.reward.value \in Nat
    BY DEF BoundInv, JobFair, Outpoint
  <2>3. QED
    BY <2>1, <2>2 DEF CoinbaseValid
<1>2. QED
    BY <1>1, Invariance, BoundHolds, PTL

=============================================================================

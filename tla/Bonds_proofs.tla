---------------------------- MODULE Bonds_proofs ----------------------------
(***************************************************************************)
(* Proofs about Bonds, for every set of miners, headers and proofs and for *)
(* every bound: bonds are lost only for equivocation that has happened (a  *)
(* restart at height 0 hides them, and loses none in RocksDB),             *)
(* the end of an epoch acts on all evidence it holds, and no miner is      *)
(* slashed twice in the life of a process.                                 *)
(*                                                                         *)
(* The argument: only verified proofs are pooled, and a verified proof is  *)
(* an equivocation; the miners that were slashed since the last restart    *)
(* are exactly those that process_all skips; and a bond in memory is in    *)
(* RocksDB too, where process_all looks for it.                            *)
(***************************************************************************)
EXTENDS Bonds, TLAPS

----------------------------------------------------------------------------
(* The inductive invariant *)

BondsTypeOK ==
    /\ height \in Nat /\ rollbacks \in Nat /\ restarts \in Nat
    /\ DOMAIN bonds \subseteq Miners /\ DOMAIN stored \subseteq Miners
    /\ pending \in Seq(Proofs)
    /\ processed \subseteq Miners
    /\ slashes \in [Miners -> Nat]

PendingVerified == \A i \in DOMAIN pending : Verified(pending[i])

\* A miner was slashed at most once in each life of the process, and this life
\* remembers it.
SlashesCounted ==
    \A m \in Miners : slashes[m] <= restarts + (IF m \in processed THEN 1 ELSE 0)

\* What the node holds it has stored.
HeldIsStored == DOMAIN bonds \subseteq DOMAIN stored

Inv == BondsTypeOK /\ PendingVerified /\ SlashesCounted /\ HeldIsStored

----------------------------------------------------------------------------
(* Lemmas about the helpers *)

\* What EquivocationProof::verify accepts has happened: two signed headers of
\* one miner over one parent in one epoch.
LEMMA VerifiedIsReal ==
    ASSUME NEW p \in Proofs, Verified(p)
    PROVE  p.miner_id \in Miners /\ Equivocates(p.miner_id)
<1>1. p \in Proof
    BY BondsAssumption
<1>2. p.block_1 \in Headers /\ p.block_2 \in Headers /\ p.miner_id \in Miners
    BY <1>1 DEF Proof
<1>3. {p.block_1, p.block_2} \cap (Unsigned \cup WeakWork) = {}
    BY DEF Verified, VerifyFails, Plausible
<1>4. /\ p.block_1 \in Headers \ (Unsigned \cup WeakWork)
      /\ p.block_2 \in Headers \ (Unsigned \cup WeakWork)
    BY <1>2, <1>3
<1>5. /\ p.block_1 # p.block_2
      /\ Signer[p.block_1] = p.miner_id /\ Signer[p.block_2] = p.miner_id
      /\ Parent[p.block_1] = Parent[p.block_2] /\ EpochOf[p.block_1] = EpochOf[p.block_2]
    BY DEF Verified, Plausible, SameSlot
<1>6. QED
    BY <1>2, <1>4, <1>5 DEF Equivocates

\* process_all slashes bonded miners that equivocated and were not slashed
\* before.
LEMMA SlashedAreGuilty ==
    ASSUME Inv, NEW t, NEW m \in Slashed(t)
    PROVE  m \in Miners /\ m \in DOMAIN t /\ m \notin processed /\ Equivocates(m)
<1>1. PICK i \in DOMAIN pending : pending[i].miner_id = m /\ Verified(pending[i])
    BY DEF Slashed
<1>2. pending[i] \in Proofs
    BY <1>1 DEF Inv, BondsTypeOK
<1>3. QED
    BY <1>1, <1>2, VerifiedIsReal DEF Slashed

\* The table that execute_slash leaves.
LEMMA WithoutDomain ==
    ASSUME NEW t, NEW S
    PROVE  DOMAIN Without(t, S) = DOMAIN t \ S
BY DEF Without, Restrict

----------------------------------------------------------------------------
(* The invariant is inductive *)

LEMMA InitInv == Init => Inv
BY DEF Init, Inv, BondsTypeOK, PendingVerified, SlashesCounted, HeldIsStored, NoBonds

\* A proof is pooled only when it verifies.
LEMMA ReceiveProofInv ==
    ASSUME Inv, NEW p \in Proofs, ReceiveProof(p)
    PROVE  Inv'
<1>1. \/ pending' = pending
      \/ Verified(p) /\ pending' = Append(pending, p)
    BY DEF ReceiveProof, AddProof
<1>2. pending' \in Seq(Proofs) /\ PendingVerified'
  <2>1. CASE pending' = pending
    BY <2>1 DEF Inv, BondsTypeOK, PendingVerified, Verified, VerifyFails, Plausible, SameSlot
  <2>2. CASE Verified(p) /\ pending' = Append(pending, p)
    <3>1. pending \in Seq(Proofs)
        BY DEF Inv, BondsTypeOK
    <3>2. /\ pending' \in Seq(Proofs) /\ DOMAIN pending' = 1 .. Len(pending) + 1
          /\ \A i \in 1 .. Len(pending) + 1 :
                pending'[i] = IF i = Len(pending) + 1 THEN p ELSE pending[i]
        BY <3>1, <2>2
    <3>3. DOMAIN pending = 1 .. Len(pending) /\ Len(pending) \in Nat
        BY <3>1
    <3>4. \A i \in DOMAIN pending' : Verified(pending'[i])
        BY <2>2, <3>2, <3>3 DEF Inv, PendingVerified
    <3>5. QED
        BY <3>2, <3>4 DEF PendingVerified
  <2>3. QED
    BY <1>1, <2>1, <2>2
<1>3. UNCHANGED <<height, bonds, stored, processed, slashes, rollbacks, restarts>>
    BY DEF ReceiveProof
<1>4. QED
    BY <1>2, <1>3 DEF Inv, BondsTypeOK, SlashesCounted, HeldIsStored

\* A block slashes nobody twice.
LEMMA ConnectBlockInv ==
    ASSUME Inv, NEW S \in SUBSET Miners, NEW created \in [S -> Amounts], ConnectBlock(created)
    PROVE  Inv'
<1> DEFINE T == Slashed(Bonded(stored, created))
<1>1. /\ DOMAIN Bonded(stored, created) \subseteq Miners
      /\ DOMAIN Bonded(bonds, created) \subseteq DOMAIN Bonded(stored, created)
  <2>1. /\ DOMAIN Bonded(stored, created) =
               DOMAIN stored \cup {k \in DOMAIN created : created[k] >= MinimumBond}
        /\ DOMAIN Bonded(bonds, created) =
               DOMAIN bonds \cup {k \in DOMAIN created : created[k] >= MinimumBond}
    BY DEF Bonded
  <2>2. DOMAIN created = S
    OBVIOUS
  <2>3. QED
    BY <2>1, <2>2 DEF Inv, BondsTypeOK, HeldIsStored
<1>2. height' \in Nat /\ UNCHANGED <<rollbacks, restarts>>
    BY DEF Inv, BondsTypeOK, ConnectBlock
<1>3. CASE ~EndsEpoch(height + 1)
  <2>1. /\ bonds' = Bonded(bonds, created) /\ stored' = Bonded(stored, created)
        /\ UNCHANGED <<processed, pending, slashes>>
    BY <1>3 DEF ConnectBlock
  <2>2. QED
    BY <1>1, <1>2, <2>1 DEF Inv, BondsTypeOK, PendingVerified, SlashesCounted, HeldIsStored
<1>4. CASE EndsEpoch(height + 1)
  <2>1. /\ bonds' = Without(Bonded(bonds, created), T)
        /\ stored' = Without(Bonded(stored, created), T)
        /\ processed' = processed \cup T
        /\ slashes' = [m \in Miners |-> slashes[m] + (IF m \in T THEN 1 ELSE 0)]
        /\ pending' = <<>>
    BY <1>4 DEF ConnectBlock, AtEpochEnd, Processed, CountSlashes
  <2>2. \A m \in T : m \in Miners /\ m \notin processed
    BY SlashedAreGuilty
  <2> HIDE DEF T
  <2>3. /\ DOMAIN bonds' \subseteq DOMAIN stored'
        /\ DOMAIN stored' \subseteq Miners
    BY <1>1, <2>1, WithoutDomain
  <2>4. BondsTypeOK'
    <3>1. slashes' \in [Miners -> Nat]
        BY <2>1 DEF Inv, BondsTypeOK
    <3>2. processed' \subseteq Miners /\ pending' \in Seq(Proofs)
        BY <2>1, <2>2 DEF Inv, BondsTypeOK
    <3>3. QED
        BY <1>2, <2>3, <3>1, <3>2 DEF Inv, BondsTypeOK
  <2>5. SlashesCounted'
    BY <1>2, <2>1, <2>2 DEF Inv, BondsTypeOK, SlashesCounted
  <2>6. QED
    BY <2>1, <2>3, <2>4, <2>5 DEF Inv, PendingVerified, HeldIsStored
<1>5. QED
    BY <1>3, <1>4

\* What a start leaves: RocksDB keeps every entry, and so does the node unless it
\* starts at height 0.
LEMMA StartTables ==
    ASSUME NEW t, NEW h, StartWith(t, h)
    PROVE  /\ height' = h
           /\ DOMAIN stored' \in {DOMAIN t, DOMAIN t \cup {Self}}
           /\ DOMAIN bonds' \subseteq DOMAIN stored'
           /\ h # 0 => DOMAIN t \subseteq DOMAIN bonds'
<1>1. DOMAIN Loaded(t, h) \subseteq DOMAIN t /\ (h # 0 => DOMAIN Loaded(t, h) = DOMAIN t)
    BY DEF Loaded, NoBonds
<1>2. CASE Self \in DOMAIN Loaded(t, h)
    BY <1>1, <1>2 DEF StartWith
<1>3. CASE Self \notin DOMAIN Loaded(t, h)
  <2>1. /\ DOMAIN bonds' = DOMAIN Loaded(t, h) \cup {Self}
        /\ DOMAIN stored' = DOMAIN t \cup {Self}
        /\ height' = h
    BY <1>3 DEF StartWith, Put
  <2>2. QED
    BY <1>1, <2>1
<1>4. QED
    BY <1>2, <1>3

\* A restart forgets who was slashed, and is counted.
LEMMA StartsInv ==
    ASSUME Inv, NEW h \in Nat, NEW t, DOMAIN t \subseteq Miners, StartWith(t, h),
           slashes' \in [Miners -> Nat],
           \A m \in Miners : slashes'[m] <= slashes[m] + (IF m \in processed THEN 0 ELSE 1)
    PROVE  Inv'
<1>1. restarts' = restarts + 1 /\ pending' = <<>> /\ processed' = {} /\ UNCHANGED rollbacks
    BY DEF StartWith
<1>2. /\ height' \in Nat /\ DOMAIN stored' \subseteq Miners
      /\ DOMAIN bonds' \subseteq DOMAIN stored'
  <2>1. /\ height' = h
        /\ DOMAIN stored' \in {DOMAIN t, DOMAIN t \cup {Self}}
        /\ DOMAIN bonds' \subseteq DOMAIN stored'
    BY StartTables
  <2>2. QED
    BY <2>1, BondsAssumption
<1>3. BondsTypeOK'
    BY <1>1, <1>2 DEF Inv, BondsTypeOK
<1>4. SlashesCounted'
  <2>1. SUFFICES ASSUME NEW m \in Miners
                 PROVE  slashes'[m] <= restarts + 1
    BY <1>1 DEF SlashesCounted
  <2>2. slashes[m] <= restarts + (IF m \in processed THEN 1 ELSE 0)
    BY DEF Inv, SlashesCounted
  <2>3. slashes[m] \in Nat /\ slashes'[m] \in Nat /\ restarts \in Nat
    BY DEF Inv, BondsTypeOK
  <2>4. slashes'[m] <= slashes[m] + (IF m \in processed THEN 0 ELSE 1)
    OBVIOUS
  <2>5. QED
    BY <2>2, <2>3, <2>4
<1>5. QED
    BY <1>1, <1>2, <1>3, <1>4 DEF Inv, PendingVerified, HeldIsStored

LEMMA RestartInv ==
    ASSUME Inv, Restart
    PROVE  Inv'
BY StartsInv DEF Restart, Inv, BondsTypeOK

LEMMA CrashInv ==
    ASSUME Inv, NEW B \in SUBSET Miners, NEW created \in [B -> Amounts],
           CrashInEpochEnd(created)
    PROVE  Inv'
<1> DEFINE t == Bonded(stored, created)
<1>1. PICK S \in SUBSET Slashed(t) \ {{}}, h \in {height, height + 1} :
          StartWith(Without(t, S), h) /\ slashes' = CountSlashes(S)
    BY DEF CrashInEpochEnd
<1>2. DOMAIN t \subseteq Miners
  <2>1. DOMAIN t = DOMAIN stored \cup {k \in DOMAIN created : created[k] >= MinimumBond}
    BY DEF Bonded
  <2>2. DOMAIN created = B
    OBVIOUS
  <2>3. QED
    BY <2>1, <2>2 DEF Inv, BondsTypeOK
<1> HIDE DEF t
<1>3. \A m \in S : m \notin processed
    BY SlashedAreGuilty
<1>4. h \in Nat /\ DOMAIN Without(t, S) \subseteq Miners
  <2>1. DOMAIN Without(t, S) = DOMAIN t \ S
    BY WithoutDomain
  <2>2. h \in Nat
    BY DEF Inv, BondsTypeOK
  <2>3. QED
    BY <1>2, <2>1, <2>2
<1>5. slashes' = [m \in Miners |-> slashes[m] + (IF m \in S THEN 1 ELSE 0)]
    BY <1>1 DEF CountSlashes
<1>6. /\ slashes' \in [Miners -> Nat]
      /\ \A m \in Miners : slashes'[m] <= slashes[m] + (IF m \in processed THEN 0 ELSE 1)
    BY <1>3, <1>5 DEF Inv, BondsTypeOK
<1>7. QED
    BY <1>1, <1>4, <1>6, StartsInv

\* Every step keeps the invariant.
LEMMA NextInv == Inv /\ [Next]_vars => Inv'
<1> SUFFICES ASSUME Inv, [Next]_vars
             PROVE  Inv'
    OBVIOUS
<1>1. ASSUME NEW m \in Miners, NEW amount \in Amounts, BondBroadcast(m, amount)
      PROVE  Inv'
  <2>1. DOMAIN bonds' = {m} \cup DOMAIN bonds /\ DOMAIN stored' = {m} \cup DOMAIN stored
    BY <1>1 DEF BondBroadcast, Put
  <2>2. UNCHANGED <<height, pending, processed, slashes, rollbacks, restarts>>
    BY <1>1 DEF BondBroadcast
  <2>3. QED
    BY <2>1, <2>2 DEF Inv, BondsTypeOK, PendingVerified, SlashesCounted, HeldIsStored
<1>2. CASE RollbackTip
    BY <1>2 DEF RollbackTip, Inv, BondsTypeOK, PendingVerified, SlashesCounted, HeldIsStored
<1>3. CASE Reconnect \/ UNCHANGED vars
    BY <1>3 DEF Reconnect, vars, Inv, BondsTypeOK, PendingVerified, SlashesCounted, HeldIsStored
<1>4. ASSUME NEW B \in SUBSET Miners, NEW created \in [B -> Amounts],
             ConnectBlock(created) \/ CrashInEpochEnd(created)
      PROVE  Inv'
    BY <1>4, ConnectBlockInv, CrashInv
<1>5. QED
    BY <1>1, <1>2, <1>3, <1>4, ReceiveProofInv, RestartInv DEF Next

THEOREM Invariance == Spec => []Inv
BY InitInv, NextInv, PTL DEF Spec

----------------------------------------------------------------------------
(* The properties that TLC checks, for every value of the constants *)

\* However often evidence comes and epochs end, a miner is slashed once between
\* two restarts.
THEOREM NobodySlashedTwice == Spec => []SlashedOnce
<1>1. Inv => SlashedOnce
    BY DEF Inv, BondsTypeOK, SlashesCounted, SlashedOnce
<1>2. QED
    BY <1>1, Invariance, PTL

\* Whatever arrives and whenever the process dies, only a miner that signed two
\* blocks of one slot loses its bond in RocksDB; and in the memory of the node,
\* unless the node starts at height 0.
THEOREM OnlyGuiltyLoseBonds == Spec => InnocentKeepsBond
<1> DEFINE Kept ==
        /\ \A m \in DOMAIN stored \ DOMAIN stored' : Equivocates(m)
        /\ restarts' = restarts \/ height' # 0
           => \A m \in DOMAIN bonds \ DOMAIN bonds' : Equivocates(m)
<1>1. ASSUME Inv, NEW B \in SUBSET Miners, NEW created \in [B -> Amounts],
             ConnectBlock(created)
      PROVE  Kept
  <2> DEFINE T == Slashed(Bonded(stored, created))
  <2>1. /\ DOMAIN stored \subseteq DOMAIN Bonded(stored, created)
        /\ DOMAIN bonds \subseteq DOMAIN Bonded(bonds, created)
    BY DEF Bonded
  <2>2. \A m \in T : Equivocates(m)
    BY <1>1, SlashedAreGuilty
  <2>3. CASE EndsEpoch(height + 1)
    <3>1. /\ bonds' = Without(Bonded(bonds, created), T)
          /\ stored' = Without(Bonded(stored, created), T)
        BY <1>1, <2>3 DEF ConnectBlock, AtEpochEnd
    <3> HIDE DEF T
    <3>2. QED
        BY <2>1, <2>2, <3>1, WithoutDomain
  <2>4. CASE ~EndsEpoch(height + 1)
    BY <1>1, <2>1, <2>4 DEF ConnectBlock
  <2>5. QED
    BY <2>3, <2>4
<1>2. ASSUME Inv, NEW B \in SUBSET Miners, NEW created \in [B -> Amounts],
             CrashInEpochEnd(created)
      PROVE  Kept
  <2> DEFINE t == Bonded(stored, created)
  <2>1. PICK S \in SUBSET Slashed(t), h \in {height, height + 1} : StartWith(Without(t, S), h)
    BY <1>2 DEF CrashInEpochEnd
  <2>2. DOMAIN stored \subseteq DOMAIN t
    BY DEF Bonded
  <2>3. \A m \in S : Equivocates(m)
    BY <1>2, SlashedAreGuilty
  <2> HIDE DEF t
  <2>4. DOMAIN Without(t, S) = DOMAIN t \ S
    BY WithoutDomain
  <2>5. /\ DOMAIN Without(t, S) \subseteq DOMAIN stored'
        /\ height' # 0 => DOMAIN Without(t, S) \subseteq DOMAIN bonds'
    BY <2>1, StartTables
  <2>6. restarts' # restarts
    BY <1>2, <2>1 DEF StartWith, Inv, BondsTypeOK
  <2>7. DOMAIN bonds \subseteq DOMAIN t
    BY <1>2, <2>2 DEF Inv, HeldIsStored
  <2>8. QED
    BY <2>2, <2>3, <2>4, <2>5, <2>6, <2>7
<1>3. ASSUME Inv, Restart
      PROVE  Kept
  <2>1. /\ DOMAIN stored \subseteq DOMAIN stored'
        /\ height' # 0 => DOMAIN stored \subseteq DOMAIN bonds'
    BY <1>3, StartTables DEF Restart
  <2>2. restarts' # restarts
    BY <1>3 DEF Restart, StartWith, Inv, BondsTypeOK
  <2>3. QED
    BY <1>3, <2>1, <2>2 DEF Inv, HeldIsStored
<1>4. ASSUME NEW k \in Miners, NEW amount \in Amounts, BondBroadcast(k, amount)
      PROVE  Kept
    BY <1>4 DEF BondBroadcast, Put
<1>5. ASSUME (\E p \in Proofs : ReceiveProof(p)) \/ Reconnect \/ RollbackTip
      PROVE  Kept
    BY <1>5 DEF ReceiveProof, Reconnect, RollbackTip
<1>6. Inv /\ [Next]_vars => [Kept]_vars
  <2> HIDE DEF Kept
  <2>1. SUFFICES ASSUME Inv, Next
                 PROVE  Kept
    OBVIOUS
  <2>2. QED
    BY <1>1, <1>2, <1>3, <1>4, <1>5, <2>1 DEF Next
<1>7. QED
    BY <1>6, Invariance, PTL DEF Spec, InnocentKeepsBond

\* The block that ends an epoch leaves no bond, in memory or in RocksDB, to a miner
\* with pooled evidence against it that was not slashed before, not even a bond
\* made by this block.
THEOREM EvidenceIsActedOn == Spec => EvidenceActedOn
<1> DEFINE Acted ==
        height' > height /\ EndsEpoch(height') /\ restarts' = restarts
        => \A i \in DOMAIN pending : pending[i].miner_id \notin processed
              => pending[i].miner_id \notin DOMAIN bonds' \cup DOMAIN stored'
<1>1. Inv /\ [Next]_vars => [Acted]_vars
  <2>1. SUFFICES ASSUME Inv, Next, height' > height, EndsEpoch(height'), restarts' = restarts,
                        NEW i \in DOMAIN pending, pending[i].miner_id \notin processed
                 PROVE  pending[i].miner_id \notin DOMAIN bonds' \cup DOMAIN stored'
    OBVIOUS
  <2>2. height \in Nat /\ restarts \in Nat
    BY <2>1 DEF Inv, BondsTypeOK
  <2>3. ~Restart /\ \A created : ~CrashInEpochEnd(created)
    BY <2>1, <2>2 DEF Restart, CrashInEpochEnd, StartWith
  <2>4. PICK B \in SUBSET Miners : \E created \in [B -> Amounts] : ConnectBlock(created)
    BY <2>1, <2>2, <2>3 DEF Next, ReceiveProof, Reconnect, BondBroadcast, RollbackTip
  <2>5. PICK created \in [B -> Amounts] : ConnectBlock(created)
    BY <2>4
  <2> DEFINE t == Bonded(stored, created)
  <2>6. /\ DOMAIN stored' = DOMAIN t \ Slashed(t)
        /\ DOMAIN bonds' = DOMAIN Bonded(bonds, created) \ Slashed(t)
    BY <2>1, <2>5, WithoutDomain DEF ConnectBlock, AtEpochEnd
  <2>7. DOMAIN Bonded(bonds, created) \subseteq DOMAIN t
    <3>1. /\ DOMAIN Bonded(bonds, created) =
                 DOMAIN bonds \cup {k \in DOMAIN created : created[k] >= MinimumBond}
          /\ DOMAIN t = DOMAIN stored \cup {k \in DOMAIN created : created[k] >= MinimumBond}
        BY DEF Bonded
    <3>2. QED
        BY <2>1, <3>1 DEF Inv, HeldIsStored
  <2>8. Verified(pending[i])
    BY <2>1 DEF Inv, PendingVerified
  <2> HIDE DEF t
  <2>9. pending[i].miner_id \in DOMAIN t => pending[i].miner_id \in Slashed(t)
    BY <2>1, <2>8 DEF Slashed
  <2>10. QED
    BY <2>6, <2>7, <2>9
<1>2. QED
    BY <1>1, Invariance, PTL DEF Spec, EvidenceActedOn

=============================================================================

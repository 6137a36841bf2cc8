------------------------- MODULE SyncSession_proofs -------------------------
(***************************************************************************)
(* Proofs about SyncSession, for every tree of blocks, set of peers and    *)
(* number of faults.                                                       *)
(*                                                                         *)
(* The chains come first: that no block descends from itself makes the     *)
(* recursion of Path well-founded, so that Path and HeightOf satisfy their *)
(* equations; a batch is a piece of one chain, of which the known blocks   *)
(* come first, and what is appended makes the chain as much longer.  Then  *)
(* what each operation of the SyncManager does to a record that is         *)
(* GoodSync, and last the actions, with SyncInv as inductive invariant:    *)
(* beside what the theorems state it says that a timely peer was only ever *)
(* asked for blocks that it has, that a timeout counted for it leaves an   *)
(* answer under way that resets it or a ban that makes the node forget it, *)
(* and that as long as nothing comes late or uninvited the only request    *)
(* under way is that of the session that waits.                            *)
(***************************************************************************)
EXTENDS SyncSession, FiniteSetTheorems, SequenceTheorems, WellFoundedInduction, TLAPS

----------------------------------------------------------------------------
(* The longest good prefix *)

LEMMA LeastNumber ==
    ASSUME NEW S \in SUBSET Nat, S # {}
    PROVE  \E m \in S : \A k \in S : m <= k
<1> DEFINE R == OpToRel(<, Nat)
<1>1. IsWellFoundedOn(R, Nat)
    BY NatLessThanWellFounded
<1>2. \A k, m \in Nat : k < m => <<k, m>> \in R
    BY DEF OpToRel
<1> HIDE DEF R
<1>3. PICK m \in S : \A k \in S : ~(<<k, m>> \in R)
    BY <1>1, WFMin
<1>4. ASSUME NEW k \in S PROVE m <= k
  <2>1. k \in Nat /\ m \in Nat
    OBVIOUS
  <2>2. ~(k < m)
    BY <1>2, <1>3, <2>1
  <2>3. QED
    BY <2>1, <2>2
<1>5. QED
    BY <1>4

LEMMA LeadingFacts ==
    ASSUME NEW S, NEW n \in Nat
    PROVE  /\ Leading(S, n) \in 0 .. n
           /\ 1 .. Leading(S, n) \subseteq S
           /\ Leading(S, n) < n => Leading(S, n) + 1 \notin S
<1> DEFINE A == {k \in Nat : k < n => k + 1 \notin S}
<1>1. n \in A
    OBVIOUS
<1>2. PICK m \in A : \A k \in A : m <= k
    BY <1>1, LeastNumber
<1>3. m \in 0 .. n /\ (m < n => m + 1 \notin S)
    BY <1>1, <1>2
<1>4. ASSUME NEW i \in 1 .. m PROVE i \in S
  <2>1. i - 1 \in Nat /\ i - 1 < m /\ i - 1 < n
    BY <1>3
  <2>2. i - 1 \notin A
    BY <1>2, <1>3, <2>1
  <2>3. (i - 1) + 1 \in S
    BY <2>1, <2>2
  <2>4. QED
    BY <2>3
<1>5. 1 .. m \subseteq S
    BY <1>4
<1> HIDE DEF A
<1>6. QED
    BY <1>3, <1>5 DEF Leading

----------------------------------------------------------------------------
(* The tree of blocks *)

LEMMA TreeInduction ==
    ASSUME NEW S, Genesis \in S,
           \A b \in Blocks \ {Genesis} : Parent[b] \in S => b \in S
    PROVE  Blocks \subseteq S
<1>1. SUFFICES ASSUME Blocks \ S # {} PROVE FALSE
    OBVIOUS
<1>2. PICK b \in Blocks \ S : Parent[b] \notin Blocks \ S
    BY <1>1, TreeAssumption
<1>3. b \in Blocks \ {Genesis} /\ Parent[b] \in Blocks
    BY TreeAssumption
<1>4. QED
    BY <1>2, <1>3

\* A piece of Path that is closed under parents.
Piece(D, f) ==
    /\ D \in SUBSET Blocks /\ f \in [D -> Seq(Blocks \ {Genesis})]
    /\ \A b \in D : b = Genesis => f[b] = <<>>
    /\ \A b \in D : b # Genesis => Parent[b] \in D /\ f[b] = Append(f[Parent[b]], b)

LEMMA PiecesAgree ==
    ASSUME NEW D, NEW f, Piece(D, f), NEW E, NEW g, Piece(E, g), NEW b \in D \cap E
    PROVE  f[b] = g[b]
<1> DEFINE S == {x \in Blocks : x \in D /\ x \in E => f[x] = g[x]}
<1>1. Genesis \in S
    BY TreeAssumption DEF Piece
<1>2. ASSUME NEW x \in Blocks \ {Genesis}, Parent[x] \in S PROVE x \in S
    BY <1>2 DEF Piece
<1>3. Blocks \subseteq S
    BY <1>1, <1>2, TreeInduction
<1>4. QED
    BY <1>3 DEF Piece

LEMMA PieceExists ==
    ASSUME NEW b \in Blocks
    PROVE  \E D, f : Piece(D, f) /\ b \in D
<1> DEFINE S == {x \in Blocks : \E D, f : Piece(D, f) /\ x \in D}
<1>1. Genesis \in S
  <2> DEFINE D == {Genesis}
             f == [x \in D |-> <<>>]
  <2>1. Piece(D, f)
    BY TreeAssumption DEF Piece
  <2>2. QED
    BY <2>1, TreeAssumption
<1>2. ASSUME NEW x \in Blocks \ {Genesis}, Parent[x] \in S PROVE x \in S
  <2>1. PICK D, f : Piece(D, f) /\ Parent[x] \in D
    BY <1>2
  <2> DEFINE E == D \cup {x}
             g == [y \in E |-> IF y \in D THEN f[y] ELSE Append(f[Parent[x]], x)]
  <2>2. Piece(E, g)
    <3>1. Append(f[Parent[x]], x) \in Seq(Blocks \ {Genesis})
        BY <2>1 DEF Piece
    <3>2. g \in [E -> Seq(Blocks \ {Genesis})]
        BY <2>1, <3>1 DEF Piece
    <3>3. ASSUME NEW y \in E, y = Genesis PROVE g[y] = <<>>
        BY <2>1, <3>3 DEF Piece
    <3>4. ASSUME NEW y \in E, y # Genesis
          PROVE  Parent[y] \in E /\ g[y] = Append(g[Parent[y]], y)
        BY <2>1, <3>4 DEF Piece
    <3>5. E \in SUBSET Blocks
        BY <2>1 DEF Piece
    <3> HIDE DEF E, g
    <3>6. QED
        BY <3>2, <3>3, <3>4, <3>5 DEF Piece
  <2>3. QED
    BY <2>2
<1>3. QED
    BY <1>1, <1>2, TreeInduction

\* Path is what its definition says: the recursion is well-founded.
LEMMA PathFacts ==
    /\ Path \in [Blocks -> Seq(Blocks \ {Genesis})]
    /\ Path[Genesis] = <<>>
    /\ \A b \in Blocks \ {Genesis} : Path[b] = Append(Path[Parent[b]], b)
<1> DEFINE Value(b, v) == \E D, f : Piece(D, f) /\ b \in D /\ v = f[b]
           F == [b \in Blocks |-> CHOOSE v : Value(b, v)]
           Eq(h) == h = [b \in Blocks |-> IF b = Genesis THEN <<>> ELSE Append(h[Parent[b]], b)]
<1>1. ASSUME NEW D, NEW f, Piece(D, f), NEW b \in D PROVE F[b] = f[b]
  <2>1. Value(b, f[b]) /\ b \in Blocks
    BY <1>1 DEF Piece
  <2>2. ASSUME NEW v, Value(b, v) PROVE v = f[b]
    BY <1>1, <2>2, PiecesAgree
  <2> HIDE DEF Value
  <2>3. QED
    BY <2>1, <2>2
<1>2. ASSUME NEW b \in Blocks
      PROVE  /\ F[b] \in Seq(Blocks \ {Genesis})
             /\ F[b] = IF b = Genesis THEN <<>> ELSE Append(F[Parent[b]], b)
  <2> HIDE DEF F
  <2>1. PICK D, f : Piece(D, f) /\ b \in D
    BY PieceExists
  <2>2. F[b] = f[b]
    BY <1>1, <2>1
  <2>3. b # Genesis => F[Parent[b]] = f[Parent[b]]
    <3>1. b # Genesis => Parent[b] \in D
        BY <2>1 DEF Piece
    <3>2. QED
        BY <1>1, <2>1, <3>1
  <2>4. QED
    BY <2>1, <2>2, <2>3 DEF Piece
<1>3. Eq(F)
  <2> HIDE DEF Value
  <2>1. F = [b \in Blocks |-> F[b]]
    OBVIOUS
  <2> HIDE DEF F
  <2>2. QED
    BY <1>2, <2>1
<1> DEFINE path == CHOOSE h : Eq(h)
<1>4. Path = [b \in Blocks |-> path[b]]
    BY DEF Path
<1>5. Eq(Path)
  <2>1. Eq(path)
    <3> HIDE DEF Eq, F
    <3>1. QED
        BY <1>3
  <2> HIDE DEF path
  <2>2. path = [b \in Blocks |-> path[b]]
    BY <2>1
  <2>3. Path = path
    BY <1>4, <2>2
  <2> HIDE DEF Eq
  <2>4. QED
    BY <2>1, <2>3
<1> HIDE DEF path
<1>6. ASSUME NEW b \in Blocks PROVE Path[b] = F[b]
  <2> HIDE DEF F
  <2> DEFINE S == {x \in Blocks : Path[x] = F[x]}
  <2>1. Genesis \in S
    BY <1>2, <1>5, TreeAssumption
  <2>2. ASSUME NEW x \in Blocks \ {Genesis}, Parent[x] \in S PROVE x \in S
    BY <1>2, <1>5, <2>2
  <2>3. QED
    BY <2>1, <2>2, TreeInduction
<1> HIDE DEF F
<1>7. QED
    BY <1>2, <1>5, <1>6, TreeAssumption

----------------------------------------------------------------------------
(* Chains *)

LEMMA HeightFacts ==
    /\ \A b \in Blocks : HeightOf(b) \in Nat
    /\ HeightOf(Genesis) = 0
    /\ \A b \in Blocks \ {Genesis} :
          /\ HeightOf(b) = HeightOf(Parent[b]) + 1 /\ HeightOf(b) >= 1
          /\ Path[b][HeightOf(b)] = b
<1>1. \A b \in Blocks : HeightOf(b) \in Nat
    BY PathFacts DEF HeightOf
<1>2. HeightOf(Genesis) = 0
    BY PathFacts DEF HeightOf
<1>3. ASSUME NEW b \in Blocks \ {Genesis}
      PROVE  /\ HeightOf(b) = HeightOf(Parent[b]) + 1 /\ HeightOf(b) >= 1
             /\ Path[b][HeightOf(b)] = b
  <2>1. Parent[b] \in Blocks /\ Path[Parent[b]] \in Seq(Blocks \ {Genesis})
    BY PathFacts, TreeAssumption
  <2>2. Path[b] = Append(Path[Parent[b]], b)
    BY PathFacts
  <2>3. /\ Len(Append(Path[Parent[b]], b)) = Len(Path[Parent[b]]) + 1
        /\ Append(Path[Parent[b]], b)[Len(Path[Parent[b]]) + 1] = b
        /\ Len(Path[Parent[b]]) \in Nat
    BY <2>1, AppendProperties
  <2>4. QED
    BY <2>2, <2>3 DEF HeightOf
<1>4. QED
    BY <1>1, <1>2, <1>3

\* The chain below a block of a chain is the beginning of that chain.
LEMMA PathOfAncestor ==
    ASSUME NEW b \in Blocks, NEW i \in 1 .. HeightOf(b)
    PROVE  Path[b][i] \in Blocks \ {Genesis} /\ Path[Path[b][i]] = SubSeq(Path[b], 1, i)
<1> DEFINE Below(x) == \A j \in 1 .. HeightOf(x) : Path[Path[x][j]] = SubSeq(Path[x], 1, j)
           S == {x \in Blocks : Below(x)}
<1>1. Genesis \in S
    BY HeightFacts, TreeAssumption
<1>2. ASSUME NEW x \in Blocks \ {Genesis}, Parent[x] \in S PROVE x \in S
  <2> DEFINE q == Path[Parent[x]]
  <2>1. q \in Seq(Blocks \ {Genesis}) /\ Len(q) \in Nat /\ Path[x] = Append(q, x)
    BY <1>2, PathFacts
  <2>2. /\ Append(q, x) \in Seq(Blocks \ {Genesis}) /\ Len(Append(q, x)) = Len(q) + 1
        /\ \A j \in 1 .. Len(q) : Append(q, x)[j] = q[j]
        /\ Append(q, x)[Len(q) + 1] = x
    BY <2>1, AppendProperties
  <2>3. ASSUME NEW j \in 1 .. HeightOf(x) PROVE Path[Path[x][j]] = SubSeq(Path[x], 1, j)
    <3>1. j \in 1 .. Len(q) + 1
        BY <2>1, <2>2 DEF HeightOf
    <3>2. CASE j = Len(q) + 1
      <4>1. Path[x][j] = x
          BY <2>1, <2>2, <3>2
      <4>2. SubSeq(Path[x], 1, j) = Path[x]
          BY <2>1, <2>2, <3>2, SubSeqFull
      <4>3. QED
          BY <4>1, <4>2
    <3>3. CASE j # Len(q) + 1
      <4>1. j \in 1 .. Len(q)
          BY <2>1, <3>1, <3>3
      <4>2. Path[q[j]] = SubSeq(q, 1, j)
          BY <1>2, <4>1 DEF HeightOf
      <4>3. SubSeq(Append(q, x), 1, j) = SubSeq(q, 1, j)
        <5> HIDE DEF q
        <5>1. QED
          BY <2>1, <2>2, <4>1
      <4>4. Path[x][j] = q[j]
          BY <2>1, <2>2, <4>1
      <4>5. QED
          BY <2>1, <4>2, <4>3, <4>4
    <3>4. QED
        BY <3>2, <3>3
  <2>4. QED
    BY <2>3
<1>3. Below(b)
    BY <1>1, <1>2, TreeInduction
<1>4. Path[b][i] \in Blocks \ {Genesis}
    BY PathFacts, ElementOfSeq DEF HeightOf
<1>5. QED
    BY <1>3, <1>4

LEMMA PathSteps ==
    ASSUME NEW b \in Blocks, NEW i \in 1 .. HeightOf(b)
    PROVE  /\ Path[b][i] \in Blocks \ {Genesis} /\ HeightOf(Path[b][i]) = i
           /\ Parent[Path[b][i]] = IF i = 1 THEN Genesis ELSE Path[b][i - 1]
<1> DEFINE x == Path[b][i]
           y == Parent[x]
<1>1. x \in Blocks \ {Genesis} /\ y \in Blocks /\ Path[x] = SubSeq(Path[b], 1, i)
    BY PathOfAncestor, TreeAssumption
<1>2. Path[b] \in Seq(Blocks \ {Genesis}) /\ i \in 1 .. Len(Path[b]) /\ HeightOf(b) \in Nat
    BY PathFacts, HeightFacts DEF HeightOf
<1>3. Len(Path[x]) = i
    BY <1>1, <1>2
<1>4. HeightOf(y) = i - 1
    BY <1>1, <1>2, <1>3, HeightFacts DEF HeightOf
<1>5. CASE i = 1
  <2>1. y = Genesis
    BY <1>1, <1>4, <1>5, HeightFacts
  <2>2. QED
    BY <1>1, <1>3, <1>5, <2>1 DEF HeightOf
<1>6. CASE i # 1
  <2>1. i - 1 \in 1 .. Len(Path[b]) /\ i - 1 \in 1 .. i
    BY <1>2, <1>6
  <2>2. y # Genesis
    BY <1>2, <1>4, <1>6, HeightFacts
  <2>3. Path[y][i - 1] = y
    BY <1>1, <1>4, <2>2, HeightFacts
  <2>4. Path[x] = Append(Path[y], x) /\ Path[y] \in Seq(Blocks \ {Genesis})
    BY <1>1, PathFacts
  <2>5. Path[x][i - 1] = Path[y][i - 1]
    BY <1>4, <2>1, <2>4, AppendProperties DEF HeightOf
  <2>6. Path[x][i - 1] = Path[b][i - 1]
    BY <1>1, <1>2, <2>1
  <2>7. QED
    BY <1>1, <1>3, <1>6, <2>3, <2>5, <2>6 DEF HeightOf
<1>7. QED
    BY <1>5, <1>6

\* A chain that has a block of another one has all that are below it there.
LEMMA OnChainFacts ==
    ASSUME NEW c \in Blocks, NEW b \in Blocks, NEW i \in 1 .. HeightOf(b),
           OnChain(c, Path[b][i])
    PROVE  i <= HeightOf(c) /\ \A j \in 1 .. i : OnChain(c, Path[b][j])
<1> DEFINE x == Path[b][i]
<1>1. x \in Blocks \ {Genesis} /\ HeightOf(x) = i /\ Path[x] = SubSeq(Path[b], 1, i)
    BY PathOfAncestor, PathSteps
<1>2. /\ Path[b] \in Seq(Blocks \ {Genesis}) /\ Path[c] \in Seq(Blocks \ {Genesis})
      /\ i \in 1 .. Len(Path[b]) /\ Len(Path[b]) \in Nat /\ Len(Path[c]) \in Nat
    BY PathFacts DEF HeightOf
<1>3. PICK k \in 1 .. Len(Path[c]) : Path[c][k] = x
  <2>1. x \in Range(Path[c])
    BY <1>1 DEF OnChain
  <2>2. DOMAIN Path[c] = 1 .. Len(Path[c])
    BY <1>2
  <2> HIDE DEF x
  <2>3. QED
    BY <2>1, <2>2 DEF Range
<1>4. k = i /\ Path[x] = SubSeq(Path[c], 1, k)
    BY <1>1, <1>3, PathSteps, PathOfAncestor DEF HeightOf
<1>5. ASSUME NEW j \in 1 .. i PROVE OnChain(c, Path[b][j])
  <2>1. Path[b][j] = SubSeq(Path[b], 1, i)[j] /\ Path[c][j] = SubSeq(Path[c], 1, i)[j]
    BY <1>2, <1>3, <1>4
  <2>2. Path[b][j] = Path[c][j] /\ j \in DOMAIN Path[c]
    BY <1>1, <1>2, <1>3, <1>4, <2>1
  <2>3. QED
    BY <2>2 DEF OnChain, Range
<1>6. QED
    BY <1>3, <1>4, <1>5 DEF HeightOf

\* A batch is a piece of the chain that ends in top.
IsBatch(top, from, batch) ==
    /\ top \in Blocks /\ from \in Nat \ {0}
    /\ batch \in Seq(Blocks \ {Genesis}) /\ batch # <<>>
    /\ from + Len(batch) - 1 <= HeightOf(top)
    /\ \A i \in 1 .. Len(batch) : batch[i] = Path[top][from + i - 1]

LEMMA BatchFacts ==
    ASSUME NEW top, NEW from, NEW batch, IsBatch(top, from, batch), NEW i \in 1 .. Len(batch)
    PROVE  /\ batch[i] \in Blocks \ {Genesis} /\ HeightOf(batch[i]) = from + i - 1
           /\ from + i - 1 \in 1 .. HeightOf(top)
           /\ i > 1 => Parent[batch[i]] = batch[i - 1]
<1>1. /\ Len(batch) \in Nat \ {0} /\ from \in Nat \ {0} /\ top \in Blocks
      /\ from + i - 1 \in 1 .. HeightOf(top) /\ HeightOf(top) \in Nat
    BY HeightFacts, EmptySeq DEF IsBatch
<1>2. batch[i] = Path[top][from + i - 1]
    BY DEF IsBatch
<1>3. batch[i] \in Blocks \ {Genesis} /\ HeightOf(batch[i]) = from + i - 1
    BY <1>1, <1>2, PathSteps
<1>4. ASSUME i > 1 PROVE Parent[batch[i]] = batch[i - 1]
  <2>1. i - 1 \in 1 .. Len(batch) /\ from + (i - 1) - 1 = (from + i - 1) - 1 /\ from + i - 1 # 1
    BY <1>1, <1>4
  <2>2. batch[i - 1] = Path[top][(from + i - 1) - 1]
    BY <2>1 DEF IsBatch
  <2>3. Parent[Path[top][from + i - 1]] = Path[top][(from + i - 1) - 1]
    BY <1>1, <2>1, PathSteps
  <2>4. QED
    BY <1>2, <2>2, <2>3
<1>5. QED
    BY <1>1, <1>3, <1>4

LEMMA UnknownFacts ==
    ASSUME NEW c \in Blocks, NEW top, NEW from, NEW batch, IsBatch(top, from, batch)
    PROVE  \E k \in 0 .. Len(batch) :
              /\ Unknown(c, batch) \in Seq(Blocks \ {Genesis})
              /\ Len(Unknown(c, batch)) = Len(batch) - k
              /\ \A i \in 1 .. Len(batch) - k : Unknown(c, batch)[i] = batch[k + i]
              /\ k > 0 => OnChain(c, batch[k])
<1> DEFINE n == Len(batch)
           known == {i \in DOMAIN batch : OnChain(c, batch[i])}
           k == Leading(known, n)
<1>1. /\ n \in Nat \ {0} /\ DOMAIN batch = 1 .. n /\ from \in Nat \ {0} /\ top \in Blocks
      /\ batch \in Seq(Blocks \ {Genesis})
    BY EmptySeq DEF IsBatch
<1>2. k \in 0 .. n /\ 1 .. k \subseteq known /\ (k < n => k + 1 \notin known)
    BY <1>1, LeadingFacts
<1>6. Unknown(c, batch) = SubSeq(batch, Cardinality(known) + 1, n)
    BY DEF Unknown
<1> HIDE DEF k
<1>3. known \subseteq 1 .. k
  <2>1. SUFFICES ASSUME NEW i \in known, i > k PROVE FALSE
    BY <1>1, <1>2
  <2>2. i \in 1 .. n /\ OnChain(c, batch[i]) /\ batch[i] = Path[top][from + i - 1]
    BY <1>1 DEF IsBatch
  <2>3. from + i - 1 \in 1 .. HeightOf(top)
    BY <2>2, BatchFacts
  <2>4. \A j \in 1 .. from + i - 1 : OnChain(c, Path[top][j])
    BY <1>1, <2>2, <2>3, OnChainFacts
  <2>5. k + 1 \in 1 .. n /\ from + (k + 1) - 1 \in 1 .. from + i - 1
    BY <1>1, <1>2, <2>1, <2>2
  <2>6. batch[k + 1] = Path[top][from + (k + 1) - 1]
    BY <2>5 DEF IsBatch
  <2>7. OnChain(c, batch[k + 1])
    BY <2>4, <2>5, <2>6
  <2>8. QED
    BY <1>1, <1>2, <2>5, <2>7
<1>4. known = 1 .. k
    BY <1>2, <1>3
<1>5. Cardinality(known) = k
  <2>1. 1 \in Int /\ k \in Int
    BY <1>2
  <2>2. Cardinality(1 .. k) = IF 1 > k THEN 0 ELSE k - 1 + 1
    BY <2>1, FS_Interval
  <2>3. Cardinality(1 .. k) = k
    BY <1>2, <2>1, <2>2
  <2>4. QED
    BY <1>4, <2>3
<1>7. k > 0 => OnChain(c, batch[k])
    BY <1>1, <1>2
<1> HIDE DEF known
<1>8. /\ SubSeq(batch, k + 1, n) \in Seq(Blocks \ {Genesis})
      /\ Len(SubSeq(batch, k + 1, n)) = n - k
      /\ \A i \in 1 .. n - k : SubSeq(batch, k + 1, n)[i] = batch[k + i]
  <2> HIDE DEF n
  <2>1. k + 1 \in Int /\ n \in Int /\ n - (k + 1) + 1 = n - k /\ (k + 1 > n => n - k = 0)
    BY <1>1, <1>2
  <2>2. \A i \in k + 1 .. n : batch[i] \in Blocks \ {Genesis}
    BY <1>1, <1>2 DEF n
  <2>3. /\ SubSeq(batch, k + 1, n) \in Seq(Blocks \ {Genesis})
        /\ Len(SubSeq(batch, k + 1, n)) = IF k + 1 <= n THEN n - (k + 1) + 1 ELSE 0
        /\ \A i \in 1 .. n - (k + 1) + 1 : SubSeq(batch, k + 1, n)[i] = batch[k + 1 + i - 1]
    BY <2>1, <2>2, SubSeqProperties
  <2>4. \A i \in 1 .. n - k : k + 1 + i - 1 = k + i
    BY <2>1, <1>2
  <2>5. QED
    BY <1>2, <2>1, <2>3, <2>4
<1>9. QED
    BY <1>2, <1>5, <1>6, <1>7, <1>8

\* Blocks that are appended make the chain as much longer as they are many.
LEMMA AppendedFacts ==
    ASSUME NEW c \in Blocks, NEW bs \in Seq(Blocks \ {Genesis}), NEW missing
    PROVE  \E n \in 0 .. Len(bs) :
              /\ Appended(c, bs, missing) = IF n = 0 THEN c ELSE bs[n]
              /\ Appended(c, bs, missing) \in Blocks
              /\ HeightOf(Appended(c, bs, missing)) = HeightOf(c) + n
              /\ n > 0 => Parent[bs[1]] = c
<1> DEFINE Before(i) == IF i = 1 THEN c ELSE bs[i - 1]
           linked == {i \in 1 .. Len(bs) : 
                       Parent[bs[i]] = Before(i) /\ bs[i] \in Acceptable(missing)}
           n == Leading(linked, Len(bs))
<1>1. Len(bs) \in Nat /\ \A i \in 1 .. Len(bs) : bs[i] \in Blocks \ {Genesis}
    OBVIOUS
<1>2. /\ n \in 0 .. Len(bs) /\ 1 .. n \subseteq linked
      /\ n < Len(bs) => n + 1 \notin linked
    BY <1>1, LeadingFacts
<1>3. Appended(c, bs, missing) = IF n = 0 THEN c ELSE bs[n]
    BY DEF Appended
<1> HIDE DEF n
<1>4. ASSUME NEW i \in 1 .. n PROVE HeightOf(bs[i]) = HeightOf(c) + i
  <2> DEFINE Bad == {j \in 1 .. n : HeightOf(bs[j]) # HeightOf(c) + j}
  <2>1. SUFFICES ASSUME Bad # {} PROVE FALSE
    OBVIOUS
  <2>2. PICK j \in Bad : \A k \in Bad : j <= k
    <3>1. Bad \in SUBSET Nat
        BY <1>2
    <3>2. QED
        BY <2>1, <3>1, LeastNumber
  <2>3. j \in 1 .. n /\ j \in linked /\ bs[j] \in Blocks \ {Genesis}
    BY <1>1, <1>2
  <2>4. HeightOf(bs[j]) = HeightOf(Before(j)) + 1 /\ HeightOf(c) \in Nat
    BY <2>3, HeightFacts
  <2>5. CASE j = 1
    BY <2>2, <2>4, <2>5
  <2>6. CASE j # 1
    <3>1. j - 1 \in 1 .. n /\ j - 1 \notin Bad
        BY <1>2, <2>2, <2>3, <2>6
    <3>2. HeightOf(bs[j - 1]) = HeightOf(c) + (j - 1)
        BY <3>1
    <3>3. HeightOf(bs[j]) = HeightOf(c) + j
        BY <2>3, <2>4, <2>6, <3>2
    <3>4. QED
        BY <2>2, <3>3
  <2>7. QED
    BY <2>5, <2>6
<1>5. /\ HeightOf(Appended(c, bs, missing)) = HeightOf(c) + n
      /\ Appended(c, bs, missing) \in Blocks
  <2>1. HeightOf(c) \in Nat
    BY HeightFacts
  <2>2. CASE n = 0
    BY <1>3, <2>1, <2>2
  <2>3. CASE n # 0
    <3>1. n \in 1 .. n /\ n \in 1 .. Len(bs)
        BY <1>1, <1>2, <2>3
    <3>2. QED
        BY <1>1, <1>3, <1>4, <2>3, <3>1
  <2>4. QED
    BY <2>2, <2>3
<1>6. n > 0 => Parent[bs[1]] = c
    BY <1>2
<1>7. QED
    BY <1>2, <1>3, <1>5, <1>6

----------------------------------------------------------------------------
(* The state of the SyncManager *)

Entry == [height : Nat, retries : Nat, banned : BOOLEAN]
Session == [peer : Peers, current : Nat, target : Nat, status : {"Requesting", "Receiving"}]
Fields == {"peers", "session", "in_progress", "local_height"}

IsRecord(t) == t = [x \in Fields |-> t[x]]

\* A session is alive or gone (never Completed), has something left to ask for
\* and asks a timely peer for nothing that it does not have; tips are the chains
\* of the peers.
GoodSync(s, tips) ==
    /\ IsRecord(s)
    /\ Known(s) \subseteq Peers /\ s.peers \in [Known(s) -> Entry]
    /\ \A p \in Known(s) \cap Timely : s.peers[p].height <= HeightOf(tips[p])
    /\ s.local_height \in Nat /\ s.in_progress \in BOOLEAN
    /\ s.in_progress <=> s.session # NoSession
    /\ s.session # NoSession =>
          /\ s.session \in Session /\ s.session.current < s.session.target
          /\ s.session.peer \in Timely => s.session.target <= HeightOf(tips[s.session.peer])

LEMMA NotNoSession ==
    ASSUME NEW e \in Session
    PROVE  e # NoSession
<1>1. e.status # "None" /\ NoSession.status = "None"
    BY DEF Session, NoSession
<1>2. QED
    BY <1>1

LEMMA UpdatePeerGood ==
    ASSUME NEW tips \in [Peers -> Blocks], NEW s, GoodSync(s, tips), NEW p \in Peers,
           NEW h, h = HeightOf(tips[p]), NEW t, t = UpdatePeer(s, p, h)
    PROVE  /\ GoodSync(t, tips)
           /\ t.session = s.session /\ t.local_height = s.local_height
           /\ Known(t) = Known(s) \cup {p}
           /\ \A q \in Known(t) :
                 IF q \in Known(s)
                 THEN t.peers[q].retries = s.peers[q].retries /\ t.peers[q].banned = s.peers[q].banned
                 ELSE t.peers[q].retries = 0 /\ ~t.peers[q].banned
<1> DEFINE D == Known(s) \cup {p}
           new == IF p \in Known(s) THEN [s.peers[p] EXCEPT !.height = h]
                  ELSE [height |-> h, retries |-> 0, banned |-> FALSE]
           f == [q \in D |-> IF q # p THEN s.peers[q] ELSE new]
<1>1. h \in Nat
    BY HeightFacts
<1>2. /\ IsRecord(t) /\ t.peers = f
      /\ t.session = s.session /\ t.in_progress = s.in_progress /\ t.local_height = s.local_height
    BY DEF UpdatePeer, GoodSync, IsRecord, Fields
<1>3. /\ new \in Entry /\ new.height = h
      /\ p \in Known(s) => (new.retries = s.peers[p].retries /\ new.banned = s.peers[p].banned)
      /\ p \notin Known(s) => (new.retries = 0 /\ ~new.banned)
  <2>1. CASE p \in Known(s)
    <3>1. s.peers[p] \in Entry
        BY <2>1 DEF GoodSync
    <3>2. QED
        BY <1>1, <2>1, <3>1 DEF Entry
  <2>2. CASE p \notin Known(s)
    BY <1>1, <2>2 DEF Entry
  <2>3. QED
    BY <2>1, <2>2
<1> HIDE DEF new
<1>4. f \in [D -> Entry] /\ D \subseteq Peers
    BY <1>3 DEF GoodSync
<1>5. Known(t) = D
    BY <1>2 DEF Known
<1>6. \A q \in D \cap Timely : f[q].height <= HeightOf(tips[q])
  <2>1. f[p].height <= HeightOf(tips[p])
    BY <1>1, <1>3
  <2>2. QED
    BY <2>1 DEF GoodSync
<1>7. GoodSync(t, tips)
    BY <1>2, <1>4, <1>5, <1>6 DEF GoodSync
<1>8. \A q \in D :
         IF q \in Known(s)
         THEN f[q].retries = s.peers[q].retries /\ f[q].banned = s.peers[q].banned
         ELSE f[q].retries = 0 /\ ~f[q].banned
  <2>1. ASSUME NEW q \in D, q # p PROVE q \in Known(s) /\ f[q] = s.peers[q]
    BY <2>1
  <2>2. f[p] = new
    OBVIOUS
  <2> HIDE DEF f
  <2>3. QED
    BY <1>3, <2>1, <2>2
<1>9. QED
    BY <1>2, <1>5, <1>7, <1>8

LEMMA RemovePeerGood ==
    ASSUME NEW tips \in [Peers -> Blocks], NEW s, GoodSync(s, tips), NEW p \in Peers
    PROVE  LET t == RemovePeer(s, p)
           IN /\ GoodSync(t, tips)
              /\ t.session = s.session /\ t.local_height = s.local_height
              /\ Known(t) = Known(s) \ {p}
              /\ \A q \in Known(t) : t.peers[q] = s.peers[q]
<1> DEFINE t == RemovePeer(s, p)
           D == Known(s) \ {p}
<1>1. /\ IsRecord(t) /\ t.peers = [q \in D |-> s.peers[q]]
      /\ t.session = s.session /\ t.in_progress = s.in_progress /\ t.local_height = s.local_height
    BY DEF RemovePeer, GoodSync, IsRecord, Fields
<1> HIDE DEF t
<1>2. t.peers \in [D -> Entry] /\ Known(t) = D /\ D \subseteq Peers
    BY <1>1 DEF GoodSync, Known
<1>3. GoodSync(t, tips)
    BY <1>1, <1>2 DEF GoodSync
<1>4. QED
    BY <1>1, <1>2, <1>3 DEF t

LEMMA EndedGood ==
    ASSUME NEW tips \in [Peers -> Blocks], NEW s, GoodSync(s, tips)
    PROVE  /\ GoodSync(Ended(s), tips)
           /\ Ended(s).session = NoSession /\ Ended(s).local_height = s.local_height
           /\ Ended(s).peers = s.peers /\ Known(Ended(s)) = Known(s)
<1> DEFINE t == Ended(s)
<1>1. /\ IsRecord(t) /\ t.peers = s.peers
      /\ t.session = NoSession /\ t.in_progress = FALSE /\ t.local_height = s.local_height
    BY DEF Ended, GoodSync, IsRecord, Fields
<1> HIDE DEF t
<1>2. Known(t) = Known(s)
    BY <1>1 DEF Known
<1>3. GoodSync(t, tips)
    BY <1>1, <1>2 DEF GoodSync
<1>4. QED
    BY <1>1, <1>2, <1>3 DEF t

LEMMA HeightSetGood ==
    ASSUME NEW tips \in [Peers -> Blocks], NEW s, GoodSync(s, tips), NEW h \in Nat
    PROVE  LET t == [s EXCEPT !.local_height = h]
           IN /\ GoodSync(t, tips) /\ t.session = s.session /\ t.local_height = h
              /\ t.peers = s.peers /\ Known(t) = Known(s)
<1> DEFINE t == [s EXCEPT !.local_height = h]
<1>1. /\ IsRecord(t) /\ t.peers = s.peers
      /\ t.session = s.session /\ t.in_progress = s.in_progress /\ t.local_height = h
    BY DEF GoodSync, IsRecord, Fields
<1> HIDE DEF t
<1>2. Known(t) = Known(s)
    BY <1>1 DEF Known
<1>3. GoodSync(t, tips)
    BY <1>1, <1>2 DEF GoodSync
<1>4. QED
    BY <1>1, <1>2, <1>3 DEF t

\* Another height and another status for a session.
MovedTo(e, h) == [e EXCEPT !.current = h, !.status = "Requesting"]

LEMMA SessionMoved ==
    ASSUME NEW tips \in [Peers -> Blocks], NEW s, GoodSync(s, tips), s.session # NoSession,
           NEW t, IsRecord(t), t.peers = s.peers, t.local_height = s.local_height,
           t.in_progress = s.in_progress, NEW h \in Nat, h < s.session.target,
           t.session = MovedTo(s.session, h)
    PROVE  /\ GoodSync(t, tips) /\ Known(t) = Known(s)
           /\ t.session # NoSession /\ t.session.peer = s.session.peer
           /\ t.session.current = h /\ t.session.status = "Requesting"
<1> DEFINE e == s.session
           f == [e EXCEPT !.current = h]
<1>1. e \in Session
    BY DEF GoodSync
<1>2. f \in Session /\ f.current = h /\ f.peer = e.peer /\ f.target = e.target
    BY <1>1 DEF Session
<1>3. t.session = [f EXCEPT !.status = "Requesting"]
    BY DEF MovedTo
<1> HIDE DEF f
<1>4. /\ t.session \in Session /\ t.session.current = h /\ t.session.peer = e.peer
      /\ t.session.target = e.target /\ t.session.status = "Requesting"
    BY <1>2, <1>3 DEF Session
<1>5. Known(t) = Known(s) /\ t.session # NoSession
    BY <1>4, NotNoSession DEF Known
<1>6. GoodSync(t, tips)
    BY <1>4, <1>5 DEF GoodSync
<1>7. QED
    BY <1>4, <1>5, <1>6

LEMMA RestartedGood ==
    ASSUME NEW tips \in [Peers -> Blocks], NEW s, GoodSync(s, tips)
    PROVE  LET t == Restarted(s, 0)
           IN /\ GoodSync(t, tips) /\ t.local_height = s.local_height
              /\ t.peers = s.peers /\ Known(t) = Known(s)
              /\ s.session = NoSession <=> t.session = NoSession
              /\ s.session # NoSession =>
                    /\ t.session.peer = s.session.peer /\ t.session.current = 0
                    /\ t.session.status = "Requesting"
<1>1. CASE s.session = NoSession
    BY <1>1 DEF Restarted
<1>2. CASE s.session # NoSession
  <2> DEFINE t == Restarted(s, 0)
  <2>1. /\ IsRecord(t) /\ t.peers = s.peers
        /\ t.session = MovedTo(s.session, 0)
        /\ t.in_progress = s.in_progress /\ t.local_height = s.local_height
    BY <1>2 DEF Restarted, MovedTo, GoodSync, IsRecord, Fields
  <2>2. 0 < s.session.target /\ 0 \in Nat
    BY <1>2 DEF GoodSync, Session
  <2> HIDE DEF t
  <2>3. /\ GoodSync(t, tips) /\ Known(t) = Known(s)
        /\ t.session # NoSession /\ t.session.peer = s.session.peer
        /\ t.session.current = 0 /\ t.session.status = "Requesting"
    BY <1>2, <2>1, <2>2, SessionMoved
  <2>4. QED
    BY <1>2, <2>1, <2>3 DEF t
<1>3. QED
    BY <1>1, <1>2

LEMMA RolledGood ==
    ASSUME NEW tips \in [Peers -> Blocks], NEW s, GoodSync(s, tips)
    PROVE  LET t == RolledBack(s)
           IN /\ GoodSync(t, tips) /\ t.local_height = 0
              /\ t.peers = s.peers /\ Known(t) = Known(s)
              /\ s.session = NoSession <=> t.session = NoSession
              /\ s.session # NoSession =>
                    /\ t.session.peer = s.session.peer /\ t.session.current = 0
                    /\ t.session.status = "Requesting"
<1> DEFINE r == Restarted(s, 0)
<1>1. /\ GoodSync(r, tips) /\ r.peers = s.peers /\ Known(r) = Known(s)
      /\ s.session = NoSession <=> r.session = NoSession
      /\ s.session # NoSession =>
            /\ r.session.peer = s.session.peer /\ r.session.current = 0
            /\ r.session.status = "Requesting"
    BY RestartedGood
<1> HIDE DEF r
<1>2. QED
    BY <1>1, HeightSetGood DEF RolledBack, r

LEMMA ReceivedGood ==
    ASSUME NEW tips \in [Peers -> Blocks], NEW s, GoodSync(s, tips),
           NEW p \in Peers, NEW n \in Nat
    PROVE  LET t == Received(s, p, n)
           IN /\ GoodSync(t, tips) /\ t.local_height = s.local_height /\ Known(t) = Known(s)
              /\ \A q \in Known(s) :
                    /\ t.peers[q].banned <=> s.peers[q].banned
                    /\ t.peers[q].retries \in {0, s.peers[q].retries}
              /\ s.session # NoSession /\ s.session.peer = p =>
                    \/ t.session = NoSession
                    \/ /\ t.session # NoSession /\ t.session.status = "Requesting"
                       /\ t.session.peer = p /\ t.session.current = s.session.current + n
              /\ s.session = NoSession \/ s.session.peer # p => t = s
<1>1. CASE s.session = NoSession \/ s.session.peer # p
  <2>1. Received(s, p, n) = s
    BY <1>1 DEF Received
  <2>2. QED
    BY <1>1, <2>1
<1>2. CASE s.session # NoSession /\ s.session.peer = p /\ n = 0
  <2>1. Received(s, p, n) = Ended(s)
    BY <1>2 DEF Received
  <2>2. QED
    BY <1>2, <2>1, EndedGood
<1>3. CASE s.session # NoSession /\ s.session.peer = p /\ n # 0
  <2> DEFINE current == s.session.current + n
             r == IF p \in Known(s) THEN [s EXCEPT !.peers[p].retries = 0] ELSE s
             t == Received(s, p, n)
  <2>1. /\ IsRecord(r) /\ r.session = s.session
        /\ r.in_progress = s.in_progress /\ r.local_height = s.local_height
        /\ r.peers = IF p \in Known(s) THEN [s.peers EXCEPT ![p] = [@ EXCEPT !.retries = 0]]
                     ELSE s.peers
    BY DEF GoodSync, IsRecord, Fields
  <2>2. t = IF current >= s.session.target THEN Ended(r)
            ELSE [r EXCEPT !.session.current = current, !.session.status = "Requesting"]
    BY <1>3 DEF Received
  <2> HIDE DEF r
  <2>3. /\ Known(r) = Known(s) /\ r.peers \in [Known(s) -> Entry]
        /\ \A q \in Known(s) :
              /\ r.peers[q].banned = s.peers[q].banned /\ r.peers[q].height = s.peers[q].height
              /\ r.peers[q].retries \in {0, s.peers[q].retries}
    <3>1. CASE p \in Known(s)
      <4> DEFINE e == [s.peers[p] EXCEPT !.retries = 0]
      <4>1. s.peers \in [Known(s) -> Entry] /\ s.peers[p] \in Entry
          BY <3>1 DEF GoodSync
      <4>2. /\ e \in Entry /\ e.retries = 0 /\ e.banned = s.peers[p].banned
            /\ e.height = s.peers[p].height
          BY <4>1 DEF Entry
      <4>3. r.peers = [s.peers EXCEPT ![p] = e]
          BY <2>1, <3>1, <4>1
      <4> HIDE DEF e
      <4>4. QED
          BY <4>1, <4>2, <4>3 DEF Known
    <3>2. CASE p \notin Known(s)
        BY <2>1, <3>2 DEF GoodSync, Known
    <3>3. QED
        BY <3>1, <3>2
  <2>4. GoodSync(r, tips)
    BY <2>1, <2>3 DEF GoodSync
  <2>5. current \in Nat
    BY <1>3 DEF GoodSync, Session
  <2>6. CASE current >= s.session.target
    <3>1. t = Ended(r)
        BY <2>2, <2>6
    <3>2. /\ GoodSync(t, tips) /\ t.session = NoSession /\ t.local_height = s.local_height
          /\ t.peers = r.peers /\ Known(t) = Known(s)
        BY <2>1, <2>3, <2>4, <3>1, EndedGood
    <3> HIDE DEF t
    <3>3. QED
        BY <1>3, <2>3, <3>2 DEF t
  <2>7. CASE ~(current >= s.session.target)
    <3>1. current < s.session.target
        BY <1>3, <2>5, <2>7 DEF GoodSync, Session
    <3>2. t = [r EXCEPT !.session.current = current, !.session.status = "Requesting"]
        BY <2>2, <2>7
    <3> HIDE DEF t, current
    <3>3. /\ IsRecord(t) /\ t.peers = r.peers
          /\ t.session = MovedTo(r.session, current)
          /\ t.in_progress = r.in_progress /\ t.local_height = r.local_height
        BY <2>1, <2>4, <3>2 DEF MovedTo, GoodSync, IsRecord, Fields
    <3>4. /\ GoodSync(t, tips) /\ Known(t) = Known(r) /\ t.session # NoSession
          /\ t.session.peer = p /\ t.session.current = current
          /\ t.session.status = "Requesting"
      <4>1. r.session # NoSession /\ current \in Nat /\ current < r.session.target
          BY <1>3, <2>1, <2>5, <3>1 DEF current
      <4>2. /\ GoodSync(t, tips) /\ Known(t) = Known(r) /\ t.session # NoSession
            /\ t.session.peer = r.session.peer /\ t.session.current = current
            /\ t.session.status = "Requesting"
          BY <2>4, <3>3, <4>1, SessionMoved
      <4>3. QED
          BY <1>3, <2>1, <4>2
    <3>5. QED
        BY <1>3, <2>1, <2>3, <3>3, <3>4 DEF t, current
  <2>8. QED
    BY <2>6, <2>7
<1>4. QED
    BY <1>1, <1>2, <1>3

LEMMA StartedGood ==
    ASSUME NEW tips \in [Peers -> Blocks], NEW s, GoodSync(s, tips), NEW t \in Started(s)
    PROVE  /\ GoodSync(t, tips) /\ t.local_height = s.local_height
           /\ t.peers = s.peers /\ Known(t) = Known(s)
           /\ t = s \/ ( /\ s.session = NoSession /\ t.session # NoSession
                       /\ t.session.current = s.local_height /\ t.session.status = "Requesting" )
<1>1. CASE t = s
    BY <1>1
<1>2. CASE t # s
  <2>1. PICK p \in BestPeers(s) :
           t = [s EXCEPT !.session = [peer |-> p, current |-> s.local_height,
                                      target |-> s.peers[p].height, status |-> "Requesting"],
                         !.in_progress = TRUE]
    BY <1>2 DEF Started
  <2>2. s.session = NoSession
    BY <1>2 DEF Started, GoodSync
  <2>3. /\ p \in Known(s) /\ p \in Peers /\ s.peers[p].height > s.local_height
        /\ s.peers[p] \in Entry /\ s.local_height \in Nat
        /\ p \in Timely => s.peers[p].height <= HeightOf(tips[p])
    BY DEF BestPeers, Ahead, Usable, GoodSync
  <2> DEFINE e == [peer |-> p, current |-> s.local_height,
                   target |-> s.peers[p].height, status |-> "Requesting"]
  <2>4. /\ e \in Session /\ e.current = s.local_height /\ e.target = s.peers[p].height
        /\ e.peer = p /\ e.status = "Requesting"
    BY <2>3 DEF Session, Entry
  <2> HIDE DEF e
  <2>5. /\ IsRecord(t) /\ t.peers = s.peers /\ t.local_height = s.local_height
        /\ t.session = e /\ t.in_progress = TRUE
    BY <2>1 DEF GoodSync, IsRecord, Fields, e
  <2>6. Known(t) = Known(s) /\ t.session # NoSession
    BY <2>4, <2>5, NotNoSession DEF Known
  <2>7. e.current < e.target /\ (e.peer \in Timely => e.target <= HeightOf(tips[e.peer]))
    BY <2>3, <2>4 DEF Entry
  <2>8. GoodSync(t, tips)
    BY <2>4, <2>5, <2>6, <2>7 DEF GoodSync
  <2>9. QED
    BY <2>2, <2>4, <2>5, <2>6, <2>8
<1>3. QED
    BY <1>1, <1>2

LEMMA NothingCompleted ==
    ASSUME NEW tips, NEW s, GoodSync(s, tips)
    PROVE  /\ CheckTimeouts(s, FALSE) = s
           /\ CheckTimeouts(s, TRUE) = IF s.session = NoSession THEN s ELSE TimedOut(s)
BY DEF CheckTimeouts, GoodSync, Session

LEMMA TimedOutGood ==
    ASSUME NEW tips \in [Peers -> Blocks], NEW s, GoodSync(s, tips), s.session # NoSession
    PROVE  LET t == TimedOut(s)
           IN /\ GoodSync(t, tips) /\ t.session = NoSession
              /\ t.local_height = s.local_height /\ Known(t) = Known(s)
              /\ \A q \in Known(s) :
                    IF q = s.session.peer
                    THEN /\ t.peers[q].retries = s.peers[q].retries + 1
                         /\ t.peers[q].banned <=> (s.peers[q].banned \/ s.peers[q].retries + 1 >= MaxRetries)
                    ELSE t.peers[q] = s.peers[q]
<1> DEFINE p == s.session.peer
           t == TimedOut(s)
<1>1. CASE p \notin Known(s)
  <2>1. t = Ended(s)
    BY <1>1 DEF TimedOut
  <2>2. /\ GoodSync(t, tips) /\ t.session = NoSession
        /\ t.local_height = s.local_height /\ t.peers = s.peers /\ Known(t) = Known(s)
    BY <2>1, EndedGood
  <2> HIDE DEF t
  <2>3. QED
    BY <1>1, <2>2 DEF t
<1>2. CASE p \in Known(s)
  <2> DEFINE n == s.peers[p].retries + 1
             b == (s.peers[p].banned \/ s.peers[p].retries + 1 >= MaxRetries)
             e == [s.peers[p] EXCEPT !.retries = n, !.banned = b]
             r == [s EXCEPT !.peers = [@ EXCEPT ![p] = e]]
  <2>1. s.peers[p] \in Entry /\ s.peers \in [Known(s) -> Entry]
    BY <1>2 DEF GoodSync
  <2>2. t = Ended(r)
    BY <1>2, <2>1 DEF TimedOut, GoodSync, IsRecord, Fields, Entry
  <2>3. n \in Nat /\ b \in BOOLEAN
    BY <2>1 DEF Entry
  <2> HIDE DEF n, b
  <2>4. e \in Entry /\ e.retries = n /\ e.banned = b /\ e.height = s.peers[p].height
    <3> DEFINE f == [s.peers[p] EXCEPT !.retries = n]
    <3>1. f \in Entry /\ f.retries = n /\ f.height = s.peers[p].height
        BY <2>1, <2>3 DEF Entry
    <3>2. e = [f EXCEPT !.banned = b]
        OBVIOUS
    <3> HIDE DEF f
    <3>3. QED
        BY <2>3, <3>1, <3>2 DEF Entry
  <2> HIDE DEF e
  <2>5. /\ IsRecord(r) /\ r.session = s.session /\ r.in_progress = s.in_progress
        /\ r.local_height = s.local_height /\ r.peers = [s.peers EXCEPT ![p] = e]
    BY DEF GoodSync, IsRecord, Fields
  <2> HIDE DEF r
  <2>6. /\ Known(r) = Known(s) /\ r.peers \in [Known(s) -> Entry]
        /\ r.peers[p] = e /\ \A q \in Known(s) : q # p => r.peers[q] = s.peers[q]
    BY <1>2, <2>1, <2>4, <2>5 DEF Known
  <2>7. GoodSync(r, tips)
    <3>1. \A q \in Known(r) \cap Timely : r.peers[q].height <= HeightOf(tips[q])
        BY <1>2, <2>4, <2>6 DEF GoodSync
    <3>2. QED
        BY <2>5, <2>6, <3>1 DEF GoodSync
  <2>8. /\ GoodSync(t, tips) /\ t.session = NoSession
        /\ t.local_height = s.local_height /\ t.peers = r.peers /\ Known(t) = Known(s)
    BY <2>2, <2>5, <2>6, <2>7, EndedGood
  <2> HIDE DEF t
  <2>9. t.peers[p].retries = n /\ t.peers[p].banned = b
    BY <2>4, <2>6, <2>8
  <2>10. QED
    BY <1>2, <2>6, <2>8, <2>9 DEF t, n, b
<1>3. QED
    BY <1>1, <1>2

LEMMA RequestGood ==
    ASSUME NEW tips \in [Peers -> Blocks], NEW s, GoodSync(s, tips), MayRequest(s)
    PROVE  LET t == Request(s)
           IN /\ HasMore(s) /\ GoodSync(t, tips) /\ t.local_height = s.local_height
              /\ t.peers = s.peers /\ Known(t) = Known(s)
              /\ IF s.session.peer \in Usable(s)
                 THEN /\ t.session # NoSession /\ t.session.status = "Receiving"
                      /\ t.session.peer = s.session.peer
                      /\ t.session.current = s.session.current
                 ELSE t.session = NoSession
<1> DEFINE t == Request(s)
<1>1. s.session # NoSession /\ s.session \in Session /\ HasMore(s)
    BY DEF MayRequest, GoodSync, HasMore, From, Session
<1>2. CASE s.session.peer \in Usable(s)
  <2> DEFINE e == [s.session EXCEPT !.status = "Receiving"]
  <2>1. t = [s EXCEPT !.session.status = "Receiving"]
    BY <1>1, <1>2 DEF Request
  <2>2. /\ e \in Session /\ e.status = "Receiving" /\ e.peer = s.session.peer
        /\ e.current = s.session.current /\ e.target = s.session.target
    BY <1>1 DEF Session
  <2>3. /\ IsRecord(t) /\ t.session = e /\ t.in_progress = s.in_progress
        /\ t.local_height = s.local_height /\ t.peers = s.peers
    BY <2>1 DEF GoodSync, IsRecord, Fields
  <2> HIDE DEF t, e
  <2>4. Known(t) = Known(s) /\ t.session # NoSession
    BY <2>2, <2>3, NotNoSession DEF Known
  <2>5. GoodSync(t, tips)
    BY <1>1, <2>2, <2>3, <2>4 DEF GoodSync
  <2>6. QED
    BY <1>1, <1>2, <2>2, <2>3, <2>4, <2>5 DEF t
<1>3. CASE s.session.peer \notin Usable(s)
  <2>1. t = Ended(s)
    BY <1>1, <1>3 DEF Request
  <2>2. QED
    BY <1>1, <1>3, <2>1, EndedGood
<1>4. QED
    BY <1>2, <1>3

Asked == [from : Nat \ {0}, count : Nat \ {0}]

LEMMA SentGood ==
    ASSUME NEW tips \in [Peers -> Blocks], NEW s, GoodSync(s, tips), MayRequest(s),
           pending \in [Peers -> Seq(Asked)]
    PROVE  IF s.session.peer \in Usable(s)
           THEN \E r \in Asked :
                   /\ r.from = s.session.current + 1
                   /\ s.session.peer \in Timely => r.from <= HeightOf(tips[s.session.peer])
                   /\ Sent(s) = [pending EXCEPT ![s.session.peer] = Append(@, r)]
           ELSE Sent(s) = pending
<1>1. HasMore(s) /\ s.session \in Session
    BY RequestGood DEF MayRequest, GoodSync
<1>2. CASE s.session.peer \in Usable(s)
  <2> DEFINE p == s.session.peer
             last == IF From(s) + BatchSize - 1 < s.peers[p].height
                     THEN From(s) + BatchSize - 1 ELSE s.peers[p].height
             count == IF last < From(s) THEN 1 ELSE last - From(s) + 1
             r == [from |-> From(s), count |-> count]
  <2>1. Sent(s) = [pending EXCEPT ![p] = Append(@, r)]
    BY <1>1, <1>2 DEF Sent
  <2>2. From(s) \in Nat \ {0} /\ From(s) = s.session.current + 1
    BY <1>1 DEF From, Session
  <2>3. p \in Timely => From(s) <= HeightOf(tips[p])
    <3>1. p \in Timely => From(s) <= s.session.target /\ s.session.target <= HeightOf(tips[p])
        BY <1>1 DEF HasMore, MayRequest, GoodSync
    <3>2. s.session.target \in Nat /\ p \in Peers /\ HeightOf(tips[p]) \in Nat
        BY <1>1, HeightFacts DEF Session
    <3>3. QED
        BY <2>2, <3>1, <3>2
  <2>4. count \in Nat \ {0}
    <3>1. s.peers[p].height \in Nat
      <4>1. s.peers[p] \in Entry
          BY <1>2 DEF Usable, GoodSync
      <4>2. QED
          BY <4>1 DEF Entry
    <3>2. last \in Int
        BY <2>2, <3>1, SyncAssumption
    <3> HIDE DEF last
    <3>3. QED
        BY <2>2, <3>2
  <2> HIDE DEF count
  <2>5. r \in Asked /\ r.from = From(s)
    BY <2>2, <2>4 DEF Asked
  <2> HIDE DEF r
  <2>6. QED
    BY <1>2, <2>1, <2>2, <2>3, <2>5
<1>3. CASE s.session.peer \notin Usable(s)
    BY <1>3 DEF Sent
<1>4. QED
    BY <1>2, <1>3

----------------------------------------------------------------------------
(* What a batch does *)

LEMMA Handled ==
    ASSUME NEW p \in Peers, tip \in Blocks, NEW top, NEW from, NEW batch,
           IsBatch(top, from, batch), HandleBlocks(p, batch)
    PROVE  /\ tip' \in Blocks
           /\ \E s : /\ (s = sync /\ HeightOf(tip) <= HeightOf(tip')) \/ s = RolledBack(sync)
                     /\ \/ /\ sync' = Received([s EXCEPT !.local_height = HeightOf(tip')],
                                               p, Len(batch))
                           /\ conn' = conn /\ from + Len(batch) - 1 <= HeightOf(tip')
                        \/ sync' = Restarted(s, 0) /\ conn' = conn
                        \/ sync' = s /\ conn' = [conn EXCEPT ![p] = "banned"]
<1> DEFINE n == Len(batch)
           new == Unknown(tip, batch)
           base == IF new # <<>> /\ Parent[Head(new)] # tip THEN Genesis ELSE tip
           t == Appended(base, new, LostBy(base))
           s == IF base = tip THEN sync ELSE RolledBack(sync)
           accepted == new # <<>> => t = Last(new)
           race == new # <<>> => Parent[Head(new)] # base
           Before(j) == IF j = 0 THEN base ELSE new[j]
<1>1. /\ tip' = t
      /\ \/ /\ accepted /\ conn' = conn
            /\ sync' = Received([s EXCEPT !.local_height = HeightOf(t)], p, n)
         \/ ~accepted /\ race /\ sync' = Restarted(s, HeightOf(t)) /\ conn' = conn
         \/ ~accepted /\ ~race /\ sync' = s /\ conn' = [conn EXCEPT ![p] = "banned"]
    BY DEF HandleBlocks
<1>2. /\ n \in Nat \ {0} /\ from \in Nat \ {0} /\ top \in Blocks
      /\ batch \in Seq(Blocks \ {Genesis}) /\ base \in Blocks
    BY EmptySeq, TreeAssumption DEF IsBatch
<1>3. PICK k \in 0 .. n :
         /\ new \in Seq(Blocks \ {Genesis}) /\ Len(new) = n - k
         /\ \A i \in 1 .. n - k : new[i] = batch[k + i]
         /\ k > 0 => OnChain(tip, batch[k])
    BY UnknownFacts
<1>4. base = IF new # <<>> /\ Parent[Head(new)] # tip THEN Genesis ELSE tip
    OBVIOUS
<1> HIDE DEF new, base
<1>5. PICK m \in 0 .. Len(new) :
         /\ t = Before(m) /\ t \in Blocks /\ HeightOf(t) = HeightOf(base) + m
         /\ m > 0 => Parent[new[1]] = base
    BY <1>2, <1>3, AppendedFacts
<1> HIDE DEF t
<1>6. new # <<>> => Len(new) \in Nat \ {0} /\ Head(new) = new[1] /\ Last(new) = new[n - k]
    BY <1>2, <1>3, EmptySeq DEF Last
<1>7. (s = sync /\ HeightOf(tip) <= HeightOf(t)) \/ s = RolledBack(sync)
    BY <1>2, <1>5, HeightFacts
<1>8. ASSUME accepted PROVE from + n - 1 <= HeightOf(t)
  <2>1. CASE new = <<>>
    <3>1. k = n /\ base = tip /\ m = 0
        BY <1>2, <1>3, <1>4, <1>5, <2>1
    <3>2. OnChain(tip, Path[top][from + n - 1]) /\ from + n - 1 \in 1 .. HeightOf(top)
        BY <1>2, <1>3, <3>1, BatchFacts DEF IsBatch
    <3>3. from + n - 1 <= HeightOf(tip)
        BY <1>2, <3>2, OnChainFacts
    <3>4. QED
        BY <1>5, <3>1, <3>3
  <2>2. CASE new # <<>>
    <3>1. n - k \in 1 .. n - k /\ k + (n - k) = n /\ n \in 1 .. n
        BY <1>2, <1>3, <1>6, <2>2
    <3>2. t = batch[n]
        BY <1>3, <1>6, <1>8, <2>2, <3>1
    <3>3. HeightOf(batch[n]) = from + n - 1
        BY <3>1, BatchFacts
    <3>4. QED
        BY <1>2, <3>2, <3>3
  <2>3. QED
    BY <2>1, <2>2
<1>9. ASSUME ~accepted, race PROVE HeightOf(t) = 0
  <2>1. new # <<>> /\ Parent[new[1]] # base /\ base = Genesis
    BY <1>4, <1>6, <1>9
  <2>2. m = 0
    BY <1>3, <1>5, <2>1
  <2>3. QED
    BY <1>5, <2>1, <2>2, HeightFacts
<1> HIDE DEF s, accepted, race
<1>10. QED
    BY <1>1, <1>5, <1>7, <1>8, <1>9

\* A batch without blocks changes nothing but the session.
LEMMA HandledEmpty ==
    ASSUME NEW p \in Peers, tip \in Blocks, HandleBlocks(p, <<>>)
    PROVE  /\ tip' = tip /\ conn' = conn
           /\ sync' = Received([sync EXCEPT !.local_height = HeightOf(tip')], p, 0)
<1> DEFINE new == Unknown(tip, <<>>)
           t == Appended(tip, <<>>, LostBy(tip))
<1>1. new = <<>>
  <2>1. {i \in DOMAIN <<>> : OnChain(tip, <<>>[i])} = {}
    OBVIOUS
  <2>2. Cardinality({}) = 0
    BY FS_EmptySet
  <2>3. new = SubSeq(<<>>, 1, 0)
    BY <2>1, <2>2 DEF Unknown
  <2>4. QED
    BY <2>3
<1> HIDE DEF new
<1>2. t = tip
  <2> DEFINE e == <<>>
             missing == LostBy(tip)
  <2>1. e \in Seq(Blocks \ {Genesis}) /\ Len(e) = 0
    OBVIOUS
  <2>2. t = Appended(tip, e, missing)
    OBVIOUS
  <2> HIDE DEF e, t, missing
  <2>3. \E n \in 0 .. Len(e) :
           /\ Appended(tip, e, missing) = IF n = 0 THEN tip ELSE e[n]
           /\ Appended(tip, e, missing) \in Blocks
           /\ HeightOf(Appended(tip, e, missing)) = HeightOf(tip) + n
           /\ n > 0 => Parent[e[1]] = tip
    BY <2>1, AppendedFacts, Zenon
  <2>4. QED
    BY <2>1, <2>2, <2>3
<1> HIDE DEF t
<1>3. /\ tip' = t /\ conn' = conn
      /\ sync' = Received([sync EXCEPT !.local_height = HeightOf(t)], p, Len(<<>>))
    BY <1>1 DEF HandleBlocks, new, t
<1>4. QED
    BY <1>2, <1>3

----------------------------------------------------------------------------
(* The inductive invariant *)

TypeInv ==
    /\ tip \in Blocks /\ conn \in [Peers -> {"open", "banned", "closed"}]
    /\ pending \in [Peers -> Seq(Asked)] /\ peerTip \in [Peers -> Blocks]
    /\ late \in Nat /\ switches \in Nat /\ uninvited \in Nat /\ (lost => switches > 0)

\* A timely peer was only ever asked for blocks that it has.
AskedInv ==
    \A p \in Timely : \A i \in 1 .. Len(pending[p]) : pending[p][i].from <= HeightOf(peerTip[p])

Waiting(p) ==
    sync.session # NoSession /\ sync.session.peer = p /\ sync.session.status = "Receiving"

\* The SyncManager knows a timely peer only while it is connected; one timeout
\* may be counted for it, and then a session that waits for it waits for an
\* answer that comes, or the connection is banned and the peer forgotten.
TimelyInv ==
    \A p \in Timely \cap Known(sync) :
        /\ conn[p] # "closed" /\ ~sync.peers[p].banned /\ sync.peers[p].retries <= 1
        /\ Waiting(p) /\ sync.peers[p].retries = 1 => pending[p] # <<>> \/ conn[p] = "banned"

\* While no answer is late, the only request under way is that of the session.
AheadInv ==
    late = 0 /\ switches = 0 /\ uninvited = 0 =>
        /\ sync.session # NoSession => sync.session.current <= Height
        /\ \A p \in Peers :
              pending[p] # <<>> =>
                 /\ Len(pending[p]) = 1 /\ Waiting(p)
                 /\ pending[p][1].from = sync.session.current + 1

SyncInv ==
    /\ TypeInv /\ GoodSync(sync, peerTip) /\ AskedInv
    /\ TimelyInv /\ NeverBlind /\ AheadInv

----------------------------------------------------------------------------
(* Every action preserves the invariant *)

LEMMA InitGood == Init => SyncInv
<1> SUFFICES ASSUME Init PROVE SyncInv
    OBVIOUS
<1>1. /\ peerTip \in [Peers -> Blocks] /\ pending = [p \in Peers |-> <<>>]
      /\ \A p \in Peers : pending[p] = <<>> /\ conn[p] = "open"
    BY SyncAssumption DEF Init
<1>2. TypeInv
    BY <1>1, TreeAssumption, EmptySeq DEF Init, TypeInv
<1>3. GoodSync(sync, peerTip) /\ Known(sync) = {} /\ sync.session = NoSession
  <2>1. sync = [peers |-> <<>>, session |-> NoSession, in_progress |-> FALSE, local_height |-> 0]
    BY DEF Init
  <2>2. IsRecord(sync) /\ Known(sync) = {} /\ sync.peers = <<>>
    BY <2>1 DEF IsRecord, Fields, Known
  <2>3. sync.peers \in [Known(sync) -> Entry]
    BY <2>2
  <2>4. QED
    BY <2>1, <2>2, <2>3 DEF GoodSync
<1>4. AskedInv
    BY <1>1, SyncAssumption DEF AskedInv
<1>5. TimelyInv
    BY <1>3 DEF TimelyInv
<1>6. NeverBlind
    BY HeightFacts, TreeAssumption DEF NeverBlind, Height, Init
<1>7. AheadInv
    BY <1>1, <1>3 DEF AheadInv
<1>8. QED
    BY <1>2, <1>3, <1>4, <1>5, <1>6, <1>7 DEF SyncInv

\* What is true of the timely peers' chains stays true while they get no lower.
LEMMA TipsGrow ==
    ASSUME NEW a \in [Peers -> Blocks], NEW b \in [Peers -> Blocks],
           \A q \in Timely : HeightOf(a[q]) <= HeightOf(b[q]),
           NEW s, GoodSync(s, a)
    PROVE  GoodSync(s, b)
<1>1. \A q \in Peers : HeightOf(a[q]) \in Nat /\ HeightOf(b[q]) \in Nat
    BY HeightFacts
<1>2. \A q \in Known(s) : s.peers[q].height \in Nat /\ q \in Peers
  <2>1. \A q \in Known(s) : s.peers[q] \in Entry /\ q \in Peers
    BY DEF GoodSync
  <2>2. QED
    BY <2>1 DEF Entry
<1>3. \A q \in Known(s) \cap Timely : s.peers[q].height <= HeightOf(b[q])
    BY <1>1, <1>2 DEF GoodSync
<1>4. s.session # NoSession /\ s.session.peer \in Timely =>
         s.session.target <= HeightOf(b[s.session.peer])
  <2>1. SUFFICES ASSUME s.session # NoSession, s.session.peer \in Timely
                 PROVE s.session.target <= HeightOf(b[s.session.peer])
    OBVIOUS
  <2>2. /\ s.session.peer \in Peers /\ s.session.target \in Nat
        /\ s.session.target <= HeightOf(a[s.session.peer])
    BY <2>1 DEF GoodSync, Session
  <2>3. QED
    BY <1>1, <2>1, <2>2
<1>5. QED
    BY <1>3, <1>4 DEF GoodSync

LEMMA GrowsFacts ==
    ASSUME TypeInv, NEW p \in Peers, NEW b, GrowsBy(p, b)
    PROVE  /\ b \in Blocks \ {Genesis} /\ peerTip' \in [Peers -> Blocks]
           /\ HeightOf(b) \in Nat /\ HeightOf(b) = HeightOf(Parent[b]) + 1
           /\ Parent[b] \in Blocks /\ HeightOf(Parent[b]) \in Nat
           /\ \A q \in Peers : HeightOf(peerTip[q]) <= HeightOf(peerTip'[q])
<1>1. /\ b \in Blocks \ {Genesis} /\ Parent[b] = peerTip[p]
      /\ peerTip' = [peerTip EXCEPT ![p] = b] /\ peerTip \in [Peers -> Blocks]
      /\ Parent[b] \in Blocks
    BY TreeAssumption DEF GrowsBy, TypeInv
<1>2. /\ HeightOf(b) = HeightOf(Parent[b]) + 1
      /\ \A c \in Blocks : HeightOf(c) \in Nat
    BY <1>1, HeightFacts
<1>3. \A q \in Peers : HeightOf(peerTip[q]) <= HeightOf(peerTip'[q])
    BY <1>1, <1>2
<1>4. QED
    BY <1>1, <1>2, <1>3

\* The requests to timely peers can still be served when chains get no lower.
LEMMA StillAsked ==
    ASSUME TypeInv, AskedInv, UNCHANGED pending, peerTip' \in [Peers -> Blocks],
           \A q \in Timely : HeightOf(peerTip[q]) <= HeightOf(peerTip'[q])
    PROVE  AskedInv'
<1>1. ASSUME NEW q \in Timely, NEW i \in 1 .. Len(pending[q])
      PROVE  pending[q][i].from <= HeightOf(peerTip'[q])
  <2>1. q \in Peers /\ pending[q][i].from <= HeightOf(peerTip[q]) /\ pending[q][i] \in Asked
    BY SyncAssumption DEF TypeInv, AskedInv
  <2>2. HeightOf(peerTip[q]) \in Nat /\ HeightOf(peerTip'[q]) \in Nat
    BY <2>1, HeightFacts DEF TypeInv
  <2>3. QED
    BY <2>1, <2>2 DEF Asked
<1>2. QED
    BY <1>1 DEF AskedInv

LEMMA VersionStep ==
    ASSUME SyncInv, NEW p \in Peers, Version(p)
    PROVE  SyncInv'
<1>1. /\ conn[p] # "closed" /\ sync' = UpdatePeer(sync, p, HeightOf(peerTip[p]))
      /\ UNCHANGED <<tip, conn, pending, peerTip, late, switches, uninvited, lost>>
    BY DEF Version, history
<1>2. /\ GoodSync(sync', peerTip) /\ sync'.session = sync.session
      /\ sync'.local_height = sync.local_height
      /\ Known(sync') = Known(sync) \cup {p}
      /\ \A q \in Known(sync') :
            IF q \in Known(sync)
            THEN sync'.peers[q].retries = sync.peers[q].retries /\ sync'.peers[q].banned = sync.peers[q].banned
            ELSE sync'.peers[q].retries = 0 /\ ~sync'.peers[q].banned
  <2>1. peerTip \in [Peers -> Blocks] /\ GoodSync(sync, peerTip)
    BY DEF SyncInv, TypeInv
  <2> DEFINE h == HeightOf(peerTip[p])
  <2>2. h = HeightOf(peerTip[p]) /\ sync' = UpdatePeer(sync, p, h)
    BY <1>1
  <2> HIDE DEF h
  <2>3. GoodSync(sync', peerTip)
    BY <2>1, <2>2, UpdatePeerGood
  <2>4. Known(sync') = Known(sync) \cup {p}
    BY <2>1, <2>2, UpdatePeerGood
  <2>5. sync'.session = sync.session /\ sync'.local_height = sync.local_height
    BY <2>1, <2>2, UpdatePeerGood
  <2>6. QED
    BY <2>1, <2>2, <2>3, <2>4, <2>5, UpdatePeerGood
<1>3. TypeInv' /\ AskedInv'
    BY <1>1 DEF SyncInv, TypeInv, AskedInv
<1>4. NeverBlind' /\ AheadInv'
    BY <1>1, <1>2 DEF SyncInv, NeverBlind, AheadInv, Waiting, Height
<1>5. TimelyInv'
  <2>1. SUFFICES ASSUME NEW q \in Timely, q \in Known(sync')
                 PROVE  /\ conn[q] # "closed" /\ ~sync'.peers[q].banned /\ sync'.peers[q].retries <= 1
                        /\ Waiting(q) /\ sync'.peers[q].retries = 1
                           => pending[q] # <<>> \/ conn[q] = "banned"
    BY <1>1, <1>2 DEF TimelyInv, Waiting
  <2>2. CASE q \in Known(sync)
    BY <1>2, <2>1, <2>2 DEF SyncInv, TimelyInv
  <2>3. CASE q \notin Known(sync)
    BY <1>1, <1>2, <2>1, <2>3
  <2>4. QED
    BY <2>2, <2>3
<1>6. QED
    BY <1>1, <1>2, <1>3, <1>4, <1>5 DEF SyncInv

\* A peer leaves the SyncManager and its requests may be lost with it.
LEMMA PeerLeaves ==
    ASSUME SyncInv, NEW p \in Peers, sync' = RemovePeer(sync, p),
           pending' \in {pending, [pending EXCEPT ![p] = <<>>]},
           conn' \in [Peers -> {"open", "banned", "closed"}],
           \A q \in Timely : q # p => conn'[q] = conn[q],
           UNCHANGED <<tip, peerTip, late, switches, uninvited, lost>>
    PROVE  SyncInv'
<1>1. /\ GoodSync(sync', peerTip) /\ sync'.session = sync.session
      /\ sync'.local_height = sync.local_height
      /\ Known(sync') = Known(sync) \ {p}
      /\ \A q \in Known(sync') : sync'.peers[q] = sync.peers[q]
  <2>1. peerTip \in [Peers -> Blocks] /\ GoodSync(sync, peerTip)
    BY DEF SyncInv, TypeInv
  <2>2. QED
    BY <2>1, RemovePeerGood
<1>2. /\ pending' \in [Peers -> Seq(Asked)]
      /\ \A q \in Peers : pending'[q] = <<>> \/ pending'[q] = pending[q]
      /\ \A q \in Peers : q # p => pending'[q] = pending[q]
    BY EmptySeq DEF SyncInv, TypeInv
<1>3. TypeInv'
    BY <1>2 DEF SyncInv, TypeInv
<1>4. AskedInv'
    BY <1>2, SyncAssumption DEF SyncInv, AskedInv
<1>5. NeverBlind'
    BY <1>1 DEF SyncInv, NeverBlind, Height
<1>6. AheadInv'
    BY <1>1, <1>2 DEF SyncInv, AheadInv, Waiting, Height
<1>7. TimelyInv'
  <2>1. SUFFICES ASSUME NEW q \in Timely, q \in Known(sync')
                 PROVE  /\ conn'[q] # "closed"
                        /\ ~sync'.peers[q].banned /\ sync'.peers[q].retries <= 1
                        /\ Waiting(q)' /\ sync'.peers[q].retries = 1
                           => pending'[q] # <<>> \/ conn'[q] = "banned"
    BY DEF TimelyInv
  <2>2. q # p /\ q \in Peers /\ q \in Known(sync) /\ sync'.peers[q] = sync.peers[q]
    BY <1>1, <2>1, SyncAssumption
  <2>3. pending'[q] = pending[q] /\ conn'[q] = conn[q] /\ (Waiting(q)' => Waiting(q))
    BY <1>1, <1>2, <2>2 DEF Waiting
  <2>4. QED
    BY <2>2, <2>3 DEF SyncInv, TimelyInv
<1>8. QED
    BY <1>1, <1>3, <1>4, <1>5, <1>6, <1>7 DEF SyncInv

LEMMA ConnectionStep ==
    ASSUME SyncInv, NEW p \in Peers,
           RemoveBanned(p) \/ Disconnect(p) \/ DisconnectOne(p) \/ DropStale(p) \/ Connect(p)
    PROVE  SyncInv'
<1>2. CASE RemoveBanned(p) \/ Disconnect(p)
  <2>1. conn' = [conn EXCEPT ![p] = "closed"] /\ pending' = [pending EXCEPT ![p] = <<>>]
    BY <1>2 DEF RemoveBanned, Disconnect, Closed
  <2>2. sync' = RemovePeer(sync, p) /\ UNCHANGED <<tip, peerTip, late, switches, uninvited, lost>>
    BY <1>2 DEF RemoveBanned, Disconnect, Closed, history
  <2>3. conn' \in [Peers -> {"open", "banned", "closed"}] /\ \A q \in Timely : q # p => conn'[q] = conn[q]
    BY <2>1, SyncAssumption DEF SyncInv, TypeInv
  <2>4. QED
    BY <2>1, <2>2, <2>3, PeerLeaves
<1>3. CASE DisconnectOne(p)
  <2>1. /\ pending' \in {pending, [pending EXCEPT ![p] = <<>>]} /\ sync' = RemovePeer(sync, p)
        /\ UNCHANGED <<tip, conn, peerTip, late, switches, uninvited, lost>>
    BY <1>3 DEF DisconnectOne, history
  <2>2. QED
    BY <2>1, PeerLeaves DEF SyncInv, TypeInv
<1>4. CASE DropStale(p)
  <2>1. /\ UNCHANGED <<tip, sync, peerTip, late, switches, uninvited, lost>> /\ p \notin Timely
        /\ conn' = [conn EXCEPT ![p] = "closed"] /\ pending' = [pending EXCEPT ![p] = <<>>]
    BY <1>4 DEF DropStale, history
  <2>2. /\ conn' \in [Peers -> {"open", "banned", "closed"}] /\ pending' \in [Peers -> Seq(Asked)]
        /\ \A q \in Peers : pending'[q] = <<>> \/ pending'[q] = pending[q]
        /\ \A q \in Peers : q # p => pending'[q] = pending[q] /\ conn'[q] = conn[q]
    BY <2>1, EmptySeq DEF SyncInv, TypeInv
  <2>3. TypeInv' /\ GoodSync(sync', peerTip') /\ NeverBlind'
    BY <2>1, <2>2 DEF SyncInv, TypeInv, NeverBlind, Height
  <2>4. AskedInv' /\ AheadInv'
    BY <2>1, <2>2 DEF SyncInv, AskedInv, AheadInv, Waiting, Height
  <2>5. TimelyInv'
    BY <2>1, <2>2, SyncAssumption DEF SyncInv, TimelyInv, Waiting
  <2>6. QED
    BY <2>3, <2>4, <2>5 DEF SyncInv
<1>5. CASE Connect(p)
  <2>1. /\ UNCHANGED <<tip, sync, pending, peerTip, late, switches, uninvited, lost>> /\ conn[p] = "closed"
        /\ conn' = [conn EXCEPT ![p] = "open"]
    BY <1>5 DEF Connect, history
  <2>2. TypeInv' /\ GoodSync(sync', peerTip') /\ NeverBlind'
    BY <2>1 DEF SyncInv, TypeInv, NeverBlind, Height
  <2>3. AskedInv' /\ AheadInv'
    BY <2>1 DEF SyncInv, AskedInv, AheadInv, Waiting, Height
  <2>4. TimelyInv'
    BY <2>1, SyncAssumption DEF SyncInv, TypeInv, TimelyInv, Waiting
  <2>5. QED
    BY <2>2, <2>3, <2>4 DEF SyncInv
<1>6. QED
    BY <1>2, <1>3, <1>4, <1>5

\* A block extends the chain of a peer, and may be appended to ours.
LEMMA BlockStep ==
    ASSUME SyncInv, NEW p \in Peers, PushBlock(p) \/ PeerGrows(p)
    PROVE  SyncInv'
<1>1. PICK b :
         /\ GrowsBy(p, b) /\ UNCHANGED <<pending, late, switches, uninvited, lost>>
         /\ \/ UNCHANGED <<tip, sync, conn>>
            \/ /\ UNCHANGED <<tip, sync>>
               /\ conn' = [conn EXCEPT ![p] = "banned"]
            \/ /\ Parent[b] = tip /\ tip' = b /\ UNCHANGED conn
               /\ sync' = [sync EXCEPT !.local_height = HeightOf(b)]
    BY DEF PushBlock, PeerGrows, history
<1>2. /\ TypeInv /\ GoodSync(sync, peerTip) /\ peerTip \in [Peers -> Blocks]
      /\ HeightOf(tip) \in Nat /\ sync.local_height \in Nat
    BY HeightFacts DEF SyncInv, TypeInv, GoodSync
<1>3. /\ b \in Blocks \ {Genesis} /\ peerTip' \in [Peers -> Blocks]
      /\ HeightOf(b) \in Nat /\ HeightOf(b) = HeightOf(Parent[b]) + 1
      /\ \A q \in Peers : HeightOf(peerTip[q]) <= HeightOf(peerTip'[q])
    BY <1>1, <1>2, GrowsFacts
<1>4. GoodSync(sync, peerTip')
    BY <1>2, <1>3, TipsGrow, SyncAssumption
<1>5. /\ GoodSync(sync', peerTip') /\ sync'.session = sync.session
      /\ sync'.peers = sync.peers /\ Known(sync') = Known(sync)
      /\ sync' = sync \/ sync'.local_height = HeightOf(tip')
  <2>1. CASE UNCHANGED sync
    BY <1>4, <2>1
  <2>2. CASE tip' = b /\ sync' = [sync EXCEPT !.local_height = HeightOf(b)]
    BY <1>3, <1>4, <2>2, HeightSetGood
  <2>3. QED
    BY <1>1, <2>1, <2>2
<1>6. tip' \in Blocks /\ HeightOf(tip) <= HeightOf(tip') /\ HeightOf(tip') \in Nat
    BY <1>1, <1>2, <1>3 DEF TypeInv
<1>7. TypeInv'
    BY <1>1, <1>2, <1>3, <1>6 DEF TypeInv
<1>8. AskedInv'
    BY <1>1, <1>2, <1>3, StillAsked, SyncAssumption DEF SyncInv
<1>9. NeverBlind'
    BY <1>1, <1>2, <1>5, <1>6 DEF SyncInv, NeverBlind, Height
<1>10. AheadInv'
  <2>1. sync.session # NoSession => sync.session.current \in Nat
    BY <1>2 DEF GoodSync, Session
  <2>2. QED
    BY <1>1, <1>2, <1>5, <1>6, <2>1 DEF SyncInv, AheadInv, Waiting, Height
<1>11. TimelyInv'
  <2>1. \A q \in Timely : conn'[q] = conn[q] \/ conn'[q] = "banned"
    BY <1>1, <1>2, SyncAssumption DEF TypeInv
  <2>2. QED
    BY <1>1, <1>5, <2>1 DEF SyncInv, TimelyInv, Waiting
<1>12. QED
    BY <1>5, <1>7, <1>8, <1>9, <1>10, <1>11 DEF SyncInv

LEMMA ForkStep ==
    ASSUME SyncInv, NEW p \in Peers, PushFork(p)
    PROVE  SyncInv'
<1>1. PICK b :
         /\ GrowsBy(p, b) /\ UNCHANGED <<pending, conn, late, uninvited>> /\ switches' = switches + 1
         /\ \/ tip' = Parent[b] /\ lost' /\ UNCHANGED sync
            \/ /\ tip' = b /\ UNCHANGED lost
               /\ sync' = [sync EXCEPT !.local_height = HeightOf(b)]
    BY DEF PushFork, HeightAfterSwitch
<1>2. TypeInv /\ GoodSync(sync, peerTip) /\ peerTip \in [Peers -> Blocks] /\ switches \in Nat
    BY DEF SyncInv, TypeInv
<1>3. /\ b \in Blocks \ {Genesis} /\ peerTip' \in [Peers -> Blocks]
      /\ HeightOf(b) \in Nat /\ Parent[b] \in Blocks
      /\ \A q \in Peers : HeightOf(peerTip[q]) <= HeightOf(peerTip'[q])
    BY <1>1, <1>2, GrowsFacts
<1>4. GoodSync(sync, peerTip')
    BY <1>2, <1>3, TipsGrow, SyncAssumption
<1>5. /\ GoodSync(sync', peerTip') /\ sync'.session = sync.session
      /\ sync'.peers = sync.peers /\ Known(sync') = Known(sync)
      /\ lost' \/ sync'.local_height = HeightOf(tip')
  <2>1. CASE lost' /\ UNCHANGED sync
    BY <1>4, <2>1
  <2>2. CASE tip' = b /\ sync' = [sync EXCEPT !.local_height = HeightOf(b)]
    BY <1>3, <1>4, <2>2, HeightSetGood
  <2>3. QED
    BY <1>1, <2>1, <2>2
<1>6. tip' \in Blocks /\ HeightOf(tip') \in Nat /\ switches' > 0 /\ switches' \in Nat
    BY <1>1, <1>2, <1>3, HeightFacts
<1>7. TypeInv'
    BY <1>1, <1>2, <1>3, <1>6 DEF TypeInv
<1>8. AskedInv'
    BY <1>1, <1>2, <1>3, StillAsked, SyncAssumption DEF SyncInv
<1>9. NeverBlind'
    BY <1>5, <1>6 DEF NeverBlind, Height
<1>10. AheadInv'
    BY <1>6 DEF AheadInv
<1>11. TimelyInv'
    BY <1>1, <1>5 DEF SyncInv, TimelyInv, Waiting
<1>12. QED
    BY <1>5, <1>7, <1>8, <1>9, <1>10, <1>11 DEF SyncInv

\* A peer's chain is replaced by another one.
LEMMA ReorganiseStep ==
    ASSUME SyncInv, NEW p \in Peers, PeerReorganises(p)
    PROVE  SyncInv'
<1>1. PICK b \in Blocks :
         /\ p \in Timely => HeightOf(b) >= HeightOf(peerTip[p])
         /\ peerTip' = [peerTip EXCEPT ![p] = b]
    BY DEF PeerReorganises
<1>2. UNCHANGED <<tip, sync, conn, pending, late, switches, uninvited, lost>>
    BY DEF PeerReorganises, history
<1>3. peerTip \in [Peers -> Blocks] /\ peerTip' \in [Peers -> Blocks]
    BY <1>1 DEF SyncInv, TypeInv
<1>4. \A q \in Timely : HeightOf(peerTip[q]) <= HeightOf(peerTip'[q])
  <2>1. \A q \in Timely : HeightOf(peerTip[q]) \in Nat /\ q \in Peers
    BY <1>3, SyncAssumption, HeightFacts
  <2>2. HeightOf(b) \in Nat
    BY HeightFacts
  <2>3. QED
    BY <1>1, <1>3, <2>1, <2>2
<1>5. GoodSync(sync', peerTip')
    BY <1>2, <1>3, <1>4, TipsGrow DEF SyncInv
<1>6. AskedInv'
    BY <1>2, <1>3, <1>4, StillAsked DEF SyncInv
<1>7. TypeInv'
    BY <1>2, <1>3 DEF SyncInv, TypeInv
<1>8. TimelyInv' /\ NeverBlind' /\ AheadInv'
    BY <1>2 DEF SyncInv, TimelyInv, NeverBlind, AheadInv, Waiting, Height
<1>9. QED
    BY <1>5, <1>6, <1>7, <1>8 DEF SyncInv

LEMMA MiningStep ==
    ASSUME SyncInv, PrepareMiningJob \/ CommitBlock
    PROVE  SyncInv'
<1>1. UNCHANGED <<conn, pending, peerTip, late, switches, uninvited, lost>>
    BY DEF PrepareMiningJob, CommitBlock, history
<1>2. CASE UNCHANGED <<tip, sync>>
    BY <1>1, <1>2
    DEF SyncInv, TypeInv, AskedInv, TimelyInv, NeverBlind, AheadInv, Waiting, Height
<1>3. CASE CommitBlock
  <2>1. PICK b \in Own : /\ Parent[b] = tip /\ tip' = b
                         /\ sync' = [sync EXCEPT !.local_height = HeightOf(b)]
    BY <1>3 DEF CommitBlock
  <2>2. b \in Blocks \ {Genesis} /\ tip \in Blocks /\ peerTip \in [Peers -> Blocks]
    BY SyncAssumption DEF SyncInv, TypeInv
  <2>3. HeightOf(b) = HeightOf(tip) + 1 /\ HeightOf(b) \in Nat /\ HeightOf(tip) \in Nat
    BY <2>1, <2>2, HeightFacts
  <2>4. /\ GoodSync(sync', peerTip) /\ sync'.session = sync.session
        /\ sync'.peers = sync.peers /\ Known(sync') = Known(sync)
        /\ sync'.local_height = HeightOf(b)
    BY <2>1, <2>2, <2>3, HeightSetGood DEF SyncInv
  <2>5. TypeInv' /\ AskedInv'
    BY <1>1, <2>1, <2>2 DEF SyncInv, TypeInv, AskedInv
  <2>6. NeverBlind'
    BY <2>1, <2>3, <2>4 DEF NeverBlind, Height
  <2>7. AheadInv'
    <3>1. sync.session # NoSession => sync.session.current \in Nat
        BY DEF SyncInv, GoodSync, Session
    <3>2. QED
        BY <1>1, <2>1, <2>3, <2>4, <3>1 DEF SyncInv, AheadInv, Waiting, Height
  <2>8. TimelyInv'
    BY <1>1, <2>4 DEF SyncInv, TimelyInv, Waiting
  <2>9. QED
    BY <1>1, <2>4, <2>5, <2>6, <2>7, <2>8 DEF SyncInv
<1>4. QED
    BY <1>2, <1>3 DEF PrepareMiningJob

LEMMA TimeoutStep ==
    ASSUME SyncInv, TimeoutTick
    PROVE  SyncInv'
<1> DEFINE p == sync.session.peer
<1>1. /\ MayExpire /\ sync' = CheckTimeouts(sync, TRUE) /\ AfterTimeout(p)
      /\ UNCHANGED <<tip, conn, peerTip, switches, uninvited, lost>>
    BY DEF TimeoutTick, history
<1>2. /\ GoodSync(sync, peerTip) /\ peerTip \in [Peers -> Blocks]
      /\ sync.session # NoSession /\ p \in Peers /\ Waiting(p) /\ ~InTime(p)
    BY <1>1 DEF SyncInv, TypeInv, MayExpire, Waiting, GoodSync, Session
<1>3. sync' = TimedOut(sync)
    BY <1>1, <1>2, NothingCompleted
<1>4. /\ GoodSync(sync', peerTip) /\ sync'.session = NoSession
      /\ sync'.local_height = sync.local_height /\ Known(sync') = Known(sync)
      /\ \A q \in Known(sync) :
            IF q = p
            THEN /\ sync'.peers[q].retries = sync.peers[q].retries + 1
                 /\ sync'.peers[q].banned <=>
                      (sync.peers[q].banned \/ sync.peers[q].retries + 1 >= MaxRetries)
            ELSE sync'.peers[q] = sync.peers[q]
    BY <1>2, <1>3, TimedOutGood DEF p
<1>5. /\ pending' \in [Peers -> Seq(Asked)]
      /\ \A q \in Peers : pending'[q] = <<>> \/ pending'[q] = pending[q]
      /\ \A q \in Peers : q # p => pending'[q] = pending[q]
      /\ late' \in Nat /\ late' >= late /\ (late' = late => pending'[p] = <<>>)
  <2>1. pending \in [Peers -> Seq(Asked)] /\ late \in Nat
    BY DEF SyncInv, TypeInv
  <2> HIDE DEF p
  <2>2. CASE late' = late /\ pending' = [pending EXCEPT ![p] = <<>>]
    BY <1>2, <2>1, <2>2, EmptySeq
  <2>3. CASE late' = late + 1 /\ UNCHANGED pending
    BY <2>1, <2>3
  <2>4. QED
    BY <1>1, <2>2, <2>3 DEF AfterTimeout
<1> HIDE DEF p
<1>6. TypeInv' /\ AskedInv' /\ NeverBlind'
  <2>1. TypeInv'
    BY <1>1, <1>5 DEF SyncInv, TypeInv
  <2>2. AskedInv'
    BY <1>1, <1>5, SyncAssumption DEF SyncInv, AskedInv
  <2>3. NeverBlind'
    BY <1>1, <1>4 DEF SyncInv, NeverBlind, Height
  <2>4. QED
    BY <2>1, <2>2, <2>3
<1>7. AheadInv'
  <2>1. SUFFICES ASSUME late' = 0, switches' = 0, uninvited' = 0
                 PROVE  sync'.session = NoSession /\ \A q \in Peers : pending'[q] = <<>>
    BY DEF AheadInv
  <2>2. late = 0 /\ switches = 0 /\ uninvited = 0 /\ late' = late
    BY <1>1, <1>5, <2>1 DEF SyncInv, TypeInv
  <2>3. \A q \in Peers : q # p => ~Waiting(q)
    BY DEF Waiting, p
  <2>4. QED
    BY <1>4, <1>5, <2>2, <2>3 DEF SyncInv, AheadInv
<1>8. TimelyInv'
  <2>1. SUFFICES ASSUME NEW q \in Timely, q \in Known(sync')
                 PROVE  ~sync'.peers[q].banned /\ sync'.peers[q].retries <= 1
    BY <1>1, <1>4 DEF SyncInv, TimelyInv, Waiting
  <2>2. ~sync.peers[q].banned /\ sync.peers[q].retries <= 1 /\ q \in Known(sync)
    BY <1>4, <2>1 DEF SyncInv, TimelyInv
  <2>3. CASE q # p
    BY <1>4, <2>2, <2>3
  <2>4. CASE q = p
    <3>1. sync.peers[q] \in Entry
        BY <2>2 DEF SyncInv, GoodSync
    <3>2. pending[q] = <<>> /\ conn[q] # "banned"
      <4>1. conn[q] \in {"open", "banned", "closed"} /\ conn[q] # "closed"
          BY <2>1, <2>2, SyncAssumption DEF SyncInv, TypeInv, TimelyInv
      <4>2. QED
          BY <1>2, <2>1, <2>4, <4>1 DEF InTime, p    <3>3. sync.peers[q].retries = 0
        BY <1>2, <2>1, <2>2, <2>4, <3>1, <3>2 DEF SyncInv, TimelyInv, Entry
    <3>4. QED
        BY <1>4, <2>2, <2>4, <3>3, SyncAssumption
  <2>5. QED
    BY <2>3, <2>4
<1>9. QED
    BY <1>1, <1>4, <1>6, <1>7, <1>8 DEF SyncInv

LEMMA TickStep ==
    ASSUME SyncInv, NEW throttled \in BOOLEAN, Tick(throttled)
    PROVE  SyncInv'
<1>1. UNCHANGED <<tip, conn, peerTip, late, switches, uninvited, lost>>
    BY DEF Tick, history
<1>2. PICK s \in Started(sync) :
         \/ sync' = CheckTimeouts(s, FALSE) /\ UNCHANGED pending
         \/ /\ MayRequest(CheckTimeouts(s, FALSE))
            /\ sync' = Request(CheckTimeouts(s, FALSE)) /\ pending' = Sent(CheckTimeouts(s, FALSE))
    BY DEF Tick
<1>3. /\ GoodSync(sync, peerTip) /\ peerTip \in [Peers -> Blocks] /\ sync.local_height \in Nat
      /\ pending \in [Peers -> Seq(Asked)] /\ HeightOf(tip) \in Nat /\ NeverBlind
    BY HeightFacts DEF SyncInv, TypeInv, GoodSync
<1>4. /\ GoodSync(s, peerTip) /\ s.local_height = sync.local_height
      /\ s.peers = sync.peers /\ Known(s) = Known(sync)
      /\ s = sync \/ ( /\ sync.session = NoSession /\ s.session # NoSession
                       /\ s.session.current = sync.local_height
                       /\ s.session.status = "Requesting" )
    BY <1>3, StartedGood
<1>5. \/ sync' = s /\ UNCHANGED pending
      \/ MayRequest(s) /\ sync' = Request(s) /\ pending' = Sent(s)
    BY <1>2, <1>4, NothingCompleted
<1>6. late = 0 /\ switches = 0 /\ uninvited = 0 /\ s.session # NoSession =>
         s.session.current <= HeightOf(tip)
  <2>1. CASE s = sync
    BY <2>1 DEF SyncInv, AheadInv, Height
  <2>2. CASE s # sync
    BY <1>3, <1>4, <2>2 DEF SyncInv, TypeInv, NeverBlind, Height
  <2>3. QED
    BY <2>1, <2>2
<1>7. CASE sync' = s /\ UNCHANGED pending
  <2>1. TypeInv' /\ AskedInv' /\ NeverBlind'
    BY <1>1, <1>4, <1>7 DEF SyncInv, TypeInv, AskedInv, NeverBlind, Height
  <2>2. \A p \in Peers : Waiting(p)' => Waiting(p) /\ sync' = sync
    BY <1>4, <1>7 DEF Waiting
  <2>3. AheadInv'
    <3>1. SUFFICES ASSUME late = 0, switches = 0, uninvited = 0, NEW p \in Peers, pending[p] # <<>>
                   PROVE  /\ Len(pending[p]) = 1 /\ Waiting(p)'
                          /\ pending[p][1].from = sync'.session.current + 1
        BY <1>1, <1>6, <1>7 DEF AheadInv, Height
    <3>2. /\ Len(pending[p]) = 1 /\ Waiting(p)
          /\ pending[p][1].from = sync.session.current + 1
        BY <3>1 DEF SyncInv, AheadInv
    <3>3. sync' = sync
        BY <1>4, <1>7, <3>2 DEF Waiting
    <3>4. QED
        BY <3>2, <3>3 DEF Waiting
  <2>4. TimelyInv'
    BY <1>1, <1>4, <1>7, <2>2, SyncAssumption DEF SyncInv, TimelyInv
  <2>5. QED
    BY <1>1, <1>4, <1>7, <2>1, <2>3, <2>4 DEF SyncInv
<1>8. CASE MayRequest(s) /\ sync' = Request(s) /\ pending' = Sent(s)
  <2> DEFINE p == s.session.peer
  <2>1. /\ GoodSync(sync', peerTip) /\ sync'.local_height = sync.local_height
        /\ sync'.peers = sync.peers /\ Known(sync') = Known(sync)
        /\ IF p \in Usable(s)
           THEN /\ sync'.session # NoSession /\ sync'.session.status = "Receiving"
                /\ sync'.session.peer = p /\ sync'.session.current = s.session.current
           ELSE sync'.session = NoSession
    BY <1>3, <1>4, <1>8, RequestGood
  <2>2. /\ p \in Peers /\ s.session # NoSession
        /\ s.session.current \in Nat
    BY <1>4, <1>8 DEF MayRequest, GoodSync, Session
  <2>3. \A q \in Peers : ~Waiting(q)
    BY <1>4, <1>8 DEF MayRequest, Waiting
  <2>4. CASE p \in Usable(s)
    <3>1. PICK r \in Asked :
             /\ r.from = s.session.current + 1
             /\ p \in Timely => r.from <= HeightOf(peerTip[p])
             /\ pending' = [pending EXCEPT ![p] = Append(@, r)]
        BY <1>3, <1>4, <1>8, <2>4, SentGood
    <3> HIDE DEF p
    <3>2. /\ pending' \in [Peers -> Seq(Asked)] /\ pending'[p] = Append(pending[p], r)
          /\ \A q \in Peers : q # p => pending'[q] = pending[q]
        BY <1>3, <2>2, <3>1
    <3>3. /\ Len(pending'[p]) = Len(pending[p]) + 1 /\ Len(pending[p]) \in Nat
          /\ pending'[p][Len(pending[p]) + 1] = r
          /\ \A i \in 1 .. Len(pending[p]) : pending'[p][i] = pending[p][i]
          /\ pending'[p] # <<>>
        BY <1>3, <2>2, <3>2, EmptySeq
    <3>4. TypeInv' /\ NeverBlind'
        BY <1>1, <2>1, <3>2 DEF SyncInv, TypeInv, NeverBlind, Height
    <3>5. AskedInv'
      <4>1. SUFFICES ASSUME NEW q \in Timely, q \in Peers, NEW i \in 1 .. Len(pending'[q])
                     PROVE  pending'[q][i].from <= HeightOf(peerTip[q])
          BY <1>1, SyncAssumption DEF AskedInv
      <4>2. CASE q = p /\ i = Len(pending[p]) + 1
          BY <3>1, <3>3, <4>2
      <4>3. CASE ~(q = p /\ i = Len(pending[p]) + 1)
        <5>1. i \in 1 .. Len(pending[q]) /\ pending'[q][i] = pending[q][i]
            BY <3>2, <3>3, <4>1, <4>3
        <5>2. QED
            BY <5>1 DEF SyncInv, AskedInv
      <4>4. QED
          BY <4>2, <4>3
    <3>6. AheadInv'
      <4>1. SUFFICES ASSUME late = 0, switches = 0, uninvited = 0
                     PROVE  /\ sync'.session # NoSession => sync'.session.current <= HeightOf(tip)
                            /\ \A q \in Peers :
                                  pending'[q] # <<>> =>
                                     /\ Len(pending'[q]) = 1 /\ Waiting(q)'
                                     /\ pending'[q][1].from = sync'.session.current + 1
          BY <1>1 DEF AheadInv, Height
      <4>2. \A q \in Peers : pending[q] = <<>>
          BY <2>3, <4>1 DEF SyncInv, AheadInv
      <4>3. /\ \A q \in Peers : q # p => pending'[q] = <<>>
            /\ Len(pending'[p]) = 1 /\ pending'[p][1] = r
          BY <2>2, <3>2, <3>3, <4>2
      <4>4. Waiting(p)' /\ sync'.session.current = s.session.current
          BY <2>1, <2>4 DEF Waiting
      <4>5. QED
          BY <1>6, <2>2, <3>1, <4>1, <4>3, <4>4
    <3>7. TimelyInv'
      <4>1. \A q \in Peers : Waiting(q)' => q = p
          BY <2>1, <2>4 DEF Waiting
      <4>2. QED
          BY <1>1, <2>1, <3>3, <4>1, SyncAssumption DEF SyncInv, TimelyInv
    <3>8. QED
        BY <1>1, <2>1, <3>4, <3>5, <3>6, <3>7 DEF SyncInv
  <2>5. CASE p \notin Usable(s)
    <3>1. sync'.session = NoSession /\ UNCHANGED pending
        BY <1>3, <1>4, <1>8, <2>1, <2>5, SentGood
    <3>2. TypeInv' /\ AskedInv' /\ NeverBlind'
        BY <1>1, <2>1, <3>1 DEF SyncInv, TypeInv, AskedInv, NeverBlind, Height
    <3>3. AheadInv'
        BY <1>1, <2>3, <3>1 DEF SyncInv, AheadInv
    <3>4. TimelyInv'
        BY <1>1, <2>1, <3>1 DEF SyncInv, TimelyInv, Waiting
    <3>5. QED
        BY <1>1, <2>1, <3>2, <3>3, <3>4 DEF SyncInv
  <2>6. QED
    BY <2>4, <2>5
<1>9. QED
    BY <1>5, <1>7, <1>8

LEMMA PieceFacts ==
    ASSUME NEW top \in Blocks, NEW from \in 1 .. HeightOf(top), NEW to \in from .. HeightOf(top)
    PROVE  IsBatch(top, from, PieceOf(top, from, to))
<1> DEFINE chain == Path[top]
           batch == PieceOf(top, from, to)
<1>1. /\ from \in Nat \ {0} /\ to \in Nat /\ chain \in Seq(Blocks \ {Genesis})
      /\ Len(chain) \in Nat /\ HeightOf(top) = Len(chain) /\ from <= to /\ to <= Len(chain)
    BY PathFacts DEF HeightOf
<1>2. batch = SubSeq(chain, from, to)
    BY DEF PieceOf
<1> HIDE DEF chain, batch
<1>3. \A i \in from .. to : chain[i] \in Blocks \ {Genesis}
    BY <1>1
<1>4. /\ batch \in Seq(Blocks \ {Genesis}) /\ Len(batch) = to - from + 1
      /\ \A i \in 1 .. to - from + 1 : batch[i] = chain[from + i - 1]
  <2>1. from \in Int /\ to \in Int
    BY <1>1
  <2>2. QED
    BY <1>1, <1>2, <1>3, <2>1, SubSeqProperties
<1>5. batch # <<>> /\ from + Len(batch) - 1 <= HeightOf(top)
    BY <1>1, <1>4, EmptySeq
<1>6. IsBatch(top, from, batch)
    BY <1>1, <1>4, <1>5 DEF IsBatch, chain
<1>7. QED
    BY <1>6 DEF batch

\* The answer to a request that the peer can serve is a piece of its chain.
LEMMA AnswerFacts ==
    ASSUME NEW top \in Blocks, NEW r \in Asked, r.from <= HeightOf(top)
    PROVE  LET chain == Path[top]
               last == IF r.from + r.count - 1 < Len(chain)
                       THEN r.from + r.count - 1 ELSE Len(chain)
           IN IsBatch(top, r.from, SubSeq(chain, r.from, last))
<1> DEFINE chain == Path[top]
           last == IF r.from + r.count - 1 < Len(chain)
                   THEN r.from + r.count - 1 ELSE Len(chain)
<1>1. /\ r.from \in Nat \ {0} /\ r.count \in Nat \ {0}
      /\ Len(chain) \in Nat /\ HeightOf(top) = Len(chain)
    BY PathFacts DEF Asked, HeightOf
<1>2. r.from \in 1 .. HeightOf(top) /\ last \in r.from .. HeightOf(top)
    BY <1>1
<1> HIDE DEF last
<1>3. QED
    BY <1>2, PieceFacts DEF PieceOf, last

\* What an answer of p does to the session and to the entries of the peers.
LEMMA AnsweredSync ==
    ASSUME SyncInv, NEW p \in Peers, NEW s, NEW from \in Nat \ {0}, NEW n \in Nat,
           (s = sync /\ HeightOf(tip) <= HeightOf(tip')) \/ s = RolledBack(sync),
           tip' \in Blocks, UNCHANGED lost, NEW ban,
           \/ /\ sync' = Received([s EXCEPT !.local_height = HeightOf(tip')], p, n)
              /\ from + n - 1 <= HeightOf(tip')
           \/ sync' = Restarted(s, 0)
           \/ ban /\ sync' = s
    PROVE  /\ GoodSync(sync', peerTip) /\ NeverBlind' /\ Known(sync') = Known(sync)
           /\ \A q \in Known(sync) :
                 /\ sync'.peers[q].banned <=> sync.peers[q].banned
                 /\ sync'.peers[q].retries \in {0, sync.peers[q].retries}
           /\ \A q \in Peers : Waiting(q)' => (Waiting(q) /\ (q = p => ban))
           /\ late = 0 /\ switches = 0 /\ uninvited = 0 /\ sync.session # NoSession
              /\ sync.session.peer = p /\ from = sync.session.current + 1
              /\ sync'.session # NoSession => sync'.session.current <= HeightOf(tip')
<1>1. /\ GoodSync(sync, peerTip) /\ peerTip \in [Peers -> Blocks] /\ NeverBlind
      /\ HeightOf(tip) \in Nat /\ HeightOf(tip') \in Nat /\ sync.local_height \in Nat
      /\ sync.session # NoSession => sync.session.current \in Nat
    BY HeightFacts DEF SyncInv, TypeInv, GoodSync, Session
<1>2. /\ GoodSync(s, peerTip) /\ s.peers = sync.peers /\ Known(s) = Known(sync)
      /\ ~lost => s.local_height <= HeightOf(tip')
      /\ s.session # NoSession =>
            /\ sync.session # NoSession /\ s.session.peer = sync.session.peer
            /\ s.session.current \in Nat /\ s.session.current <= sync.session.current
            /\ s.session.status = "Receiving" => s = sync
      /\ late = 0 /\ switches = 0 /\ uninvited = 0 /\ s.session # NoSession =>
            s.session.current <= HeightOf(tip')
  <2>1. CASE s = sync /\ HeightOf(tip) <= HeightOf(tip')
    BY <1>1, <2>1 DEF SyncInv, NeverBlind, AheadInv, Height
  <2>2. CASE s = RolledBack(sync)
    <3>1. /\ GoodSync(s, peerTip) /\ s.local_height = 0
          /\ s.peers = sync.peers /\ Known(s) = Known(sync)
          /\ sync.session = NoSession <=> s.session = NoSession
          /\ sync.session # NoSession =>
                /\ s.session.peer = sync.session.peer /\ s.session.current = 0
                /\ s.session.status = "Requesting"
        BY <1>1, <2>2, RolledGood
    <3>2. QED
        BY <1>1, <3>1
  <2>3. QED
    BY <2>1, <2>2
<1>3. CASE /\ sync' = Received([s EXCEPT !.local_height = HeightOf(tip')], p, n)
           /\ from + n - 1 <= HeightOf(tip')
  <2> DEFINE r == [s EXCEPT !.local_height = HeightOf(tip')]
  <2>1. /\ GoodSync(r, peerTip) /\ r.session = s.session /\ r.local_height = HeightOf(tip')
        /\ r.peers = s.peers /\ Known(r) = Known(s)
    BY <1>1, <1>2, HeightSetGood
  <2>7. sync' = Received(r, p, n)
    BY <1>3
  <2> HIDE DEF r
  <2>2. /\ GoodSync(sync', peerTip) /\ sync'.local_height = r.local_height
        /\ Known(sync') = Known(r)
        /\ \A q \in Known(r) :
              /\ sync'.peers[q].banned <=> r.peers[q].banned
              /\ sync'.peers[q].retries \in {0, r.peers[q].retries}
        /\ r.session # NoSession /\ r.session.peer = p =>
              \/ sync'.session = NoSession
              \/ /\ sync'.session # NoSession /\ sync'.session.status = "Requesting"
                 /\ sync'.session.peer = p /\ sync'.session.current = r.session.current + n
        /\ r.session = NoSession \/ r.session.peer # p => sync' = r
    BY <1>1, <2>1, <2>7, ReceivedGood, SMTT(60)
  <2>3. NeverBlind'
    BY <1>1, <2>1, <2>2 DEF NeverBlind, Height
  <2>4. \A q \in Peers : Waiting(q)' => (Waiting(q) /\ (q = p => ban))
    <3>1. SUFFICES ASSUME NEW q \in Peers, Waiting(q)' PROVE Waiting(q) /\ q # p
        OBVIOUS
    <3>2. sync' = r /\ r.session # NoSession /\ r.session.peer # p
        BY <2>2, <3>1 DEF Waiting
    <3>3. QED
        BY <1>2, <2>1, <3>1, <3>2 DEF Waiting
  <2>5. ASSUME late = 0, switches = 0, uninvited = 0, sync.session # NoSession, sync.session.peer = p,
               from = sync.session.current + 1, sync'.session # NoSession
        PROVE  sync'.session.current <= HeightOf(tip')
    BY <1>1, <1>2, <1>3, <2>1, <2>2, <2>5
  <2>6. QED
    BY <1>2, <2>1, <2>2, <2>3, <2>4, <2>5
<1>4. CASE sync' = Restarted(s, 0)
  <2>1. /\ GoodSync(sync', peerTip) /\ sync'.local_height = s.local_height
        /\ sync'.peers = s.peers /\ Known(sync') = Known(s)
        /\ s.session = NoSession <=> sync'.session = NoSession
        /\ s.session # NoSession =>
              /\ sync'.session.peer = s.session.peer /\ sync'.session.current = 0
              /\ sync'.session.status = "Requesting"
    BY <1>1, <1>2, <1>4, RestartedGood
  <2>2. NeverBlind'
    BY <1>2, <2>1 DEF NeverBlind, Height
  <2>3. \A q \in Peers : ~Waiting(q)'
    BY <2>1 DEF Waiting
  <2>4. sync'.session # NoSession => sync'.session.current <= HeightOf(tip')
    BY <1>1, <2>1
  <2>5. QED
    BY <1>2, <2>1, <2>2, <2>3, <2>4
<1>5. CASE ban /\ sync' = s
  <2>1. NeverBlind'
    BY <1>2, <1>5 DEF NeverBlind, Height
  <2>2. \A q \in Peers : Waiting(q)' => (Waiting(q) /\ (q = p => ban))
    BY <1>2, <1>5 DEF Waiting
  <2>3. QED
    BY <1>2, <1>5, <2>1, <2>2
<1>6. QED
    BY <1>3, <1>4, <1>5

\* A batch that is not a timely peer's answer can only disturb what its sender and
\* the session are responsible for.
LEMMA TimelyAfterBatch ==
    ASSUME SyncInv, NEW p \in Peers, Known(sync') = Known(sync),
           \A q \in Known(sync) :
              /\ sync'.peers[q].banned <=> sync.peers[q].banned
              /\ sync'.peers[q].retries \in {0, sync.peers[q].retries},
           \A q \in Peers : Waiting(q)' => (Waiting(q) /\ (q = p => conn'[p] = "banned")),
           \A q \in Peers : q # p => pending'[q] = pending[q] /\ conn'[q] = conn[q],
           conn'[p] = conn[p] \/ conn'[p] = "banned"
    PROVE  TimelyInv'
<1>1. SUFFICES ASSUME NEW q \in Timely, q \in Known(sync')
               PROVE  /\ conn'[q] # "closed"
                      /\ ~sync'.peers[q].banned /\ sync'.peers[q].retries <= 1
                      /\ Waiting(q)' /\ sync'.peers[q].retries = 1
                         => pending'[q] # <<>> \/ conn'[q] = "banned"
    BY DEF TimelyInv
<1>2. /\ q \in Known(sync) /\ q \in Peers
      /\ conn[q] # "closed" /\ ~sync.peers[q].banned /\ sync.peers[q].retries <= 1
      /\ Waiting(q) /\ sync.peers[q].retries = 1 => pending[q] # <<>> \/ conn[q] = "banned"
    BY <1>1, SyncAssumption DEF SyncInv, TimelyInv
<1>3. CASE q = p
    BY <1>2, <1>3
<1>4. CASE q # p
    BY <1>2, <1>4
<1>5. QED
    BY <1>3, <1>4

LEMMA ReplyStep ==
    ASSUME SyncInv, NEW p \in Peers, Reply(p)
    PROVE  SyncInv'
<1> DEFINE r == Head(pending[p])
           top == peerTip[p]
           chain == Path[top]
           last == IF r.from + r.count - 1 < Len(chain)
                   THEN r.from + r.count - 1 ELSE Len(chain)
           batch == SubSeq(chain, r.from, last)
           ban == conn' = [conn EXCEPT ![p] = "banned"]
<1>1. /\ pending[p] # <<>> /\ pending' = [pending EXCEPT ![p] = Tail(@)]
      /\ UNCHANGED <<peerTip, late, switches, uninvited, lost>>
      /\ IF batch = <<>> THEN UNCHANGED <<tip, sync, conn>> ELSE HandleBlocks(p, batch)
    BY DEF Reply
<1>2. /\ GoodSync(sync, peerTip) /\ top \in Blocks /\ tip \in Blocks
      /\ conn \in [Peers -> {"open", "banned", "closed"}]
      /\ pending \in [Peers -> Seq(Asked)] /\ pending[p] \in Seq(Asked)
    BY DEF SyncInv, TypeInv
<1>3. /\ r \in Asked /\ r = pending[p][1] /\ Len(pending[p]) \in Nat \ {0}
      /\ p \in Timely => r.from <= HeightOf(top)
      /\ Tail(pending[p]) \in Seq(Asked) /\ Len(Tail(pending[p])) = Len(pending[p]) - 1
      /\ \A i \in 1 .. Len(pending[p]) - 1 : Tail(pending[p])[i] = pending[p][i + 1]
  <2>1. /\ Len(pending[p]) \in Nat \ {0} /\ r = pending[p][1] /\ r \in Asked
        /\ Tail(pending[p]) \in Seq(Asked) /\ Len(Tail(pending[p])) = Len(pending[p]) - 1
        /\ \A i \in 1 .. Len(pending[p]) - 1 : Tail(pending[p])[i] = pending[p][i + 1]
    BY <1>1, <1>2, EmptySeq, HeadTailProperties
  <2>2. QED
    BY <2>1 DEF SyncInv, AskedInv
<1>4. /\ r.from <= HeightOf(top) => IsBatch(top, r.from, batch)
      /\ ~(r.from <= HeightOf(top)) => batch = <<>>
  <2>1. r.from <= HeightOf(top) => IsBatch(top, r.from, batch)
    BY <1>2, <1>3, AnswerFacts
  <2>2. ASSUME ~(r.from <= HeightOf(top)) PROVE batch = <<>>
    <3>1. /\ r.from \in Nat \ {0} /\ r.count \in Nat \ {0} /\ Len(chain) \in Nat
          /\ HeightOf(top) = Len(chain) /\ chain \in Seq(Blocks \ {Genesis})
        BY <1>2, <1>3, PathFacts DEF Asked, HeightOf
    <3>2. last = Len(chain) /\ r.from > Len(chain)
        BY <2>2, <3>1
    <3> HIDE DEF chain, r, last
    <3>3. SubSeq(chain, r.from, last) = <<>>
        BY <3>1, <3>2
    <3>4. QED
        BY <3>3
  <2>3. QED
    BY <2>1, <2>2
<1> DEFINE from == r.from
           n == Len(batch)
<1>5. from \in Nat \ {0} /\ (batch # <<>> => IsBatch(top, from, batch) /\ n \in Nat \ {0})
    BY <1>3, <1>4, EmptySeq DEF Asked, IsBatch
<1> HIDE DEF r, batch, n, from
<1>6. CASE batch = <<>>
  <2>1. p \notin Timely
    BY <1>3, <1>4, <1>6 DEF IsBatch
  <2>2. UNCHANGED <<tip, sync, conn>>
    BY <1>1, <1>6
  <2>3. /\ pending' \in [Peers -> Seq(Asked)] /\ pending'[p] = Tail(pending[p])
        /\ \A q \in Peers : q # p => pending'[q] = pending[q]
    BY <1>1, <1>2, <1>3
  <2>4. TypeInv' /\ NeverBlind'
    BY <1>1, <2>2, <2>3 DEF SyncInv, TypeInv, NeverBlind, Height
  <2>5. AskedInv'
    BY <1>1, <2>1, <2>3, SyncAssumption DEF SyncInv, AskedInv
  <2>6. TimelyInv'
    BY <2>1, <2>2, <2>3, SyncAssumption DEF SyncInv, TimelyInv, Waiting
  <2>7. AheadInv'
    <3>1. SUFFICES ASSUME late = 0, switches = 0, uninvited = 0
                   PROVE  \A q \in Peers : pending'[q] # <<>> => pending'[q] = pending[q]
        BY <1>1, <2>2 DEF SyncInv, AheadInv, Waiting, Height
    <3>2. Len(pending[p]) = 1
        BY <1>1, <3>1 DEF SyncInv, AheadInv
    <3>3. pending'[p] = <<>>
        BY <1>3, <2>3, <3>2, EmptySeq
    <3>4. QED
        BY <2>3, <3>3
  <2>8. QED
    BY <1>1, <2>2, <2>4, <2>5, <2>6, <2>7 DEF SyncInv
<1>7. CASE batch # <<>>
  <2>1. IsBatch(top, from, batch) /\ n \in Nat \ {0} /\ HandleBlocks(p, batch)
    BY <1>1, <1>5, <1>7
  <2>2. /\ tip' \in Blocks
        /\ \E s : /\ (s = sync /\ HeightOf(tip) <= HeightOf(tip')) \/ s = RolledBack(sync)
                  /\ \/ /\ sync' = Received([s EXCEPT !.local_height = HeightOf(tip')], p, n)
                        /\ conn' = conn /\ from + n - 1 <= HeightOf(tip')
                     \/ sync' = Restarted(s, 0) /\ conn' = conn
                     \/ sync' = s /\ ban
    BY <1>2, <2>1, Handled DEF n
  <2>3. PICK s :
           /\ (s = sync /\ HeightOf(tip) <= HeightOf(tip')) \/ s = RolledBack(sync)
           /\ \/ /\ sync' = Received([s EXCEPT !.local_height = HeightOf(tip')], p, n)
                 /\ conn' = conn /\ from + n - 1 <= HeightOf(tip')
              \/ sync' = Restarted(s, 0) /\ conn' = conn
              \/ sync' = s /\ ban
    BY <2>2
  <2>4. conn' = conn \/ ban
    BY <2>3
  <2>5. /\ GoodSync(sync', peerTip) /\ NeverBlind' /\ Known(sync') = Known(sync)
        /\ \A q \in Known(sync) :
              /\ sync'.peers[q].banned <=> sync.peers[q].banned
              /\ sync'.peers[q].retries \in {0, sync.peers[q].retries}
        /\ \A q \in Peers : Waiting(q)' => (Waiting(q) /\ (q = p => ban))
        /\ late = 0 /\ switches = 0 /\ uninvited = 0 /\ sync.session # NoSession
           /\ sync.session.peer = p /\ from = sync.session.current + 1
           /\ sync'.session # NoSession => sync'.session.current <= HeightOf(tip')
    <3> HIDE DEF ban
    <3>1. \/ /\ sync' = Received([s EXCEPT !.local_height = HeightOf(tip')], p, n)
             /\ from + n - 1 <= HeightOf(tip')
          \/ sync' = Restarted(s, 0)
          \/ ban /\ sync' = s
        BY <2>3
    <3>2. n \in Nat /\ UNCHANGED lost
        BY <1>1, <2>1
    <3>3. QED
        BY <1>5, <2>2, <2>3, <3>1, <3>2, AnsweredSync
  <2>6. /\ pending' \in [Peers -> Seq(Asked)] /\ pending'[p] = Tail(pending[p])
        /\ \A q \in Peers : q # p => pending'[q] = pending[q] /\ conn'[q] = conn[q]
        /\ conn' \in [Peers -> {"open", "banned", "closed"}]
        /\ conn'[p] = conn[p] \/ conn'[p] = "banned"
        /\ ban => conn'[p] = "banned"
    BY <1>1, <1>2, <1>3, <2>4
  <2> HIDE DEF ban
  <2>7. TypeInv'
    BY <1>1, <2>2, <2>6 DEF SyncInv, TypeInv
  <2>8. AskedInv'
    <3>1. SUFFICES ASSUME NEW q \in Timely, q \in Peers, NEW i \in 1 .. Len(pending'[q])
                   PROVE  pending'[q][i].from <= HeightOf(peerTip[q])
        BY <1>1, SyncAssumption DEF AskedInv
    <3>2. CASE q = p
      <4>1. i + 1 \in 1 .. Len(pending[p]) /\ pending'[p][i] = pending[p][i + 1]
          BY <1>3, <2>6, <3>1, <3>2
      <4>2. QED
          BY <3>2, <4>1 DEF SyncInv, AskedInv
    <3>3. CASE q # p
        BY <2>6, <3>1, <3>3 DEF SyncInv, AskedInv
    <3>4. QED
        BY <3>2, <3>3
  <2>9. AheadInv'
    <3>1. SUFFICES ASSUME late = 0, switches = 0, uninvited = 0
                   PROVE  /\ sync'.session # NoSession => sync'.session.current <= HeightOf(tip')
                          /\ \A q \in Peers : pending'[q] = <<>>
        BY <1>1 DEF AheadInv, Height
    <3>2. Len(pending[p]) = 1 /\ Waiting(p) /\ from = sync.session.current + 1
        BY <1>1, <1>3, <3>1 DEF SyncInv, AheadInv, from
    <3>3. \A q \in Peers : q # p => pending[q] = <<>>
        BY <3>1, <3>2 DEF SyncInv, AheadInv, Waiting
    <3>4. pending'[p] = <<>>
        BY <1>3, <2>6, <3>2, EmptySeq
    <3>5. QED
        BY <2>5, <2>6, <3>1, <3>2, <3>3, <3>4 DEF Waiting
  <2>10. TimelyInv'
    BY <2>5, <2>6, TimelyAfterBatch
  <2>11. QED
    BY <1>1, <2>5, <2>7, <2>8, <2>9, <2>10 DEF SyncInv
<1>8. QED
    BY <1>6, <1>7

\* A batch that nobody asked for comes from a peer that is not timely.
LEMMA UninvitedStep ==
    ASSUME SyncInv, NEW p \in Peers, Uninvited(p)
    PROVE  SyncInv'
<1> DEFINE ban == conn' = [conn EXCEPT ![p] = "banned"]
<1>1. PICK b \in Blocks : \E from \in 1 .. HeightOf(b) : \E to \in {0} \cup from .. HeightOf(b) :
         HandleBlocks(p, PieceOf(b, from, to))
    BY DEF Uninvited
<1>2. PICK from \in 1 .. HeightOf(b) : \E to \in {0} \cup from .. HeightOf(b) :
         HandleBlocks(p, PieceOf(b, from, to))
    BY <1>1
<1>3. PICK to \in {0} \cup from .. HeightOf(b) : HandleBlocks(p, PieceOf(b, from, to))
    BY <1>2
<1>4. /\ p \notin Timely /\ UNCHANGED <<pending, peerTip, late, switches, lost>>
      /\ uninvited' = uninvited + 1
    BY DEF Uninvited
<1>5. /\ GoodSync(sync, peerTip) /\ tip \in Blocks /\ uninvited \in Nat
      /\ conn \in [Peers -> {"open", "banned", "closed"}]
    BY DEF SyncInv, TypeInv
<1>6. /\ HeightOf(b) \in Nat /\ from \in Nat \ {0} /\ from <= HeightOf(b)
      /\ Path[b] \in Seq(Blocks \ {Genesis}) /\ HeightOf(b) = Len(Path[b])
    BY HeightFacts, PathFacts DEF HeightOf
<1>7. PICK s : \E n \in Nat :
         /\ tip' \in Blocks
         /\ (s = sync /\ HeightOf(tip) <= HeightOf(tip')) \/ s = RolledBack(sync)
         /\ \/ /\ sync' = Received([s EXCEPT !.local_height = HeightOf(tip')], p, n)
               /\ conn' = conn
               /\ n = 0 \/ from + n - 1 <= HeightOf(tip')
            \/ sync' = Restarted(s, 0) /\ conn' = conn
            \/ sync' = s /\ ban
  <2>1. CASE to = 0
    <3>1. PieceOf(b, from, to) = <<>>
      <4>1. SubSeq(Path[b], from, 0) = <<>>
          BY <1>6
      <4>2. QED
          BY <2>1, <4>1 DEF PieceOf
    <3>2. /\ tip' = tip /\ conn' = conn
          /\ sync' = Received([sync EXCEPT !.local_height = HeightOf(tip')], p, 0)
        BY <1>3, <1>5, <3>1, HandledEmpty
    <3>3. HeightOf(tip) <= HeightOf(tip')
        BY <1>5, <3>2, HeightFacts
    <3>4. QED
        BY <1>5, <3>2, <3>3
  <2>2. CASE to \in from .. HeightOf(b)
    <3> DEFINE batch == PieceOf(b, from, to)
    <3>1. IsBatch(b, from, batch)
        BY <1>6, <2>2, PieceFacts
    <3>2. Len(batch) \in Nat
        BY <3>1 DEF IsBatch
    <3>3. HandleBlocks(p, batch)
        BY <1>3
    <3> HIDE DEF batch
    <3>4. QED
        BY <1>5, <3>1, <3>2, <3>3, Handled
  <2>3. QED
    BY <1>3, <2>1, <2>2
<1>8. PICK n \in Nat :
         /\ tip' \in Blocks
         /\ (s = sync /\ HeightOf(tip) <= HeightOf(tip')) \/ s = RolledBack(sync)
         /\ \/ /\ sync' = Received([s EXCEPT !.local_height = HeightOf(tip')], p, n)
               /\ conn' = conn
               /\ n = 0 \/ from + n - 1 <= HeightOf(tip')
            \/ sync' = Restarted(s, 0) /\ conn' = conn
            \/ sync' = s /\ ban
    BY <1>7
<1> DEFINE start == IF n = 0 THEN 1 ELSE from
<1>9. /\ GoodSync(sync', peerTip) /\ NeverBlind' /\ Known(sync') = Known(sync)
      /\ \A q \in Known(sync) :
            /\ sync'.peers[q].banned <=> sync.peers[q].banned
            /\ sync'.peers[q].retries \in {0, sync.peers[q].retries}
      /\ \A q \in Peers : Waiting(q)' => (Waiting(q) /\ (q = p => ban))
  <2>1. start \in Nat \ {0} /\ ((n = 0 \/ from + n - 1 <= HeightOf(tip')) => start + n - 1 <= HeightOf(tip'))
    BY <1>6, <1>8, HeightFacts
  <2> HIDE DEF ban, start
  <2>2. \/ /\ sync' = Received([s EXCEPT !.local_height = HeightOf(tip')], p, n)
           /\ start + n - 1 <= HeightOf(tip')
        \/ sync' = Restarted(s, 0)
        \/ ban /\ sync' = s
    BY <1>8, <2>1
  <2>3. UNCHANGED lost
    BY <1>4
  <2>4. QED
    BY <1>8, <2>1, <2>2, <2>3, AnsweredSync
<1>10. /\ \A q \in Peers : q # p => pending'[q] = pending[q] /\ conn'[q] = conn[q]
       /\ conn' \in [Peers -> {"open", "banned", "closed"}]
       /\ conn'[p] = conn[p] \/ conn'[p] = "banned"
       /\ ban => conn'[p] = "banned"
    BY <1>4, <1>5, <1>8
<1> HIDE DEF ban
<1>11. TypeInv'
    BY <1>4, <1>5, <1>8, <1>10 DEF SyncInv, TypeInv
<1>12. AskedInv'
    BY <1>4 DEF SyncInv, AskedInv
<1>13. AheadInv'
    BY <1>4, <1>5 DEF AheadInv
<1>14. TimelyInv'
    BY <1>9, <1>10, TimelyAfterBatch
<1>15. QED
    BY <1>4, <1>9, <1>11, <1>12, <1>13, <1>14 DEF SyncInv

----------------------------------------------------------------------------
(* Theorems *)

LEMMA SyncInvHolds == Spec => []SyncInv
<1>1. ASSUME SyncInv, [Next]_vars PROVE SyncInv'
  <2>1. CASE Next
    BY <1>1, <2>1, VersionStep, ReplyStep, UninvitedStep, BlockStep, ForkStep,
       ReorganiseStep, ConnectionStep, TickStep, TimeoutStep, MiningStep DEF Next
  <2>2. CASE UNCHANGED vars
    BY <1>1, <2>2
    DEF vars, history, SyncInv, TypeInv, AskedInv, TimelyInv, NeverBlind, AheadInv, Waiting, Height
  <2>3. QED
    BY <1>1, <2>1, <2>2
<1>2. QED
    BY <1>1, InitGood, PTL DEF Spec

\* Whatever ends a session (its last block, a timeout, a peer that is gone, an
\* error in a batch), sync_in_progress is reset with it, and it is never set
\* without one: the mining thread and the next session wait for nothing else.
THEOREM FlagHonest == Spec => []FlagFollowsSession
<1>1. SyncInv => FlagFollowsSession
    BY DEF SyncInv, GoodSync, Session, FlagFollowsSession
<1>2. QED
    BY <1>1, SyncInvHolds, PTL

\* The height that the P2P layer believes the node to have is never above that
\* of the chain, in any order of pushed, mined and synchronised blocks and
\* rollbacks, as long as no fork switch has failed half-way.
THEOREM HeightNeverTooHigh == Spec => []NeverBlind
<1>1. SyncInv => NeverBlind
    BY DEF SyncInv
<1>2. QED
    BY <1>1, SyncInvHolds, PTL

\* With answers in time, no announced fork taken and no batch that nobody asked
\* for, a session asks for the block that follows the node's chain or for an
\* earlier one: on_blocks_received and the restarts keep its counter behind the
\* chain although both move separately and peers replace their chains.
THEOREM NoGapRequested == Spec => []NotAheadOfChain
<1>1. SyncInv => NotAheadOfChain
    BY DEF SyncInv, AheadInv, NotAheadOfChain
<1>2. QED
    BY <1>1, SyncInvHolds, PTL

\* check_timeouts never bans a peer that answers every request it gets in time,
\* for any number of peers, chains, lost connections, late answers and batches
\* of others, and although blocks of that peer may be refused.
THEOREM TimelyKept == Spec => []TimelyNotBanned
<1>1. SyncInv => TimelyNotBanned
    BY DEF SyncInv, TimelyInv, TimelyNotBanned
<1>2. QED
    BY <1>1, SyncInvHolds, PTL

=============================================================================

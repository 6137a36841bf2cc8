-------------------------- MODULE EpochEnd_proofs --------------------------
(***************************************************************************)
(* Proofs about EpochEnd, for every finite set of miners, every length of  *)
(* an epoch, every reward, cap and treasury, and a crash after any write   *)
(* of any handler: a restart finds what the memory held, no miner is paid  *)
(* for fewer shares than the pool has of it, an epoch counts once for      *)
(* loyalty, and what is paid out is counted as emitted and within the cap. *)
(*                                                                         *)
(* Between handlers the database mirrors the memory (Settled).  Inside a   *)
(* handler it does not; what survives at every write is DiskOK, weak       *)
(* enough to hold of all images of a handler and strong enough that a      *)
(* restart from any of them is Settled again (RestartFacts).  A handler is *)
(* Sound if its images are DiskOK and the last one mirrors its memory;     *)
(* the end of an epoch is put together from steps that keep this.          *)
(*                                                                         *)
(* The last sections are about Contribution: what its square root is, and  *)
(* that contributions are numbers, the one hypothesis of the above.        *)
(***************************************************************************)
EXTENDS EpochEnd, Contribution, FiniteSetTheorems, WellFoundedInduction, TLAPS

----------------------------------------------------------------------------
(* Numbers and finite sets *)

\* A set of numbers has a least one.
LEMMA LeastNumber ==
    ASSUME NEW S \in SUBSET Nat, S # {}
    PROVE  \E m \in S : \A k \in S : m <= k
<1> DEFINE R == OpToRel(<, Nat)
<1>1. IsWellFoundedOn(R, Nat)
    BY NatLessThanWellFounded
<1>2. \A k, m \in Nat : k < m => <<k, m>> \in R
    BY DEF OpToRel
<1> HIDE DEF R
<1>3. PICK m \in S : \A k \in S : ~(<<k, m>> \in R)
    BY <1>1, WFMin
<1>4. ASSUME NEW k \in S PROVE m <= k
  <2>1. k \in Nat /\ m \in Nat
    OBVIOUS
  <2>2. ~(k < m)
    BY <1>2, <1>3, <2>1
  <2>3. QED
    BY <2>1, <2>2
<1>5. QED
    BY <1>4

\* A property of finite sets that fails for some set fails for one all of whose
\* smaller subsets have it.
LEMMA SmallestSet ==
    ASSUME NEW D, NEW Bad \in SUBSET SUBSET D, Bad # {}, \A s \in Bad : IsFiniteSet(s)
    PROVE  \E s \in Bad : \A x \in s : s \ {x} \notin Bad
<1> DEFINE N == {n \in Nat : \E s \in Bad : Cardinality(s) = n}
<1>1. N \in SUBSET Nat /\ N # {}
    BY FS_CardinalityType
<1>2. PICK m \in N : \A k \in N : m <= k
    BY <1>1, LeastNumber
<1>3. PICK s \in Bad : Cardinality(s) = m
    BY <1>2
<1>4. ASSUME NEW x \in s, s \ {x} \in Bad PROVE FALSE
  <2>1. Cardinality(s \ {x}) = m - 1 /\ m \in Nat
    BY <1>2, <1>3, FS_RemoveElement
  <2>2. Cardinality(s \ {x}) \in Nat
    BY <1>4, FS_CardinalityType
  <2>3. m - 1 \in N
    BY <1>4, <2>1, <2>2
  <2>4. m <= m - 1
    BY <1>2, <2>3
  <2>5. QED
    BY <2>1, <2>4
<1>5. QED
    BY <1>4

\* A non-empty finite set of numbers has a last one.
LEMMA LastOne ==
    ASSUME NEW n \in Nat, NEW s \in SUBSET (1 .. n), s # {}
    PROVE  Max(s) \in s /\ \A k \in s : k <= Max(s)
<1> DEFINE S == {k \in Nat : k <= n /\ n - k \in s}
<1>1. \A k \in s : k \in Nat /\ k <= n /\ n - k \in Nat /\ n - (n - k) = k
    OBVIOUS
<1>2. S # {}
  <2>1. PICK k \in s : TRUE
    OBVIOUS
  <2>2. n - k \in S
    BY <1>1, <2>1
  <2>3. QED
    BY <2>2
<1>3. PICK m \in S : \A k \in S : m <= k
    BY <1>2, LeastNumber
<1>4. ASSUME NEW k \in s PROVE n - m >= k
  <2>1. n - k \in S
    BY <1>1
  <2>2. m \in Nat /\ m <= n - k
    BY <1>3, <2>1
  <2>3. QED
    BY <1>1, <2>2
<1>5. \E x \in s : \A y \in s : x >= y
    BY <1>4
<1>6. Max(s) \in s /\ \A y \in s : Max(s) >= y
    BY <1>5 DEF Max
<1>7. QED
    BY <1>1, <1>6

----------------------------------------------------------------------------
(* The two folds of the model: the sums and the images of the database *)

\* The element that the fold takes last, and what it does with it.
Chosen(sum, s) == IF sum THEN CHOOSE x \in s : TRUE ELSE Max(s)
Take(sum, v, x) == IF sum THEN x + v ELSE Append(v, Apply(Last(v), x))

\* h is the function by which the community fold goes through S.
IsFold(sum, base, f, S, h) ==
    h = [s \in SUBSET S |->
            IF s = {} THEN base
            ELSE Take(sum, h[s \ {Chosen(sum, s)}], f[Chosen(sum, s)])]

\* The recursion defines a function: by the size of the subsets.
LEMMA FoldExists ==
    ASSUME NEW sum \in BOOLEAN, NEW base, NEW f, NEW S, IsFiniteSet(S),
           \A s \in SUBSET S : s # {} => Chosen(sum, s) \in s
    PROVE  \E h : IsFold(sum, base, f, S, h)
<1> DEFINE First(s) == Chosen(sum, s)
           Small(n) == {s \in SUBSET S : Cardinality(s) <= n}
           Rule(h, s) == IF s = {} THEN base ELSE Take(sum, h[s \ {First(s)}], f[First(s)])
           Piece(h, n) == h = [s \in Small(n) |-> Rule(h, s)]
           Bad == {n \in Nat : \A h : ~Piece(h, n)}
<1>1. \A s \in SUBSET S : IsFiniteSet(s) /\ Cardinality(s) \in Nat
    BY FS_Subset, FS_CardinalityType
<1>2. \A s \in SUBSET S : s # {} => First(s) \in s
    OBVIOUS
<1> HIDE DEF First
<1>3. \A s \in SUBSET S : s # {} =>
          Cardinality(s \ {First(s)}) = Cardinality(s) - 1 /\ s \ {First(s)} \in SUBSET S
    BY <1>1, <1>2, FS_RemoveElement
<1>4. Bad = {}
  <2>1. SUFFICES ASSUME Bad # {} PROVE FALSE
    OBVIOUS
  <2>2. PICK n \in Bad : \A k \in Bad : n <= k
    BY <2>1, LeastNumber
  <2>3. n \in Nat /\ \A h : ~Piece(h, n)
    OBVIOUS
  <2>4. CASE n = 0
    <3> DEFINE z == [s \in Small(0) |-> base]
    <3>1. \A s \in Small(0) : s = {}
        BY <1>1, FS_EmptySet
    <3>2. Piece(z, n)
        BY <2>4, <3>1
    <3> HIDE DEF z, Piece
    <3>3. QED
        BY <2>3, <3>2
  <2>5. CASE n # 0
    <3>1. n - 1 \in Nat /\ n - 1 \notin Bad
      <4> HIDE DEF Bad
      <4>1. QED
        BY <2>2, <2>3, <2>5
    <3>2. PICK h : Piece(h, n - 1)
        BY <3>1
    <3> DEFINE k == [s \in Small(n) |-> Rule(h, s)]
    <3>3. \A s \in Small(n) : s \in SUBSET S /\ Cardinality(s) \in Nat /\ Cardinality(s) <= n
        BY <1>1
    <3>4. \A s \in Small(n - 1) : s \in Small(n)
        BY <1>1, <2>3, <3>1
    <3>5. \A s \in Small(n - 1) : k[s] = h[s]
        BY <3>2, <3>4
    <3>6. ASSUME NEW s \in Small(n), s # {}
          PROVE  k[s \ {First(s)}] = h[s \ {First(s)}]
      <4>1. s \ {First(s)} \in Small(n - 1)
        BY <1>3, <2>3, <3>1, <3>3, <3>6
      <4>2. QED
        BY <3>5, <4>1
    <3>7. \A s \in Small(n) : Rule(k, s) = Rule(h, s)
      <4> HIDE DEF k, Small
      <4>1. QED
        BY <3>6
    <3>8. Piece(k, n)
      <4>1. \A s \in Small(n) : k[s] = Rule(h, s)
        OBVIOUS
      <4>2. k = [s \in Small(n) |-> k[s]]
        OBVIOUS
      <4> HIDE DEF k, Small, Rule
      <4>3. QED
        BY <3>7, <4>1, <4>2
    <3> HIDE DEF k, Piece
    <3>9. QED
        BY <2>3, <3>8
  <2>6. QED
    BY <2>4, <2>5
<1>5. \E h : Piece(h, Cardinality(S))
  <2>1. Cardinality(S) \in Nat /\ Cardinality(S) \notin Bad
    BY <1>1, <1>4
  <2> HIDE DEF Piece
  <2>2. QED
    BY <2>1
<1>6. Small(Cardinality(S)) = SUBSET S
    BY <1>1, FS_Subset
<1>7. QED
    BY <1>5, <1>6 DEF IsFold, First

----------------------------------------------------------------------------
(* The images of the database *)

\* A finite sequence, of whatever it contains.
IsSeq(s) == s \in Seq(Range(s))

\* Goes through the writes, one at a time.
Replay(d, writes) ==
    CHOOSE h : h = [s \in SUBSET DOMAIN writes |->
        IF s = {} THEN <<d>>
        ELSE LET x == Max(s) IN
             Append(h[s \ {x}], Apply(Last(h[s \ {x}]), writes[x]))]

LEMMA ImagesFold ==
    ASSUME NEW d, NEW writes
    PROVE  Images(d, writes) = Replay(d, writes)[DOMAIN writes]
BY DEF Images, FoldLeft, MapThenFoldSet, Replay

LEMMA ReplayFolds ==
    ASSUME NEW d, NEW writes, IsSeq(writes)
    PROVE  IsFold(FALSE, <<d>>, writes, DOMAIN writes, Replay(d, writes))
<1>1. DOMAIN writes = 1 .. Len(writes) /\ Len(writes) \in Nat
    BY DEF IsSeq
<1>2. IsFiniteSet(DOMAIN writes)
  <2>1. 1 \in Int /\ Len(writes) \in Int
    BY <1>1
  <2>2. QED
    BY <1>1, <2>1, FS_Interval
<1>3. \A s \in SUBSET DOMAIN writes : s # {} => Chosen(FALSE, s) \in s
    BY <1>1, LastOne DEF Chosen
<1>4. PICK h : IsFold(FALSE, <<d>>, writes, DOMAIN writes, h)
    BY <1>2, <1>3, FoldExists
<1>5. h = [s \in SUBSET DOMAIN writes |->
        IF s = {} THEN <<d>>
        ELSE LET x == Max(s) IN
             Append(h[s \ {x}], Apply(Last(h[s \ {x}]), writes[x]))]
    BY <1>4 DEF IsFold, Take, Chosen
<1>6. Replay(d, writes) = [s \in SUBSET DOMAIN writes |->
        IF s = {} THEN <<d>>
        ELSE LET x == Max(s) IN
             Append(Replay(d, writes)[s \ {x}],
                    Apply(Last(Replay(d, writes)[s \ {x}]), writes[x]))]
    BY <1>5 DEF Replay
<1>7. QED
    BY <1>6 DEF IsFold, Take, Chosen

\* images is the database d before the first of the writes and after each one.
AreImages(d, writes, images) ==
    /\ IsSeq(images) /\ Len(images) = Len(writes) + 1
    /\ images[1] = d
    /\ \A i \in 1 .. Len(writes) : images[i + 1] = Apply(images[i], writes[i])

LEMMA ImagesAre ==
    ASSUME NEW d, NEW writes, IsSeq(writes)
    PROVE  AreImages(d, writes, Images(d, writes))
<1> DEFINE h == Replay(d, writes)
           n == Len(writes)
           Good(i) == /\ IsSeq(h[1 .. i]) /\ Len(h[1 .. i]) = i + 1
                      /\ h[1 .. i][1] = d
                      /\ \A j \in 1 .. i : h[1 .. i][j + 1] = Apply(h[1 .. i][j], writes[j])
           Bad == {i \in 0 .. n : ~Good(i)}
<1>1. DOMAIN writes = 1 .. n /\ n \in Nat
    BY DEF IsSeq
<1>2. h = [s \in SUBSET DOMAIN writes |->
            IF s = {} THEN <<d>>
            ELSE Append(h[s \ {Max(s)}], Apply(Last(h[s \ {Max(s)}]), writes[Max(s)]))]
  <2>1. IsFold(FALSE, <<d>>, writes, DOMAIN writes, h)
    BY ReplayFolds
  <2> HIDE DEF h
  <2>2. QED
    BY <2>1 DEF IsFold, Take, Chosen
<1> HIDE DEF h, n
<1>3. h[1 .. 0] = <<d>>
    BY <1>1, <1>2
<1>4. ASSUME NEW i \in 1 .. n
      PROVE  h[1 .. i] = Append(h[1 .. (i - 1)], Apply(Last(h[1 .. (i - 1)]), writes[i]))
  <2>1. 1 .. i \in SUBSET (1 .. n) /\ 1 .. i # {} /\ i \in 1 .. i
    BY <1>1
  <2>2. Max(1 .. i) \in 1 .. i /\ i <= Max(1 .. i)
    BY <1>1, <2>1, LastOne
  <2>3. Max(1 .. i) = i
    BY <2>2
  <2>4. (1 .. i) \ {i} = 1 .. (i - 1)
    OBVIOUS
  <2>5. QED
    BY <1>1, <1>2, <2>1, <2>3, <2>4
<1>5. Bad = {}
  <2>1. SUFFICES ASSUME Bad # {} PROVE FALSE
    OBVIOUS
  <2>2. PICK i \in Bad : \A k \in Bad : i <= k
    <3>1. Bad \in SUBSET Nat
        BY <1>1
    <3> HIDE DEF Bad
    <3>2. QED
        BY <2>1, <3>1, LeastNumber
  <2>3. i \in 0 .. n /\ ~Good(i)
    OBVIOUS
  <2>4. i # 0
    <3>1. IsSeq(<<d>>) /\ Len(<<d>>) = 1 /\ <<d>>[1] = d
        BY DEF IsSeq, Range
    <3>2. Good(0)
        BY <1>3, <3>1
    <3>3. QED
        BY <2>3, <3>2
  <2>5. Good(i - 1) /\ i - 1 \in Nat
    <3>1. i - 1 \in 0 .. n /\ ~(i <= i - 1)
        BY <1>1, <2>3, <2>4
    <3> HIDE DEF Good
    <3>2. QED
        BY <2>2, <3>1
  <2> DEFINE g == h[1 .. (i - 1)]
             v == Apply(Last(g), writes[i])
  <2>6. h[1 .. i] = Append(g, v)
    BY <1>4, <2>3, <2>4
  <2>7. /\ IsSeq(g) /\ Len(g) = i /\ g[1] = d
        /\ \A j \in 1 .. (i - 1) : g[j + 1] = Apply(g[j], writes[j])
    <3>1. (i - 1) + 1 = i
        BY <2>3
    <3>2. QED
        BY <2>5, <3>1
  <2>8. Last(g) = g[i]
    BY <2>7 DEF Last
  <2> HIDE DEF g, Good
  <2>9. g \in Seq(Range(g) \cup {v}) /\ Range(g) \subseteq Range(g) \cup {v}
    BY <2>7 DEF IsSeq
  <2>10. /\ Append(g, v) \in Seq(Range(g) \cup {v}) /\ Len(Append(g, v)) = i + 1
         /\ Append(g, v)[i + 1] = v
         /\ \A j \in 1 .. i : Append(g, v)[j] = g[j]
    BY <2>7, <2>9
  <2>11. IsSeq(Append(g, v))
    <3> DEFINE a == Append(g, v)
    <3>1. a \in Seq(Range(g) \cup {v})
        BY <2>10
    <3> HIDE DEF a, v
    <3>2. \A j \in 1 .. Len(a) : a[j] \in Range(a)
        BY <3>1 DEF Range
    <3>3. a \in Seq(Range(a))
        BY <3>1, <3>2
    <3>4. QED
        BY <3>3 DEF IsSeq, a
  <2>12. \A j \in 1 .. i : Append(g, v)[j + 1] = Apply(Append(g, v)[j], writes[j])
    <3>1. ASSUME NEW j \in 1 .. i, j = i
          PROVE  Append(g, v)[j + 1] = Apply(Append(g, v)[j], writes[j])
        BY <3>1, <2>8, <2>10 DEF v
    <3> HIDE DEF v
    <3>2. ASSUME NEW j \in 1 .. i, j # i
          PROVE  Append(g, v)[j + 1] = Apply(Append(g, v)[j], writes[j])
        BY <3>2, <2>3, <2>7, <2>10
    <3>3. QED
        BY <3>1, <3>2
  <2>13. Append(g, v)[1] = d
    BY <2>3, <2>4, <2>7, <2>10
  <2>14. Good(i)
    BY <2>6, <2>10, <2>11, <2>12, <2>13 DEF Good
  <2>15. QED
    BY <2>3, <2>14
<1>6. Good(n)
  <2>1. n \in 0 .. n
    BY <1>1
  <2> HIDE DEF Good
  <2>2. QED
    BY <1>5, <2>1
<1>7. Images(d, writes) = h[1 .. n]
    BY <1>1, ImagesFold DEF h
<1>8. QED
    BY <1>6, <1>7 DEF AreImages, n

\* What d is after all of the writes.
Result(d, writes) == Last(Images(d, writes))

LEMMA LastImage ==
    ASSUME NEW d, NEW writes, IsSeq(writes), NEW images, AreImages(d, writes, images)
    PROVE  /\ Len(writes) \in Nat
           /\ DOMAIN images = 1 .. Len(writes) + 1
           /\ Last(images) = images[Len(writes) + 1]
BY DEF IsSeq, AreImages, Last

\* The writes determine the images.
LEMMA ImagesUnique ==
    ASSUME NEW d, NEW writes, IsSeq(writes),
           NEW a, AreImages(d, writes, a), NEW b, AreImages(d, writes, b)
    PROVE  \A i \in 1 .. Len(writes) + 1 : a[i] = b[i]
<1> DEFINE n == Len(writes)
           Bad == {i \in 1 .. n + 1 : a[i] # b[i]}
<1>1. n \in Nat
    BY LastImage
<1>2. a[1] = d /\ b[1] = d
    BY DEF AreImages
<1>3. \A i \in 1 .. n : a[i + 1] = Apply(a[i], writes[i]) /\ b[i + 1] = Apply(b[i], writes[i])
    BY DEF AreImages
<1>4. SUFFICES ASSUME Bad # {} PROVE FALSE
    OBVIOUS
<1> HIDE DEF n
<1>5. Bad \in SUBSET Nat
    BY <1>1
<1>6. PICK i \in Bad : \A k \in Bad : i <= k
  <2> HIDE DEF Bad
  <2>1. QED
    BY <1>4, <1>5, LeastNumber
<1>7. i \in 1 .. n + 1 /\ a[i] # b[i] /\ i # 1
    BY <1>2
<1>8. i - 1 \in 1 .. n /\ (i - 1) + 1 = i
    BY <1>1, <1>7
<1>9. a[i - 1] = b[i - 1]
  <2>1. i - 1 \in 1 .. n + 1 /\ i - 1 \notin Bad
    <3>1. ~(i <= i - 1) /\ i - 1 \in 1 .. n + 1
        BY <1>1, <1>8
    <3> HIDE DEF Bad
    <3>2. QED
        BY <1>6, <3>1
  <2>2. QED
    BY <2>1
<1>10. QED
    BY <1>3, <1>7, <1>8, <1>9

\* Sequences put one after the other.
LEMMA Concatenation ==
    ASSUME NEW s, IsSeq(s), NEW t, IsSeq(t)
    PROVE  /\ IsSeq(s \o t)
           /\ Range(s \o t) = Range(s) \cup Range(t)
           /\ Len(s) \in Nat /\ Len(t) \in Nat /\ Len(s \o t) = Len(s) + Len(t)
           /\ \A i \in 1 .. Len(s) : (s \o t)[i] = s[i]
           /\ \A i \in 1 .. Len(t) : (s \o t)[Len(s) + i] = t[i]
<1> DEFINE A == Range(s) \cup Range(t)
           u == s \o t
<1>1. s \in Seq(A) /\ t \in Seq(A)
    BY DEF IsSeq
<1>2. DOMAIN s = 1 .. Len(s) /\ DOMAIN t = 1 .. Len(t)
    BY DEF IsSeq
<1>3. /\ u \in Seq(A) /\ DOMAIN u = 1 .. Len(u)
      /\ Len(s) \in Nat /\ Len(t) \in Nat /\ Len(u) = Len(s) + Len(t)
      /\ \A i \in 1 .. Len(s) : u[i] = s[i]
      /\ \A i \in 1 .. Len(t) : u[Len(s) + i] = t[i]
  <2> HIDE DEF A
  <2>1. QED
    BY <1>1
<1> HIDE DEF u
<1>4. Range(u) \subseteq Range(s) \cup Range(t)
    BY <1>3 DEF Range
<1>5. ASSUME NEW x \in Range(s) PROVE x \in Range(u)
  <2>1. PICK i \in 1 .. Len(s) : x = s[i]
    BY <1>2 DEF Range
  <2>2. i \in 1 .. Len(u) /\ u[i] = x
    BY <1>3, <2>1
  <2>3. QED
    BY <1>3, <2>2 DEF Range
<1>6. ASSUME NEW x \in Range(t) PROVE x \in Range(u)
  <2>1. PICK i \in 1 .. Len(t) : x = t[i]
    BY <1>2 DEF Range
  <2>2. Len(s) + i \in 1 .. Len(u) /\ u[Len(s) + i] = x
    BY <1>3, <2>1
  <2>3. QED
    BY <1>3, <2>2 DEF Range
<1>7. Range(u) = Range(s) \cup Range(t)
    BY <1>4, <1>5, <1>6
<1>8. IsSeq(u)
    BY <1>3, <1>7 DEF IsSeq
<1>9. QED
    BY <1>3, <1>7, <1>8 DEF u

\* Short sequences.
LEMMA Singleton ==
    ASSUME NEW x
    PROVE  IsSeq(<<x>>) /\ Range(<<x>>) = {x}
BY DEF IsSeq, Range

LEMMA EmptySequence == IsSeq(<<>>) /\ Range(<<>>) = {}
BY DEF IsSeq, Range

\* A function on the first numbers is a sequence.
LEMMA FunctionIsSeq ==
    ASSUME NEW k \in Nat, NEW f, f = [i \in 1 .. k |-> f[i]]
    PROVE  IsSeq(f) /\ Len(f) = k
<1>1. \A i \in 1 .. k : f[i] \in Range(f)
    BY DEF Range
<1>2. f \in Seq(Range(f))
    BY <1>1
<1>3. QED
    BY <1>2 DEF IsSeq

\* Writes in two parts: the second part starts where the first one ends.
LEMMA ResultOfBoth ==
    ASSUME NEW d, NEW s, IsSeq(s), NEW t, IsSeq(t)
    PROVE  Result(d, s \o t) = Result(Result(d, s), t)
<1> DEFINE u == s \o t
           a == Images(d, u)
           m == Len(s)
           n == Len(t)
           first == [i \in 1 .. m + 1 |-> a[i]]
           second == [i \in 1 .. n + 1 |-> a[m + i]]
<1>1. /\ IsSeq(u) /\ m \in Nat /\ n \in Nat /\ Len(u) = m + n
      /\ \A i \in 1 .. m : u[i] = s[i]
      /\ \A i \in 1 .. n : u[m + i] = t[i]
    BY Concatenation
<1>2. AreImages(d, u, a)
    BY <1>1, ImagesAre
<1> HIDE DEF u, a, m, n
<1>3. a[1] = d /\ \A i \in 1 .. m + n : a[i + 1] = Apply(a[i], u[i])
    BY <1>1, <1>2 DEF AreImages
<1>4. AreImages(d, s, first)
  <2>1. /\ IsSeq(first) /\ Len(first) = m + 1
    <3>1. first = [i \in 1 .. m + 1 |-> first[i]] /\ m + 1 \in Nat
        BY <1>1
    <3> HIDE DEF first
    <3>2. QED
        BY <3>1, FunctionIsSeq
  <2>2. first[1] = d
    BY <1>1, <1>3
  <2>3. \A i \in 1 .. m : first[i + 1] = Apply(first[i], s[i])
    BY <1>1, <1>3
  <2> HIDE DEF first
  <2>4. QED
    BY <2>1, <2>2, <2>3 DEF AreImages, m
<1>5. Result(d, s) = a[m + 1]
  <2>1. AreImages(d, s, Images(d, s))
    BY ImagesAre
  <2>2. Result(d, s) = Images(d, s)[m + 1] /\ m + 1 \in 1 .. m + 1
    BY <1>1, <2>1, LastImage DEF Result, m
  <2>3. Images(d, s)[m + 1] = first[m + 1]
    <3> HIDE DEF first
    <3>1. QED
        BY <1>4, <2>1, <2>2, ImagesUnique DEF m
  <2>4. QED
    BY <2>2, <2>3
<1>6. AreImages(a[m + 1], t, second)
  <2>1. /\ IsSeq(second) /\ Len(second) = n + 1
    <3>1. second = [i \in 1 .. n + 1 |-> second[i]] /\ n + 1 \in Nat
        BY <1>1
    <3> HIDE DEF second
    <3>2. QED
        BY <3>1, FunctionIsSeq
  <2>2. second[1] = a[m + 1]
    BY <1>1
  <2>3. ASSUME NEW i \in 1 .. n PROVE second[i + 1] = Apply(second[i], t[i])
    <3>1. m + i \in 1 .. m + n /\ (m + i) + 1 = m + (i + 1)
        BY <1>1
    <3>2. a[(m + i) + 1] = Apply(a[m + i], u[m + i])
        BY <1>3, <3>1
    <3>3. second[i + 1] = a[m + (i + 1)] /\ second[i] = a[m + i]
        BY <1>1
    <3>4. u[m + i] = t[i]
        BY <1>1
    <3> HIDE DEF second
    <3>5. QED
        BY <3>1, <3>2, <3>3, <3>4
  <2> HIDE DEF second
  <2>4. QED
    BY <2>1, <2>2, <2>3 DEF AreImages, n
<1>7. Result(a[m + 1], t) = a[m + (n + 1)]
  <2> DEFINE middle == a[m + 1]
             b == Images(middle, t)
  <2>1. AreImages(middle, t, b)
    BY ImagesAre
  <2>2. Result(middle, t) = b[n + 1] /\ n + 1 \in 1 .. n + 1
    BY <1>1, <2>1, LastImage DEF Result, n
  <2>3. b[n + 1] = second[n + 1]
    <3>1. AreImages(middle, t, second)
        BY <1>6
    <3> HIDE DEF second, middle, b
    <3>2. \A i \in 1 .. n + 1 : b[i] = second[i]
        BY <3>1, <2>1, ImagesUnique DEF n
    <3>3. QED
        BY <3>2, <2>2
  <2>4. second[n + 1] = a[m + (n + 1)]
    BY <2>2
  <2>5. QED
    BY <2>2, <2>3, <2>4
<1>8. Result(d, u) = a[(m + n) + 1]
    BY <1>1, <1>2, LastImage DEF Result, a
<1>9. (m + n) + 1 = m + (n + 1)
    BY <1>1
<1>10. QED
    BY <1>5, <1>7, <1>8, <1>9 DEF u

\* Induction along the images: a set of places without a first one is empty.
LEMMA NoFirst ==
    ASSUME NEW n \in Nat, NEW Bad \in SUBSET (1 .. n + 1), 1 \notin Bad,
           \A i \in 1 .. n : i + 1 \in Bad => i \in Bad
    PROVE  Bad = {}
<1>1. SUFFICES ASSUME Bad # {} PROVE FALSE
    OBVIOUS
<1>2. Bad \in SUBSET Nat
    OBVIOUS
<1>3. PICK i \in Bad : \A k \in Bad : i <= k
    BY <1>1, <1>2, LeastNumber
<1>4. i - 1 \in 1 .. n /\ (i - 1) + 1 = i
    BY <1>3
<1>5. i - 1 \in Bad
    BY <1>3, <1>4
<1>6. QED
    BY <1>3, <1>4, <1>5

LEMMA ApplyPut ==
    ASSUME NEW d, NEW w, w.op = "put"
    PROVE  /\ DOMAIN Apply(d, w) = DOMAIN d \cup {w.key}
           /\ Apply(d, w)[w.key] = w.value
           /\ \A k \in DOMAIN d : k # w.key => Apply(d, w)[k] = d[k]
BY DEF Apply, PutIn

LEMMA ApplyDelete ==
    ASSUME NEW d, NEW w, w.op # "put"
    PROVE  /\ DOMAIN Apply(d, w) = DOMAIN d \ {w.key}
           /\ \A k \in DOMAIN d : k # w.key => Apply(d, w)[k] = d[k]
BY DEF Apply, Restrict

\* Where the value of a key comes from, and which keys stay.
Follows(d, writes, image) ==
    /\ \A k \in DOMAIN image :
          \/ k \in DOMAIN d /\ image[k] = d[k]
          \/ \E w \in Range(writes) : w.op = "put" /\ w.key = k /\ w.value = image[k]
    /\ \A k \in DOMAIN d :
          (\A w \in Range(writes) : w.key = k => w.op = "put") => k \in DOMAIN image
    /\ IsFiniteSet(DOMAIN d) => IsFiniteSet(DOMAIN image)

LEMMA ApplyFollows ==
    ASSUME NEW d, NEW writes, NEW image, Follows(d, writes, image),
           NEW w \in Range(writes)
    PROVE  Follows(d, writes, Apply(image, w))
<1> DEFINE e == Apply(image, w)
<1>1. CASE w.op = "put"
  <2>1. /\ DOMAIN e = DOMAIN image \cup {w.key} /\ e[w.key] = w.value
        /\ \A k \in DOMAIN image : k # w.key => e[k] = image[k]
    BY <1>1, ApplyPut
  <2>2. IsFiniteSet(DOMAIN image) => IsFiniteSet(DOMAIN e)
    BY <2>1, FS_AddElement
  <2> HIDE DEF e
  <2>3. ASSUME NEW k \in DOMAIN e
        PROVE  \/ k \in DOMAIN d /\ e[k] = d[k]
               \/ \E v \in Range(writes) : v.op = "put" /\ v.key = k /\ v.value = e[k]
    <3>1. CASE k = w.key
        BY <1>1, <2>1, <3>1
    <3>2. CASE k # w.key
        BY <2>1, <2>3, <3>2 DEF Follows
    <3>3. QED
        BY <3>1, <3>2
  <2>4. Follows(d, writes, e)
    BY <2>1, <2>2, <2>3 DEF Follows
  <2>5. QED
    BY <2>4 DEF e
<1>2. CASE w.op # "put"
  <2>1. /\ DOMAIN e = DOMAIN image \ {w.key}
        /\ \A k \in DOMAIN image : k # w.key => e[k] = image[k]
    BY <1>2, ApplyDelete
  <2>2. IsFiniteSet(DOMAIN image) => IsFiniteSet(DOMAIN e)
    BY <2>1, FS_RemoveElement
  <2> HIDE DEF e
  <2>3. ASSUME NEW k \in DOMAIN e
        PROVE  \/ k \in DOMAIN d /\ e[k] = d[k]
               \/ \E v \in Range(writes) : v.op = "put" /\ v.key = k /\ v.value = e[k]
    <3>1. k \in DOMAIN image /\ e[k] = image[k]
        BY <2>1, <2>3
    <3>2. QED
        BY <3>1 DEF Follows
  <2>4. ASSUME NEW k \in DOMAIN d, \A v \in Range(writes) : v.key = k => v.op = "put"
        PROVE  k \in DOMAIN e
    BY <1>2, <2>1, <2>4 DEF Follows
  <2>5. Follows(d, writes, e)
    BY <2>2, <2>3, <2>4 DEF Follows
  <2>6. QED
    BY <2>5 DEF e
<1>3. QED
    BY <1>1, <1>2

LEMMA WriteInRange ==
    ASSUME NEW s, IsSeq(s)
    PROVE  /\ Len(s) \in Nat
           /\ \A i \in 1 .. Len(s) : s[i] \in Range(s)
           /\ \A x \in Range(s) : \E i \in 1 .. Len(s) : s[i] = x
<1>1. Len(s) \in Nat /\ DOMAIN s = 1 .. Len(s)
    BY DEF IsSeq
<1>2. QED
    BY <1>1 DEF Range

LEMMA ImagesFollow ==
    ASSUME NEW d, NEW writes, IsSeq(writes), NEW image \in Range(Images(d, writes))
    PROVE  Follows(d, writes, image)
<1> DEFINE a == Images(d, writes)
           n == Len(writes)
           Bad == {i \in 1 .. n + 1 : ~Follows(d, writes, a[i])}
<1>1. /\ n \in Nat /\ DOMAIN a = 1 .. n + 1 /\ a[1] = d
      /\ \A i \in 1 .. n : a[i + 1] = Apply(a[i], writes[i]) /\ writes[i] \in Range(writes)
    BY ImagesAre, LastImage, WriteInRange DEF AreImages
<1> HIDE DEF a, n
<1>2. 1 \notin Bad
    BY <1>1 DEF Follows
<1>3. ASSUME NEW i \in 1 .. n, i + 1 \in Bad PROVE i \in Bad
  <2>1. ~Follows(d, writes, Apply(a[i], writes[i])) /\ i \in 1 .. n + 1
    BY <1>1, <1>3
  <2>2. ~Follows(d, writes, a[i])
    BY <1>1, <2>1, ApplyFollows
  <2>3. QED
    BY <2>1, <2>2
<1>4. Bad = {}
  <2>1. Bad \in SUBSET (1 .. n + 1)
    OBVIOUS
  <2> HIDE DEF Bad
  <2>2. QED
    BY <1>1, <1>2, <1>3, <2>1, NoFirst
<1>5. PICK i \in 1 .. n + 1 : image = a[i]
    BY <1>1 DEF Range, a
<1>6. QED
    BY <1>4, <1>5

LEMMA ResultIsImage ==
    ASSUME NEW d, NEW writes, IsSeq(writes)
    PROVE  /\ Result(d, writes) \in Range(Images(d, writes))
           /\ Follows(d, writes, Result(d, writes))
<1>1. /\ Result(d, writes) = Images(d, writes)[Len(writes) + 1] /\ Len(writes) \in Nat
      /\ DOMAIN Images(d, writes) = 1 .. Len(writes) + 1
    BY ImagesAre, LastImage DEF Result
<1>2. Result(d, writes) \in Range(Images(d, writes))
    BY <1>1 DEF Range
<1>3. QED
    BY <1>2, ImagesFollow

\* The steps from one image to the next, and the last one.
LEMMA ImageSteps ==
    ASSUME NEW d, NEW writes, IsSeq(writes)
    PROVE  LET a == Images(d, writes)
               n == Len(writes)
           IN /\ n \in Nat /\ DOMAIN a = 1 .. n + 1 /\ Result(d, writes) = a[n + 1]
              /\ \A i \in 1 .. n : a[i + 1] = Apply(a[i], writes[i]) /\ writes[i] \in Range(writes)
<1>1. AreImages(d, writes, Images(d, writes))
    BY ImagesAre
<1>2. QED
    BY <1>1, LastImage, WriteInRange DEF AreImages, Result

\* What the writes do to a key, when they all do the same.
Untouched(writes, k) == \A w \in Range(writes) : w.key # k
Puts(writes, k, v) ==
    /\ \E w \in Range(writes) : w.key = k
    /\ \A w \in Range(writes) : w.key = k => w.op = "put" /\ w.value = v
Removes(writes, k) ==
    /\ \E w \in Range(writes) : w.key = k
    /\ \A w \in Range(writes) : w.key = k => w.op # "put"

LEMMA ResultUntouched ==
    ASSUME NEW d, NEW writes, IsSeq(writes), NEW k, Untouched(writes, k)
    PROVE  /\ k \in DOMAIN Result(d, writes) <=> k \in DOMAIN d
           /\ k \in DOMAIN d => Result(d, writes)[k] = d[k]
<1>1. Follows(d, writes, Result(d, writes))
    BY ResultIsImage
<1>2. QED
    BY <1>1 DEF Follows, Untouched

LEMMA ResultPuts ==
    ASSUME NEW d, NEW writes, IsSeq(writes), NEW k, NEW v, Puts(writes, k, v)
    PROVE  k \in DOMAIN Result(d, writes) /\ Result(d, writes)[k] = v
<1> DEFINE a == Images(d, writes)
           n == Len(writes)
           Bad == {i \in 1 .. n + 1 : /\ \E j \in 1 .. i - 1 : writes[j].key = k
                                      /\ ~(k \in DOMAIN a[i] /\ a[i][k] = v)}
<1>1. /\ n \in Nat /\ DOMAIN a = 1 .. n + 1 /\ Result(d, writes) = a[n + 1]
      /\ \A i \in 1 .. n : a[i + 1] = Apply(a[i], writes[i]) /\ writes[i] \in Range(writes)
    BY ImageSteps
<1>2. PICK p \in 1 .. n : writes[p].key = k
    BY WriteInRange DEF Puts
<1> HIDE DEF a, n
<1>3. 1 \notin Bad
    OBVIOUS
<1>4. ASSUME NEW i \in 1 .. n, i + 1 \in Bad PROVE i \in Bad
  <2> DEFINE w == writes[i]
  <2>0. w \in Range(writes) /\ a[i + 1] = Apply(a[i], w)
    BY <1>1
  <2>1. /\ i + 1 \in 1 .. n + 1 /\ i \in 1 .. n + 1
        /\ ~(k \in DOMAIN Apply(a[i], w) /\ Apply(a[i], w)[k] = v)
    BY <1>1, <1>4, <2>0
  <2>2. PICK j \in 1 .. i : writes[j].key = k
    <3>1. (i + 1) - 1 = i
        BY <1>4
    <3>2. QED
        BY <1>4, <3>1
  <2>3. CASE w.op = "put"
    <3>0. /\ DOMAIN Apply(a[i], w) = DOMAIN a[i] \cup {w.key}
          /\ Apply(a[i], w)[w.key] = w.value
          /\ \A x \in DOMAIN a[i] : x # w.key => Apply(a[i], w)[x] = a[i][x]
        BY <2>3, ApplyPut
    <3>1. w.key # k
        BY <2>0, <2>1, <2>3, <3>0 DEF Puts
    <3>2. j \in 1 .. i - 1
        BY <1>1, <2>2, <3>1
    <3>3. ~(k \in DOMAIN a[i] /\ a[i][k] = v)
        BY <2>1, <3>0, <3>1
    <3>4. QED
        BY <2>1, <2>2, <3>2, <3>3
  <2>4. CASE w.op # "put"
    <3>0. /\ DOMAIN Apply(a[i], w) = DOMAIN a[i] \ {w.key}
          /\ \A x \in DOMAIN a[i] : x # w.key => Apply(a[i], w)[x] = a[i][x]
        BY <2>4, ApplyDelete
    <3>1. w.key # k
        BY <2>0, <2>4 DEF Puts
    <3>2. j \in 1 .. i - 1
        BY <1>1, <2>2, <3>1
    <3>3. ~(k \in DOMAIN a[i] /\ a[i][k] = v)
        BY <2>1, <3>0, <3>1
    <3>4. QED
        BY <2>1, <2>2, <3>2, <3>3
  <2>5. QED
    BY <2>3, <2>4
<1>5. Bad = {}
  <2>1. Bad \in SUBSET (1 .. n + 1)
    OBVIOUS
  <2> HIDE DEF Bad
  <2>2. QED
    BY <1>1, <1>3, <1>4, <2>1, NoFirst
<1>6. n + 1 \in 1 .. n + 1 /\ p \in 1 .. (n + 1) - 1
    BY <1>1
<1>7. k \in DOMAIN a[n + 1] /\ a[n + 1][k] = v
    BY <1>2, <1>5, <1>6
<1>8. QED
    BY <1>1, <1>7

LEMMA ResultRemoves ==
    ASSUME NEW d, NEW writes, IsSeq(writes), NEW k, Removes(writes, k)
    PROVE  k \notin DOMAIN Result(d, writes)
<1> DEFINE a == Images(d, writes)
           n == Len(writes)
           Bad == {i \in 1 .. n + 1 : /\ \E j \in 1 .. i - 1 : writes[j].key = k
                                      /\ k \in DOMAIN a[i]}
<1>1. /\ n \in Nat /\ DOMAIN a = 1 .. n + 1 /\ Result(d, writes) = a[n + 1]
      /\ \A i \in 1 .. n : a[i + 1] = Apply(a[i], writes[i]) /\ writes[i] \in Range(writes)
    BY ImageSteps
<1>2. PICK p \in 1 .. n : writes[p].key = k
    BY WriteInRange DEF Removes
<1> HIDE DEF a, n
<1>3. 1 \notin Bad
    OBVIOUS
<1>4. ASSUME NEW i \in 1 .. n, i + 1 \in Bad PROVE i \in Bad
  <2> DEFINE w == writes[i]
  <2>0. w \in Range(writes) /\ a[i + 1] = Apply(a[i], w)
    BY <1>1
  <2>1. /\ i + 1 \in 1 .. n + 1 /\ i \in 1 .. n + 1
        /\ k \in DOMAIN Apply(a[i], w)
    BY <1>1, <1>4, <2>0
  <2>2. PICK j \in 1 .. i : writes[j].key = k
    <3>1. (i + 1) - 1 = i
        BY <1>4
    <3>2. QED
        BY <1>4, <3>1
  <2>3. w.key # k
    <3>1. CASE w.op = "put"
        BY <2>0, <3>1 DEF Removes
    <3>2. CASE w.op # "put"
      <4>1. DOMAIN Apply(a[i], w) = DOMAIN a[i] \ {w.key}
        BY <3>2, ApplyDelete
      <4>2. QED
        BY <2>1, <4>1
    <3>3. QED
        BY <3>1, <3>2
  <2>4. j \in 1 .. i - 1
    BY <1>1, <2>2, <2>3
  <2>5. k \in DOMAIN a[i]
    <3>1. DOMAIN Apply(a[i], w) \subseteq DOMAIN a[i] \cup {w.key}
      <4>1. CASE w.op = "put"
        BY <4>1, ApplyPut
      <4>2. CASE w.op # "put"
        <5>1. DOMAIN Apply(a[i], w) = DOMAIN a[i] \ {w.key}
            BY <4>2, ApplyDelete
        <5>2. QED
            BY <5>1
      <4>3. QED
        BY <4>1, <4>2
    <3>2. QED
        BY <2>1, <2>3, <3>1
  <2>6. QED
    BY <2>1, <2>2, <2>4, <2>5
<1>5. Bad = {}
  <2>1. Bad \in SUBSET (1 .. n + 1)
    OBVIOUS
  <2> HIDE DEF Bad
  <2>2. QED
    BY <1>1, <1>3, <1>4, <2>1, NoFirst
<1>6. n + 1 \in 1 .. n + 1 /\ p \in 1 .. (n + 1) - 1
    BY <1>1
<1>7. QED
    BY <1>1, <1>2, <1>5, <1>6

----------------------------------------------------------------------------
(* The recursive functions of the model: FlattenSeq and DecayTimes *)

\* Where each one ends, with what, where it goes back to and what it adds.
Ends(flat, i) == i = (IF flat THEN 1 ELSE 0)
Base(flat, p) == IF flat THEN p[1] ELSE p.value
Added(flat, p, v, i) ==
    IF flat THEN v \o p[i] ELSE Decay(v, i = 1 /\ p.grace_remaining > 0)

IsLine(flat, p, n, h) ==
    h = [i \in (IF flat THEN 1 ELSE 0) .. n |->
            IF Ends(flat, i) THEN Base(flat, p) ELSE Added(flat, p, h[i - 1], i)]

LEMMA LineExists ==
    ASSUME NEW flat \in BOOLEAN, NEW p, NEW n \in Nat
    PROVE  \E h : IsLine(flat, p, n, h)
<1> DEFINE low == IF flat THEN 1 ELSE 0
           Rule(h, i) == IF Ends(flat, i) THEN Base(flat, p) ELSE Added(flat, p, h[i - 1], i)
           Piece(h, m) == h = [i \in low .. m |-> Rule(h, i)]
           Bad == {m \in Nat : \A h : ~Piece(h, m)}
<1>1. low \in {0, 1} /\ \A i : Ends(flat, i) <=> i = low
    BY DEF Ends
<1> HIDE DEF low
<1>2. Bad = {}
  <2>1. SUFFICES ASSUME Bad # {} PROVE FALSE
    OBVIOUS
  <2>2. PICK m \in Bad : \A k \in Bad : m <= k
    BY <2>1, LeastNumber
  <2>3. m \in Nat /\ \A h : ~Piece(h, m)
    OBVIOUS
  <2>4. CASE m = 0
    <3> DEFINE z == [i \in low .. 0 |-> Base(flat, p)]
    <3>1. \A i \in low .. 0 : i = low
        BY <1>1
    <3>2. Piece(z, m)
        BY <1>1, <2>4, <3>1
    <3> HIDE DEF z, Piece
    <3>3. QED
        BY <2>3, <3>2
  <2>5. CASE m # 0
    <3>1. m - 1 \in Nat /\ m - 1 \notin Bad
      <4> HIDE DEF Bad
      <4>1. QED
        BY <2>2, <2>3, <2>5
    <3>2. PICK h : Piece(h, m - 1)
        BY <3>1
    <3> DEFINE k == [i \in low .. m |-> Rule(h, i)]
    <3>3. \A i \in low .. (m - 1) : k[i] = h[i]
        BY <1>1, <2>3, <3>1, <3>2
    <3>4. \A i \in low .. m : ~Ends(flat, i) => i - 1 \in low .. (m - 1)
        BY <1>1, <2>3
    <3>5. \A i \in low .. m : Rule(k, i) = Rule(h, i)
      <4> HIDE DEF k
      <4>1. QED
        BY <3>3, <3>4
    <3>6. Piece(k, m)
      <4>1. \A i \in low .. m : k[i] = Rule(h, i)
        OBVIOUS
      <4>2. k = [i \in low .. m |-> k[i]]
        OBVIOUS
      <4> HIDE DEF k, Rule
      <4>3. QED
        BY <3>5, <4>1, <4>2
    <3> HIDE DEF k, Piece
    <3>7. QED
        BY <2>3, <3>6
  <2>6. QED
    BY <2>4, <2>5
<1>3. \E h : Piece(h, n)
  <2>1. n \notin Bad
    BY <1>2
  <2> HIDE DEF Piece
  <2>2. QED
    BY <2>1
<1>4. QED
    BY <1>3 DEF IsLine, low

\* FlattenSeq puts the sequences one after the other.
LEMMA Flattened ==
    ASSUME NEW n \in Nat \ {0}, NEW seqs, seqs = [i \in 1 .. n |-> seqs[i]],
           \A i \in 1 .. n : IsSeq(seqs[i])
    PROVE  /\ IsSeq(FlattenSeq(seqs))
           /\ Range(FlattenSeq(seqs)) = UNION {Range(seqs[i]) : i \in 1 .. n}
<1> DEFINE flatten == CHOOSE h : h = [i \in 1 .. n |-> IF i = 1 THEN seqs[i] ELSE h[i - 1] \o seqs[i]]
           Good(i) == /\ IsSeq(flatten[i])
                      /\ Range(flatten[i]) = UNION {Range(seqs[j]) : j \in 1 .. i}
           Bad == {i \in 1 .. n : ~Good(i)}
<1>1. Len(seqs) = n
    BY FunctionIsSeq
<1>2. FlattenSeq(seqs) = flatten[n]
    BY <1>1 DEF FlattenSeq
<1>3. flatten = [i \in 1 .. n |-> IF i = 1 THEN seqs[i] ELSE flatten[i - 1] \o seqs[i]]
  <2>1. PICK h : IsLine(TRUE, seqs, n, h)
    BY LineExists
  <2>2. h = [i \in 1 .. n |-> IF i = 1 THEN seqs[i] ELSE h[i - 1] \o seqs[i]]
    BY <2>1 DEF IsLine, Ends, Base, Added
  <2>3. QED
    BY <2>2
<1> HIDE DEF flatten
<1>4. \A i \in 1 .. n : Good(i)
  <2>1. SUFFICES ASSUME Bad # {} PROVE FALSE
    OBVIOUS
  <2>2. PICK i \in Bad : \A k \in Bad : i <= k
    <3>1. Bad \in SUBSET Nat
        OBVIOUS
    <3> HIDE DEF Bad
    <3>2. QED
        BY <2>1, <3>1, LeastNumber
  <2>3. i \in 1 .. n /\ ~Good(i)
    OBVIOUS
  <2>4. CASE i = 1
    <3>1. flatten[1] = seqs[1]
        BY <1>3
    <3>2. {Range(seqs[j]) : j \in 1 .. 1} = {Range(seqs[1])}
        OBVIOUS
    <3>3. Good(1)
        BY <3>1, <3>2
    <3>4. QED
        BY <2>3, <2>4, <3>3
  <2>5. CASE i # 1
    <3>1. i - 1 \in 1 .. n /\ i - 1 \notin Bad
      <4>1. i - 1 \in 1 .. n /\ ~(i <= i - 1)
        BY <2>3, <2>5
      <4> HIDE DEF Bad
      <4>2. QED
        BY <2>2, <4>1
    <3>2. Good(i - 1)
        BY <3>1
    <3>3. flatten[i] = flatten[i - 1] \o seqs[i]
        BY <1>3, <2>3, <2>5
    <3>4. IsSeq(flatten[i]) /\ Range(flatten[i]) = Range(flatten[i - 1]) \cup Range(seqs[i])
      <4>1. IsSeq(flatten[i - 1]) /\ IsSeq(seqs[i])
        BY <2>3, <3>2
      <4>2. QED
        BY <3>3, <4>1, Concatenation
    <3>5. \A j : j \in 1 .. i <=> j \in 1 .. (i - 1) \/ j = i
        BY <2>3, <2>5
    <3>6. UNION {Range(seqs[j]) : j \in 1 .. i}
            = (UNION {Range(seqs[j]) : j \in 1 .. (i - 1)}) \cup Range(seqs[i])
        BY <3>5
    <3>7. Good(i)
        BY <3>2, <3>4, <3>6
    <3>8. QED
        BY <2>3, <3>7
  <2>6. QED
    BY <2>4, <2>5
<1>5. n \in 1 .. n
    OBVIOUS
<1>6. QED
    BY <1>2, <1>4, <1>5

\* What ForEach gathers, for a function from miners to writes.
Gathered(S, order, w) ==
    FlattenSeq([i \in DOMAIN order |-> IF order[i] \in S THEN w[order[i]] ELSE <<>>])

\* An order of the miners has each of them.
LEMMA OrderHasAll ==
    ASSUME IsFiniteSet(Miners), NEW order \in SetToSeqs(Miners)
    PROVE  \E n \in Nat \ {0} :
                /\ DOMAIN order = 1 .. n
                /\ \A i \in 1 .. n : order[i] \in Miners
                /\ \A m \in Miners : \E i \in 1 .. n : order[i] = m
<1> DEFINE n == Cardinality(Miners)
<1>1. n \in Nat
    BY FS_CardinalityType
<1>2. n # 0
    BY EpochAssumption, FS_EmptySet
<1>3. order \in [1 .. n -> Miners] /\ \A i, j \in 1 .. n : i # j => order[i] # order[j]
    BY DEF SetToSeqs
<1> HIDE DEF n
<1>4. order \in Injection(1 .. n, Miners)
    BY <1>3 DEF Injection, IsInjective
<1>5. Cardinality(1 .. n) = n
  <2>1. 1 \in Int /\ n \in Int
    BY <1>1
  <2>2. Cardinality(1 .. n) = IF 1 > n THEN 0 ELSE n - 1 + 1
    BY <2>1, FS_Interval
  <2>3. QED
    BY <1>1, <1>2, <2>2
<1>6. order \in Surjection(1 .. n, Miners)
    BY <1>4, <1>5, FS_Injection DEF n
<1>7. \A m \in Miners : \E i \in 1 .. n : order[i] = m
    BY <1>6 DEF Surjection
<1>8. QED
    BY <1>1, <1>2, <1>3, <1>7

LEMMA GatheredFacts ==
    ASSUME IsFiniteSet(Miners), NEW order \in SetToSeqs(Miners),
           NEW S \in SUBSET Miners, NEW w, \A m \in S : IsSeq(w[m])
    PROVE  /\ IsSeq(Gathered(S, order, w))
           /\ Range(Gathered(S, order, w)) = UNION {Range(w[m]) : m \in S}
<1> DEFINE seqs == [i \in DOMAIN order |-> IF order[i] \in S THEN w[order[i]] ELSE <<>>]
<1>1. PICK n \in Nat \ {0} :
          /\ DOMAIN order = 1 .. n
          /\ \A i \in 1 .. n : order[i] \in Miners
          /\ \A m \in Miners : \E i \in 1 .. n : order[i] = m
    BY OrderHasAll
<1>2. seqs = [i \in 1 .. n |-> seqs[i]] /\ \A i \in 1 .. n : IsSeq(seqs[i])
    BY <1>1, EmptySequence
<1>3. \A i \in 1 .. n : order[i] \in S => seqs[i] = w[order[i]]
    BY <1>1
<1>4. \A i \in 1 .. n : order[i] \notin S => Range(seqs[i]) = {}
    BY <1>1, EmptySequence
<1>5. Gathered(S, order, w) = FlattenSeq(seqs)
    BY DEF Gathered
<1> HIDE DEF seqs
<1>6. IsSeq(FlattenSeq(seqs)) /\ Range(FlattenSeq(seqs)) = UNION {Range(seqs[i]) : i \in 1 .. n}
    BY <1>2, Flattened
<1>7. UNION {Range(seqs[i]) : i \in 1 .. n} = UNION {Range(w[m]) : m \in S}
  <2>1. ASSUME NEW x, NEW i \in 1 .. n, x \in Range(seqs[i])
        PROVE  \E m \in S : x \in Range(w[m])
    BY <2>1, <1>3, <1>4
  <2>2. ASSUME NEW x, NEW m \in S, x \in Range(w[m])
        PROVE  \E i \in 1 .. n : x \in Range(seqs[i])
    BY <2>2, <1>1, <1>3
  <2>3. QED
    BY <2>1, <2>2
<1>8. QED
    BY <1>5, <1>6, <1>7

----------------------------------------------------------------------------
(* Sums *)

IsSum(f, S, h) == IsFold(TRUE, 0, f, S, h)

SumOver(f, S) == (CHOOSE h : IsSum(f, S, h))[S]

LEMMA SumExists ==
    ASSUME NEW S, IsFiniteSet(S), NEW f
    PROVE  \E h : IsSum(f, S, h)
<1>1. \A s \in SUBSET S : s # {} => Chosen(TRUE, s) \in s
    BY DEF Chosen
<1>2. QED
    BY <1>1, FoldExists DEF IsSum

\* SumFunction is the sum over the domain.
LEMMA SumFunctionIs ==
    ASSUME NEW f
    PROVE  SumFunction(f) = SumOver(f, DOMAIN f)
BY DEF SumFunction, SumFunctionOnSet, FoldFunctionOnSet, MapThenFoldSet, SumOver, IsSum,
       IsFold, Take, Chosen

\* Any element may be the one that is added last.
LEMMA SumStep ==
    ASSUME NEW D, NEW f \in [D -> Int], NEW S \in SUBSET D, IsFiniteSet(S),
           NEW h, IsSum(f, S, h)
    PROVE  /\ h[{}] = 0
           /\ \A s \in SUBSET S : h[s] \in Int
           /\ \A s \in SUBSET S : \A y \in s : h[s] = f[y] + h[s \ {y}]
<1>1. h[{}] = 0
    BY DEF IsSum, IsFold, Take, Chosen
<1>2. \A s \in SUBSET S : s # {} =>
          LET x == CHOOSE x \in s : TRUE IN x \in s /\ h[s] = f[x] + h[s \ {x}]
    BY DEF IsSum, IsFold, Take, Chosen
<1>3. \A s \in SUBSET S : s # {} => \E x \in s : h[s] = f[x] + h[s \ {x}]
    BY <1>2
<1>4. \A s \in SUBSET S : IsFiniteSet(s)
    BY FS_Subset
<1>5. \A s \in SUBSET S : h[s] \in Int
  <2> DEFINE Bad == {s \in SUBSET S : h[s] \notin Int}
  <2>1. SUFFICES ASSUME Bad # {} PROVE FALSE
    OBVIOUS
  <2>2. PICK s \in Bad : \A x \in s : s \ {x} \notin Bad
    BY <1>4, <2>1, SmallestSet
  <2>3. s # {}
    BY <1>1, <2>2
  <2>4. PICK x \in s : h[s] = f[x] + h[s \ {x}]
    BY <1>3, <2>3
  <2>5. h[s \ {x}] \in Int /\ f[x] \in Int
    BY <2>2
  <2>6. QED
    BY <2>4, <2>5
<1>6. \A s \in SUBSET S : \A y \in s : h[s] = f[y] + h[s \ {y}]
  <2> DEFINE Bad == {s \in SUBSET S : \E y \in s : h[s] # f[y] + h[s \ {y}]}
  <2>1. SUFFICES ASSUME Bad # {} PROVE FALSE
    OBVIOUS
  <2>2. PICK s \in Bad : \A x \in s : s \ {x} \notin Bad
    BY <1>4, <2>1, SmallestSet
  <2>3. PICK y \in s : h[s] # f[y] + h[s \ {y}]
    BY <2>2
  <2>4. PICK x \in s : h[s] = f[x] + h[s \ {x}]
    BY <1>3, <2>3
  <2>5. x # y
    BY <2>3, <2>4
  <2>6. h[s \ {x}] = f[y] + h[(s \ {x}) \ {y}]
    BY <2>2, <2>5
  <2>7. h[s \ {y}] = f[x] + h[(s \ {y}) \ {x}]
    BY <2>2, <2>5
  <2>8. (s \ {x}) \ {y} = (s \ {y}) \ {x} /\ (s \ {y}) \ {x} \in SUBSET S
    OBVIOUS
  <2>9. f[x] \in Int /\ f[y] \in Int /\ h[(s \ {y}) \ {x}] \in Int
    BY <1>5
  <2> DEFINE rest == h[(s \ {y}) \ {x}]
  <2>10. h[s \ {x}] = f[y] + rest /\ h[s \ {y}] = f[x] + rest /\ rest \in Int
    BY <2>6, <2>7, <2>8, <2>9
  <2> HIDE DEF rest
  <2>11. f[x] + h[s \ {x}] = f[y] + h[s \ {y}]
    BY <2>9, <2>10
  <2>12. QED
    BY <2>3, <2>4, <2>11
<1>7. QED
    BY <1>1, <1>5, <1>6

\* Sums over different sets agree where both are defined.
LEMMA SumUnique ==
    ASSUME NEW D, NEW f \in [D -> Int],
           NEW S \in SUBSET D, IsFiniteSet(S), NEW h, IsSum(f, S, h),
           NEW T \in SUBSET D, IsFiniteSet(T), NEW k, IsSum(f, T, k),
           NEW s, s \subseteq S, s \subseteq T
    PROVE  h[s] = k[s]
<1> DEFINE Bad == {r \in SUBSET s : h[r] # k[r]}
<1>1. SUFFICES ASSUME Bad # {} PROVE FALSE
    OBVIOUS
<1>2. \A r \in SUBSET s : IsFiniteSet(r)
    BY FS_Subset
<1>3. PICK r \in Bad : \A x \in r : r \ {x} \notin Bad
    BY <1>1, <1>2, SmallestSet
<1>4. /\ h[{}] = 0 /\ k[{}] = 0
      /\ \A x \in r : h[r] = f[x] + h[r \ {x}]
      /\ \A x \in r : k[r] = f[x] + k[r \ {x}]
    BY SumStep
<1>5. r # {}
    BY <1>3, <1>4
<1>6. PICK x \in r : TRUE
    BY <1>5
<1>7. h[r \ {x}] = k[r \ {x}]
    BY <1>3
<1>8. QED
    BY <1>3, <1>4, <1>6, <1>7

\* The recursion over a sum, with any element taken out.
LEMMA SumFacts ==
    ASSUME NEW D, NEW f \in [D -> Int], NEW S \in SUBSET D, IsFiniteSet(S)
    PROVE  /\ SumOver(f, {}) = 0
           /\ SumOver(f, S) \in Int
           /\ \A y \in S : SumOver(f, S) = f[y] + SumOver(f, S \ {y})
<1> DEFINE H(T) == CHOOSE h : IsSum(f, T, h)
<1>1. \A T \in SUBSET S : IsFiniteSet(T) /\ IsSum(f, T, H(T))
    BY SumExists, FS_Subset
<1>2. IsSum(f, {}, H({})) /\ IsSum(f, S, H(S))
    BY <1>1
<1> HIDE DEF H
<1>3. H({})[{}] = 0 /\ H(S)[S] \in Int
    BY <1>1, <1>2, SumStep
<1>4. ASSUME NEW y \in S PROVE H(S)[S] = f[y] + H(S \ {y})[S \ {y}]
  <2>1. H(S)[S] = f[y] + H(S)[S \ {y}]
    BY <1>2, SumStep
  <2>2. H(S)[S \ {y}] = H(S \ {y})[S \ {y}]
    <3> DEFINE T == S \ {y}
    <3>1. T \in SUBSET D /\ IsFiniteSet(T) /\ IsSum(f, T, H(T)) /\ T \subseteq S
        BY <1>1
    <3> HIDE DEF T
    <3>2. H(S)[T] = H(T)[T]
        BY <3>1, <1>2, SumUnique
    <3>3. QED
        BY <3>2 DEF T
  <2>3. QED
    BY <2>1, <2>2
<1>5. QED
    BY <1>3, <1>4 DEF SumOver, H

\* The sum over two disjoint sets.
LEMMA SumOfUnion ==
    ASSUME NEW D, NEW f \in [D -> Int], NEW S \in SUBSET D, IsFiniteSet(S),
           NEW T \in SUBSET D, IsFiniteSet(T), S \cap T = {}
    PROVE  SumOver(f, S \cup T) = SumOver(f, S) + SumOver(f, T)
<1> DEFINE Bad == {s \in SUBSET S : SumOver(f, s \cup T) # SumOver(f, s) + SumOver(f, T)}
<1>1. SUFFICES ASSUME Bad # {} PROVE FALSE
    OBVIOUS
<1>2. \A s \in SUBSET S : IsFiniteSet(s) /\ IsFiniteSet(s \cup T)
    BY FS_Subset, FS_Union
<1>3. PICK s \in Bad : \A x \in s : s \ {x} \notin Bad
    BY <1>1, <1>2, SmallestSet
<1>4. SumOver(f, {}) = 0 /\ SumOver(f, T) \in Int
    BY SumFacts
<1>5. s # {}
  <2>1. ASSUME s = {} PROVE FALSE
    <3>1. s \cup T = T
        BY <2>1
    <3>2. QED
        BY <1>3, <1>4, <2>1, <3>1
  <2>2. QED
    BY <2>1
<1>6. PICK x \in s : TRUE
    BY <1>5
<1>7. (s \cup T) \ {x} = (s \ {x}) \cup T
    OBVIOUS
<1>8. SumOver(f, (s \ {x}) \cup T) = SumOver(f, s \ {x}) + SumOver(f, T)
    BY <1>3
<1>9. /\ s \in SUBSET D /\ s \cup T \in SUBSET D /\ s \ {x} \in SUBSET D
      /\ IsFiniteSet(s) /\ IsFiniteSet(s \cup T) /\ IsFiniteSet(s \ {x})
    BY <1>2
<1>10. SumOver(f, s) = f[x] + SumOver(f, s \ {x}) /\ SumOver(f, s \ {x}) \in Int
    BY <1>9, SumFacts
<1>11. SumOver(f, s \cup T) = f[x] + SumOver(f, (s \cup T) \ {x})
    BY <1>9, SumFacts
<1>12. f[x] \in Int
    OBVIOUS
<1>13. QED
    BY <1>3, <1>4, <1>7, <1>8, <1>10, <1>11, <1>12

\* A sum of natural numbers is one, and a part of it is not more.
LEMMA SumIsNat ==
    ASSUME NEW D, NEW f \in [D -> Nat], NEW S \in SUBSET D, IsFiniteSet(S)
    PROVE  SumOver(f, S) \in Nat
<1> DEFINE Bad == {s \in SUBSET S : SumOver(f, s) \notin Nat}
<1>0. f \in [D -> Int]
    OBVIOUS
<1>1. SUFFICES ASSUME Bad # {} PROVE FALSE
    OBVIOUS
<1>2. \A s \in SUBSET S : IsFiniteSet(s)
    BY FS_Subset
<1>3. PICK s \in Bad : \A x \in s : s \ {x} \notin Bad
    BY <1>1, <1>2, SmallestSet
<1>4. SumOver(f, {}) = 0
    BY <1>0, SumFacts
<1>5. PICK x \in s : TRUE
    BY <1>3, <1>4
<1>6. SumOver(f, s) = f[x] + SumOver(f, s \ {x})
    BY <1>0, <1>2, SumFacts
<1>7. SumOver(f, s \ {x}) \in Nat /\ f[x] \in Nat
    BY <1>3
<1>8. QED
    BY <1>3, <1>6, <1>7

LEMMA SumOfPart ==
    ASSUME NEW D, NEW f \in [D -> Nat], NEW S \in SUBSET D, IsFiniteSet(S),
           NEW T \in SUBSET S
    PROVE  SumOver(f, T) <= SumOver(f, S)
<1>1. /\ f \in [D -> Int] /\ T \in SUBSET D /\ S \ T \in SUBSET D
      /\ T \cap (S \ T) = {} /\ T \cup (S \ T) = S
    OBVIOUS
<1>2. IsFiniteSet(T) /\ IsFiniteSet(S \ T)
    BY FS_Subset
<1>3. SumOver(f, T \cup (S \ T)) = SumOver(f, T) + SumOver(f, S \ T)
    BY <1>1, <1>2, SumOfUnion
<1>4. SumOver(f, T) \in Nat /\ SumOver(f, S \ T) \in Nat
    BY <1>1, <1>2, SumIsNat
<1>5. SumOver(f, S) = SumOver(f, T) + SumOver(f, S \ T)
    BY <1>1, <1>3
<1> DEFINE a == SumOver(f, S)
           b == SumOver(f, T)
           c == SumOver(f, S \ T)
<1>6. a = b + c /\ b \in Nat /\ c \in Nat
    BY <1>4, <1>5
<1> HIDE DEF a, b, c
<1>7. b <= a
    BY <1>6
<1>8. QED
    BY <1>7 DEF a, b

\* A sum is monotonic in what it adds up.
LEMMA SumMonotonic ==
    ASSUME NEW D, NEW f \in [D -> Nat], NEW E, NEW g \in [E -> Nat],
           NEW S, S \subseteq D, S \subseteq E, IsFiniteSet(S),
           \A x \in S : f[x] <= g[x]
    PROVE  SumOver(f, S) <= SumOver(g, S)
<1> DEFINE Bad == {s \in SUBSET S : ~(SumOver(f, s) <= SumOver(g, s))}
<1>0. f \in [D -> Int] /\ g \in [E -> Int]
    OBVIOUS
<1>1. SUFFICES ASSUME Bad # {} PROVE FALSE
    OBVIOUS
<1>2. \A s \in SUBSET S : IsFiniteSet(s) /\ s \in SUBSET D /\ s \in SUBSET E
    BY FS_Subset
<1>3. PICK s \in Bad : \A x \in s : s \ {x} \notin Bad
    BY <1>1, <1>2, SmallestSet
<1>4. SumOver(f, {}) = 0 /\ SumOver(g, {}) = 0
    BY <1>0, <1>2, SumFacts
<1>5. PICK x \in s : TRUE
    BY <1>3, <1>4
<1>6. /\ SumOver(f, s) = f[x] + SumOver(f, s \ {x})
      /\ SumOver(g, s) = g[x] + SumOver(g, s \ {x})
    BY <1>0, <1>2, SumFacts
<1>7. SumOver(f, s \ {x}) \in Nat /\ SumOver(g, s \ {x}) \in Nat
    BY <1>2, SumIsNat
<1>8. SumOver(f, s \ {x}) <= SumOver(g, s \ {x}) /\ f[x] <= g[x] /\ f[x] \in Nat /\ g[x] \in Nat
    BY <1>3
<1> DEFINE a == SumOver(f, s)
           b == SumOver(g, s)
           c == SumOver(f, s \ {x})
           e == SumOver(g, s \ {x})
           u == f[x]
           v == g[x]
<1>9. ~(a <= b)
    BY <1>3
<1>10. a = u + c /\ b = v + e /\ c \in Nat /\ e \in Nat /\ u \in Nat /\ v \in Nat /\ c <= e /\ u <= v
    BY <1>6, <1>7, <1>8
<1> HIDE DEF a, b, c, e, u, v
<1>11. QED
    BY <1>9, <1>10

\* A sum over other keys: key[x] carries what x does.
LEMMA SumOfKeys ==
    ASSUME NEW D, NEW f \in [D -> Nat], IsFiniteSet(D), NEW E, NEW g \in [E -> Nat],
           NEW key \in [D -> E], \A x, y \in D : key[x] = key[y] => x = y,
           \A x \in D : g[key[x]] = f[x]
    PROVE  IsFiniteSet(Range(key)) /\ SumOver(g, Range(key)) = SumOver(f, D)
<1> DEFINE Keys(s) == {key[x] : x \in s}
           Bad == {s \in SUBSET D : ~(IsFiniteSet(Keys(s)) /\ SumOver(g, Keys(s)) = SumOver(f, s))}
<1>0. f \in [D -> Int] /\ g \in [E -> Int]
    OBVIOUS
<1>1. \A s \in SUBSET D : IsFiniteSet(s) /\ Keys(s) \in SUBSET E
    BY FS_Subset
<1>2. ASSUME Bad # {} PROVE FALSE
  <2>1. PICK s \in Bad : \A x \in s : s \ {x} \notin Bad
    BY <1>1, <1>2, SmallestSet
  <2>2. SumOver(f, {}) = 0 /\ SumOver(g, {}) = 0 /\ Keys({}) = {} /\ IsFiniteSet({})
    BY <1>0, FS_EmptySet, SumFacts
  <2>3. PICK x \in s : TRUE
    BY <2>1, <2>2
  <2>4. /\ IsFiniteSet(Keys(s \ {x})) /\ SumOver(g, Keys(s \ {x})) = SumOver(f, s \ {x})
    BY <2>1, <2>3
  <2>5. Keys(s) = Keys(s \ {x}) \cup {key[x]} /\ Keys(s) \ {key[x]} = Keys(s \ {x})
        /\ key[x] \in Keys(s)
    <3>1. s \in SUBSET D /\ x \in s /\ \A y \in s \ {x} : key[y] # key[x]
        BY <2>1, <2>3
    <3>2. key[x] \in Keys(s) /\ key[x] \notin Keys(s \ {x})
        BY <3>1
    <3>3. Keys(s) = Keys(s \ {x}) \cup {key[x]}
        BY <3>1
    <3> HIDE DEF Keys
    <3>4. QED
        BY <3>2, <3>3
  <2>6. IsFiniteSet(Keys(s))
    <3>1. IsFiniteSet(Keys(s \ {x}))
        BY <2>4
    <3> HIDE DEF Keys
    <3>2. IsFiniteSet(Keys(s \ {x}) \cup {key[x]})
        BY <3>1, FS_AddElement
    <3>3. QED
        BY <2>5, <3>2
  <2>7. Keys(s) \in SUBSET E /\ s \in SUBSET D /\ IsFiniteSet(s)
    BY <1>1, <2>1
  <2>8. SumOver(g, Keys(s)) = g[key[x]] + SumOver(g, Keys(s) \ {key[x]})
    <3> DEFINE K == Keys(s)
    <3>1. K \in SUBSET E /\ IsFiniteSet(K) /\ key[x] \in K
        BY <2>5, <2>6, <2>7
    <3> HIDE DEF K
    <3>2. \A y \in K : SumOver(g, K) = g[y] + SumOver(g, K \ {y})
        BY <1>0, <3>1, SumFacts
    <3>3. SumOver(g, K) = g[key[x]] + SumOver(g, K \ {key[x]})
        BY <3>1, <3>2
    <3>4. QED
        BY <3>3 DEF K
  <2>9. SumOver(f, s) = f[x] + SumOver(f, s \ {x})
    BY <1>0, <2>3, <2>7, SumFacts
  <2>10. g[key[x]] = f[x]
    BY <2>3, <2>7
  <2>11. QED
    BY <2>1, <2>4, <2>5, <2>6, <2>8, <2>9, <2>10
<1>3. D \notin Bad
    BY <1>2
<1>4. Keys(D) = Range(key)
    BY DEF Range
<1>5. QED
    BY <1>3, <1>4

----------------------------------------------------------------------------
(* Division *)

LEMMA Quotient ==
    ASSUME NEW a \in Nat, NEW t \in Nat \ {0}
    PROVE  a \div t \in Nat /\ (a \div t) * t <= a
OBVIOUS

LEMMA Products ==
    ASSUME NEW a \in Nat, NEW b \in Nat, NEW c \in Nat
    PROVE  /\ a * b \in Nat /\ a * b = b * a
           /\ (a + b) * c = a * c + b * c
           /\ a <= b => a * c <= b * c
           /\ c # 0 /\ a * c <= b * c => a <= b
OBVIOUS

\* What is shared out in proportion, rounded down, is not more than there was.
LEMMA SharesOfTotal ==
    ASSUME NEW D, NEW a \in [D -> Nat], NEW p \in Nat, IsFiniteSet(D),
           NEW t \in Nat \ {0}, t = SumOver(a, D),
           NEW q, q = [x \in D |-> (a[x] * p) \div t]
    PROVE  q \in [D -> Nat] /\ SumOver(q, D) <= p
<1> DEFINE Bad == {s \in SUBSET D : ~(SumOver(q, s) * t <= SumOver(a, s) * p)}
<1>1. \A x \in D : a[x] * p \in Nat /\ q[x] \in Nat /\ q[x] * t <= a[x] * p
  <2>1. ASSUME NEW x \in D PROVE a[x] * p \in Nat /\ q[x] \in Nat /\ q[x] * t <= a[x] * p
    <3>1. a[x] \in Nat
        OBVIOUS
    <3>2. a[x] * p \in Nat
        BY <3>1, Products
    <3>3. q[x] = (a[x] * p) \div t
        OBVIOUS
    <3>4. QED
        BY <3>2, <3>3, Quotient
  <2>2. QED
    BY <2>1
<1>2. q \in [D -> Nat]
    BY <1>1
<1>3. q \in [D -> Int] /\ a \in [D -> Int]
    BY <1>2
<1>4. \A s \in SUBSET D : IsFiniteSet(s)
    BY FS_Subset
<1>5. ASSUME Bad # {} PROVE FALSE
  <2>1. PICK s \in Bad : \A x \in s : s \ {x} \notin Bad
    BY <1>4, <1>5, SmallestSet
  <2>2. SumOver(q, {}) = 0 /\ SumOver(a, {}) = 0
    BY <1>3, SumFacts
  <2>3. PICK x \in s : TRUE
    BY <2>1, <2>2
  <2> DEFINE r == s \ {x}
             qs == SumOver(q, s)
             qr == SumOver(q, r)
             as == SumOver(a, s)
             ar == SumOver(a, r)
  <2>4. qs = q[x] + qr /\ as = a[x] + ar
    BY <1>3, <1>4, <2>3, SumFacts
  <2>5. qs \in Nat /\ qr \in Nat /\ as \in Nat /\ ar \in Nat /\ q[x] \in Nat /\ a[x] \in Nat
    <3>1. r \in SUBSET D /\ s \in SUBSET D /\ IsFiniteSet(r) /\ IsFiniteSet(s)
        BY <1>4
    <3> HIDE DEF r
    <3>2. QED
        BY <1>2, <2>3, <3>1, SumIsNat
  <2>6. qr * t <= ar * p
    BY <2>1, <2>3
  <2>7. ~(qs * t <= as * p)
    BY <2>1
  <2>8. q[x] * t <= a[x] * p
    BY <1>1, <2>3
  <2> HIDE DEF qs, qr, as, ar
  <2>9. qs * t = q[x] * t + qr * t /\ as * p = a[x] * p + ar * p
    BY <2>4, <2>5, Products
  <2>10. q[x] * t \in Nat /\ qr * t \in Nat /\ a[x] * p \in Nat /\ ar * p \in Nat
    BY <2>5, Products
  <2> DEFINE b == q[x] * t
             c == qr * t
             e == a[x] * p
             f == ar * p
  <2>11. /\ b \in Nat /\ c \in Nat /\ e \in Nat /\ f \in Nat
         /\ b <= e /\ c <= f /\ ~(b + c <= e + f)
    BY <2>6, <2>7, <2>8, <2>9, <2>10
  <2> HIDE DEF b, c, e, f
  <2>12. QED
    BY <2>11
<1>6. SumOver(q, D) * t <= t * p
    BY <1>5
<1>7. SumOver(q, D) \in Nat
    BY <1>2, SumIsNat
<1>8. SumOver(q, D) * t <= p * t
    BY <1>6, Products
<1>9. SumOver(q, D) <= p
    BY <1>7, <1>8, Products
<1>10. QED
    BY <1>2, <1>9

----------------------------------------------------------------------------
(* Loyalty *)

LoyaltyRecord == [value : Nat, last_epoch : Nat, missed_epochs : Nat,
                  consecutive_epochs : Nat, grace_remaining : Nat]

LEMMA DecayFalls ==
    ASSUME NEW v \in Nat, NEW g \in BOOLEAN
    PROVE  Decay(v, g) \in Nat /\ Decay(v, g) <= v
BY DEF Decay

LEMMA DecayTimesFalls ==
    ASSUME NEW l, l.value \in Nat, NEW n \in Int
    PROVE  DecayTimes(l, n) \in Nat /\ DecayTimes(l, n) <= l.value
<1> DEFINE decayed == CHOOSE h : h = [i \in 0 .. n |->
                          IF i = 0 THEN l.value
                          ELSE Decay(h[i - 1], i = 1 /\ l.grace_remaining > 0)]
           Bad == {i \in 0 .. n : ~(decayed[i] \in Nat /\ decayed[i] <= l.value)}
<1>1. CASE n <= 0
    BY <1>1 DEF DecayTimes
<1>2. CASE n > 0
  <2>1. n \in Nat /\ n \in 0 .. n
    BY <1>2
  <2>2. DecayTimes(l, n) = decayed[n]
    BY <1>2 DEF DecayTimes
  <2>3. decayed = [i \in 0 .. n |->
            IF i = 0 THEN l.value
            ELSE Decay(decayed[i - 1], i = 1 /\ l.grace_remaining > 0)]
    <3>1. PICK h : IsLine(FALSE, l, n, h)
        BY <2>1, LineExists
    <3>2. h = [i \in 0 .. n |->
                IF i = 0 THEN l.value
                ELSE Decay(h[i - 1], i = 1 /\ l.grace_remaining > 0)]
        BY <3>1 DEF IsLine, Ends, Base, Added
    <3>3. QED
        BY <3>2
  <2> HIDE DEF decayed
  <2>4. ASSUME Bad # {} PROVE FALSE
    <3>1. Bad \in SUBSET Nat
        OBVIOUS
    <3>2. PICK i \in Bad : \A k \in Bad : i <= k
      <4> HIDE DEF Bad
      <4>1. QED
        BY <2>4, <3>1, LeastNumber
    <3>3. i \in 0 .. n /\ ~(decayed[i] \in Nat /\ decayed[i] <= l.value)
        OBVIOUS
    <3>4. i # 0
        BY <2>3, <3>3
    <3>5. i - 1 \in 0 .. n /\ i - 1 \notin Bad
      <4>1. i - 1 \in 0 .. n /\ ~(i <= i - 1)
        BY <3>3, <3>4
      <4> HIDE DEF Bad
      <4>2. QED
        BY <3>2, <4>1
    <3>6. decayed[i - 1] \in Nat /\ decayed[i - 1] <= l.value
        BY <3>5
    <3>7. decayed[i] = Decay(decayed[i - 1], i = 1 /\ l.grace_remaining > 0)
        BY <2>3, <3>3, <3>4
    <3>8. decayed[i] \in Nat /\ decayed[i] <= decayed[i - 1]
      <4> DEFINE g == i = 1 /\ l.grace_remaining > 0
      <4>1. g \in BOOLEAN
        OBVIOUS
      <4> HIDE DEF g
      <4>2. QED
        BY <3>6, <3>7, <4>1, DecayFalls DEF g
    <3>9. QED
        BY <3>3, <3>6, <3>8
  <2>5. n \notin Bad
    BY <2>4
  <2>6. QED
    BY <2>1, <2>2, <2>5
<1>3. QED
    BY <1>1, <1>2

\* A record whose value is within its last epoch.
EarnedOnce(l, e) == l \in LoyaltyRecord /\ l.value <= l.last_epoch /\ l.last_epoch <= e

LEMMA UpdateEarnsOnce ==
    ASSUME NEW e \in Nat, NEW l, EarnedOnce(l, e), NEW participated \in BOOLEAN
    PROVE  EarnedOnce(UpdateLoyalty(l, e, participated), e)
<1>1. /\ l.value \in Nat /\ l.last_epoch \in Nat /\ l.missed_epochs \in Nat
      /\ l.consecutive_epochs \in Nat /\ l.grace_remaining \in Nat
      /\ l.value <= l.last_epoch /\ l.last_epoch <= e
    BY DEF EarnedOnce, LoyaltyRecord
<1>2. CASE e <= l.last_epoch
    BY <1>2 DEF UpdateLoyalty
<1>3. CASE ~(e <= l.last_epoch)
  <2> DEFINE p == DecayTimes(l, e - l.last_epoch - 1)
             q == DecayTimes(l, e - l.last_epoch)
  <2>1. p \in Nat /\ p <= l.value /\ q \in Nat /\ q <= l.value
    BY <1>1, DecayTimesFalls
  <2>2. CASE participated
    <3>1. UpdateLoyalty(l, e, participated) =
              [value |-> p + 1, last_epoch |-> e, missed_epochs |-> 0,
               consecutive_epochs |-> l.consecutive_epochs + 1, grace_remaining |-> 3]
        BY <1>3, <2>2 DEF UpdateLoyalty, Participate, LOYALTY_GRACE_PERIOD
    <3> HIDE DEF p
    <3>2. p + 1 <= e /\ p + 1 \in Nat /\ l.consecutive_epochs + 1 \in Nat
        BY <1>1, <1>3, <2>1
    <3>3. QED
        BY <3>1, <3>2 DEF EarnedOnce, LoyaltyRecord
  <2>3. CASE ~participated
    <3> DEFINE missed == l.missed_epochs + e - l.last_epoch
               grace == IF l.grace_remaining > 0 THEN l.grace_remaining - 1 ELSE 0
    <3>1. UpdateLoyalty(l, e, participated) =
              [value |-> q, last_epoch |-> e, missed_epochs |-> missed,
               consecutive_epochs |-> 0, grace_remaining |-> grace]
        BY <1>3, <2>3 DEF UpdateLoyalty, Miss
    <3>2. q <= e /\ missed \in Nat /\ grace \in Nat
        BY <1>1, <1>3, <2>1
    <3> HIDE DEF q, missed, grace
    <3>3. QED
        BY <2>1, <3>1, <3>2 DEF EarnedOnce, LoyaltyRecord
  <2>4. QED
    BY <2>2, <2>3
<1>4. QED
    BY <1>2, <1>3

LEMMA NewLoyaltyEarned == \A e \in Nat : EarnedOnce(NewLoyalty, e)
BY DEF EarnedOnce, LoyaltyRecord, NewLoyalty

----------------------------------------------------------------------------
(* The invariant *)

\* What PoCI stands for: a contribution is a natural number.
ContributionsAreNat == \A s, l \in Nat, b \in BOOLEAN : PoCI(s, l, b) \in Nat

MinerRecord == [shares : Nat, total_rewards : Nat, payout : BOOLEAN]
Partial(R) == UNION {[S -> R] : S \in SUBSET Miners}

NodeRecord == [height : Nat, epoch : Nat, total_emitted : Nat,
               miners : Partial(MinerRecord), bonds : SUBSET Miners,
               loyalty : Partial(LoyaltyRecord), share_count : [Miners -> Nat],
               pending_slashes : SUBSET Miners, processed_slashes : SUBSET Miners]

NodeOK(n) ==
    /\ n \in NodeRecord
    /\ \A m \in DOMAIN n.loyalty : EarnedOnce(n.loyalty[m], n.epoch)

OutputKinds == {"treasury", "reward"}

\* What may be stored under a key, in epoch e: also in the middle of a handler.
FitsKind(k, v, e) ==
    /\ k[1] = "miner" => v \in MinerRecord
    /\ k[1] = "loyalty" => EarnedOnce(v, e)
    /\ k[1] \in OutputKinds => v \in Nat

Fits(k, v, e) ==
    /\ FitsKind(k, v, e)
    /\ k = HeightKey => v \in Nat /\ e <= EpochAt(v)
    /\ k = EmittedKey => v \in Nat

DiskOK(d, e) ==
    /\ HeightKey \in DOMAIN d /\ EmittedKey \in DOMAIN d
    /\ IsFiniteSet(DOMAIN d)
    /\ \A k \in DOMAIN d : Fits(k, d[k], e)

\* The records of the database are those of the memory.
MirrorsRecords(d, kind, f) ==
    \A m \in Miners :
        /\ m \in DOMAIN f <=> <<kind, m>> \in DOMAIN d
        /\ m \in DOMAIN f => d[<<kind, m>>] = f[m]

Mirrors(n, d) ==
    /\ MirrorsRecords(d, "miner", n.miners)
    /\ MirrorsRecords(d, "loyalty", n.loyalty)
    /\ \A m \in Miners : m \in n.bonds <=> <<"bond", m>> \in DOMAIN d

Counters(n, d) ==
    /\ HeightKey \in DOMAIN d /\ d[HeightKey] = n.height
    /\ EmittedKey \in DOMAIN d /\ d[EmittedKey] = n.total_emitted
    /\ n.epoch = EpochAt(n.height)

\* SharesMatchPool, of any memory.
SharesMatch(n) ==
    /\ \A m \in Miners : n.share_count[m] <= MinerOf(n, m).shares
    /\ crashes = 0 /\ SumFunction(Credited(n)) < MaxPool
       => \A m \in Miners : MinerOf(n, m).shares = n.share_count[m]

OutputsOf(d) == {k \in DOMAIN d : k[1] \in OutputKinds}
MintedOf(d) == SumFunction([k \in OutputsOf(d) |-> d[k]])

\* A handler that finds n and d and leaves r pays nothing, or within the cap.
PaysWithin(n, d, r) ==
    MintedOf(d) + GenesisSupply <= n.total_emitted
        => \/ MintedOf(r) <= MintedOf(d)
           \/ MintedOf(r) + GenesisSupply <= MaxSupply

\* What holds of the memory and the database between handlers.
Settled(n, d) ==
    /\ NodeOK(n)
    /\ DiskOK(d, n.epoch)
    /\ Mirrors(n, d)
    /\ Counters(n, d)

Inv ==
    /\ Settled(node, disk)
    /\ crashes \in Nat
    /\ SharesMatch(node)
    /\ crashes = 0 => MintedOf(disk) + GenesisSupply <= node.total_emitted
    /\ crashes = 0 => MintedOf(disk) = 0 \/ MintedOf(disk) + GenesisSupply <= MaxSupply

----------------------------------------------------------------------------
(* What writes may be, and what they make of the database *)

WriteOK(w, e) ==
    /\ w.op = "put" => Fits(w.key, w.value, e)
    /\ w.key \in {HeightKey, EmittedKey} => w.op = "put"

WritesOK(writes, e) == IsSeq(writes) /\ \A w \in Range(writes) : WriteOK(w, e)

LEMMA ImagesOK ==
    ASSUME NEW d, NEW e, DiskOK(d, e),
           NEW writes, WritesOK(writes, e),
           NEW image \in Range(Images(d, writes))
    PROVE  DiskOK(image, e)
<1>1. Follows(d, writes, image)
    BY ImagesFollow DEF WritesOK
<1>2. HeightKey \in DOMAIN image /\ EmittedKey \in DOMAIN image
    BY <1>1 DEF Follows, WritesOK, WriteOK, DiskOK
<1>3. ASSUME NEW k \in DOMAIN image PROVE Fits(k, image[k], e)
    BY <1>1, <1>3 DEF Follows, WritesOK, WriteOK, DiskOK
<1>4. QED
    BY <1>1, <1>2, <1>3 DEF DiskOK, Follows

\* How writes change the records of one kind from f to g.
TracksRecords(kind, f, g, writes) ==
    \A m \in Miners :
        \/ /\ Untouched(writes, <<kind, m>>)
           /\ m \in DOMAIN g <=> m \in DOMAIN f
           /\ m \in DOMAIN f => g[m] = f[m]
        \/ m \in DOMAIN g /\ Puts(writes, <<kind, m>>, g[m])
        \/ m \notin DOMAIN g /\ Removes(writes, <<kind, m>>)

TracksBonds(f, g, writes) ==
    \A m \in Miners :
        \/ Untouched(writes, <<"bond", m>>) /\ (m \in g <=> m \in f)
        \/ m \in g /\ Puts(writes, <<"bond", m>>, TRUE)
        \/ m \notin g /\ Removes(writes, <<"bond", m>>)

Tracks(n, next, writes) ==
    /\ TracksRecords("miner", n.miners, next.miners, writes)
    /\ TracksRecords("loyalty", n.loyalty, next.loyalty, writes)
    /\ TracksBonds(n.bonds, next.bonds, writes)

LEMMA RecordsMirrored ==
    ASSUME NEW d, NEW kind, NEW f, MirrorsRecords(d, kind, f),
           NEW writes, IsSeq(writes), NEW g, TracksRecords(kind, f, g, writes)
    PROVE  MirrorsRecords(Result(d, writes), kind, g)
<1> DEFINE r == Result(d, writes)
<1>1. SUFFICES ASSUME NEW m \in Miners
               PROVE  /\ m \in DOMAIN g <=> <<kind, m>> \in DOMAIN r
                      /\ m \in DOMAIN g => r[<<kind, m>>] = g[m]
    BY DEF MirrorsRecords
<1>2. CASE /\ Untouched(writes, <<kind, m>>)
           /\ m \in DOMAIN g <=> m \in DOMAIN f
           /\ m \in DOMAIN f => g[m] = f[m]
  <2>1. /\ <<kind, m>> \in DOMAIN r <=> <<kind, m>> \in DOMAIN d
        /\ <<kind, m>> \in DOMAIN d => r[<<kind, m>>] = d[<<kind, m>>]
    BY <1>2, ResultUntouched
  <2> HIDE DEF r
  <2>2. QED
    BY <1>2, <2>1 DEF MirrorsRecords
<1>3. CASE m \in DOMAIN g /\ Puts(writes, <<kind, m>>, g[m])
    BY <1>3, ResultPuts
<1>4. CASE m \notin DOMAIN g /\ Removes(writes, <<kind, m>>)
    BY <1>4, ResultRemoves
<1>5. QED
    BY <1>2, <1>3, <1>4 DEF TracksRecords

LEMMA Mirrored ==
    ASSUME NEW d, NEW n, Mirrors(n, d),
           NEW writes, IsSeq(writes), NEW next, Tracks(n, next, writes)
    PROVE  Mirrors(next, Result(d, writes))
<1> DEFINE r == Result(d, writes)
<1>1. MirrorsRecords(r, "miner", next.miners) /\ MirrorsRecords(r, "loyalty", next.loyalty)
    BY RecordsMirrored DEF Mirrors, Tracks
<1>2. ASSUME NEW m \in Miners PROVE m \in next.bonds <=> <<"bond", m>> \in DOMAIN r
  <2>1. CASE Untouched(writes, <<"bond", m>>) /\ (m \in next.bonds <=> m \in n.bonds)
    BY <2>1, ResultUntouched DEF Mirrors
  <2>2. CASE m \in next.bonds /\ Puts(writes, <<"bond", m>>, TRUE)
    BY <2>2, ResultPuts
  <2>3. CASE m \notin next.bonds /\ Removes(writes, <<"bond", m>>)
    BY <2>3, ResultRemoves
  <2>4. QED
    BY <2>1, <2>2, <2>3 DEF Tracks, TracksBonds
<1>3. QED
    BY <1>1, <1>2 DEF Mirrors

LEMMA MirroredAfter ==
    ASSUME NEW d, NEW first, IsSeq(first), NEW n, Mirrors(n, Result(d, first)),
           NEW writes, IsSeq(writes), NEW next, Tracks(n, next, writes)
    PROVE  IsSeq(first \o writes) /\ Mirrors(next, Result(d, first \o writes))
<1>1. Mirrors(next, Result(Result(d, first), writes))
    BY Mirrored
<1>2. Result(d, first \o writes) = Result(Result(d, first), writes)
    BY ResultOfBoth
<1>3. QED
    BY <1>1, <1>2, Concatenation

\* Writes to other keys.
SameRecords(n, next) ==
    next.miners = n.miners /\ next.bonds = n.bonds /\ next.loyalty = n.loyalty

RecordKinds == {"miner", "loyalty", "bond"}

LEMMA TracksNothing ==
    ASSUME NEW n, NEW next, SameRecords(n, next),
           NEW writes, \A w \in Range(writes) : w.key[1] \notin RecordKinds
    PROVE  Tracks(n, next, writes)
<1>1. \A m \in Miners : /\ Untouched(writes, <<"miner", m>>)
                        /\ Untouched(writes, <<"loyalty", m>>)
                        /\ Untouched(writes, <<"bond", m>>)
  <2>1. ASSUME NEW m \in Miners, NEW w \in Range(writes),
               w.key = <<"miner", m>> \/ w.key = <<"loyalty", m>> \/ w.key = <<"bond", m>>
        PROVE  FALSE
    <3>1. w.key[1] \in {"miner", "loyalty", "bond"}
        BY <2>1
    <3>2. QED
        BY <3>1 DEF RecordKinds
  <2>2. QED
    BY <2>1 DEF Untouched
<1>2. QED
    BY <1>1 DEF Tracks, TracksRecords, TracksBonds, SameRecords

\* One write.
LEMMA SaveFacts ==
    ASSUME NEW key, NEW value
    PROVE  /\ IsSeq(Save(key, value))
           /\ Range(Save(key, value)) = {[op |-> "put", key |-> key, value |-> value]}
BY Singleton DEF Save

LEMMA DeleteFacts ==
    ASSUME NEW key
    PROVE  IsSeq(Delete(key)) /\ Range(Delete(key)) = {[op |-> "delete", key |-> key]}
BY Singleton DEF Delete

----------------------------------------------------------------------------
(* What is minted *)

\* The outputs that are not new are worth what they were.
LEMMA MintedGrows ==
    ASSUME NEW d, NEW e, DiskOK(d, e), NEW writes, IsSeq(writes),
           NEW N, IsFiniteSet(N), NEW v \in [N -> Nat],
           \A w \in Range(writes) :
                w.op = "put" /\ w.key[1] \in OutputKinds => w.key \in N /\ w.value = v[w.key]
    PROVE  /\ MintedOf(d) \in Nat /\ MintedOf(Result(d, writes)) \in Nat
           /\ SumOver(v, N) \in Nat
           /\ MintedOf(Result(d, writes)) <= MintedOf(d) + SumOver(v, N)
<1> DEFINE r == Result(d, writes)
           O == OutputsOf(d)
           P == OutputsOf(r)
           f == [k \in O |-> d[k]]
           g == [k \in P |-> r[k]]
           A == {k \in P : k \in O /\ r[k] = d[k]}
           B == P \ A
<1>1. Follows(d, writes, r)
    BY ResultIsImage
<1> HIDE DEF r
<1>2. IsFiniteSet(O) /\ IsFiniteSet(P)
    BY <1>1, FS_Subset DEF OutputsOf, DiskOK, Follows
<1>3. f \in [O -> Nat]
    BY DEF OutputsOf, DiskOK, Fits, FitsKind
<1>4. ASSUME NEW k \in P, k \notin A PROVE k \in N /\ r[k] = v[k]
  <2>1. k \in DOMAIN r /\ k[1] \in OutputKinds
    BY DEF OutputsOf
  <2>2. ~(k \in DOMAIN d /\ r[k] = d[k])
    BY <1>4, <2>1 DEF OutputsOf
  <2>3. PICK w \in Range(writes) : w.op = "put" /\ w.key = k /\ w.value = r[k]
    BY <1>1, <2>1, <2>2 DEF Follows
  <2>4. QED
    BY <2>1, <2>3
<1>5. g \in [P -> Nat]
  <2>1. ASSUME NEW k \in P PROVE r[k] \in Nat
    <3>1. CASE k \in A
        BY <3>1, <1>3
    <3>2. CASE k \notin A
        BY <3>2, <1>4
    <3>3. QED
        BY <3>1, <3>2
  <2>2. QED
    BY <2>1
<1>6. /\ A \subseteq O /\ A \subseteq P /\ B \subseteq N /\ B \subseteq P
      /\ A \cap B = {} /\ A \cup B = P
    BY <1>4
<1>7. /\ \A k \in A : g[k] = f[k] /\ f[k] \in Nat
      /\ \A k \in B : g[k] = v[k] /\ v[k] \in Nat
    BY <1>3, <1>4
<1>8. IsFiniteSet(A) /\ IsFiniteSet(B)
    BY <1>2, <1>6, FS_Subset
<1>9. MintedOf(d) = SumOver(f, O) /\ MintedOf(r) = SumOver(g, P)
    BY SumFunctionIs DEF MintedOf
<1> HIDE DEF O, P, f, g, A, B
<1>10. SumOver(g, P) = SumOver(g, A) + SumOver(g, B)
  <2>1. g \in [P -> Int] /\ A \in SUBSET P /\ B \in SUBSET P
    BY <1>5, <1>6
  <2>2. SumOver(g, A \cup B) = SumOver(g, A) + SumOver(g, B)
    BY <1>6, <1>8, <2>1, SumOfUnion
  <2>3. QED
    BY <1>6, <2>2
<1>11. SumOver(g, A) <= SumOver(f, A)
    BY <1>3, <1>5, <1>6, <1>7, <1>8, SumMonotonic
<1>12. SumOver(g, B) <= SumOver(v, B)
    BY <1>5, <1>6, <1>7, <1>8, SumMonotonic
<1>13. SumOver(f, A) <= SumOver(f, O)
    BY <1>2, <1>3, <1>6, SumOfPart
<1>14. SumOver(v, B) <= SumOver(v, N)
    BY <1>6, SumOfPart
<1>15. /\ SumOver(g, A) \in Nat /\ SumOver(g, B) \in Nat
       /\ SumOver(f, A) \in Nat /\ SumOver(f, O) \in Nat
       /\ SumOver(v, B) \in Nat /\ SumOver(v, N) \in Nat
    BY <1>2, <1>3, <1>5, <1>6, <1>8, SumIsNat
<1>16. /\ SumOver(g, P) \in Nat
       /\ SumOver(g, P) <= SumOver(f, O) + SumOver(v, N)
    BY <1>10, <1>11, <1>12, <1>13, <1>14, <1>15
<1>17. QED
    BY <1>9, <1>15, <1>16 DEF r

\* Writes that create no output.
Silent(writes) == \A w \in Range(writes) : w.op = "put" => w.key[1] \notin OutputKinds

LEMMA MintedStays ==
    ASSUME NEW d, NEW e, DiskOK(d, e), NEW writes, IsSeq(writes), Silent(writes)
    PROVE  /\ MintedOf(d) \in Nat /\ MintedOf(Result(d, writes)) \in Nat
           /\ MintedOf(Result(d, writes)) <= MintedOf(d)
<1> DEFINE v == [k \in {} |-> 0]
<1>1. v \in [{} -> Nat] /\ IsFiniteSet({})
    BY FS_EmptySet
<1>2. SumOver(v, {}) = 0
  <2>1. v \in [{} -> Int] /\ {} \in SUBSET {}
    OBVIOUS
  <2> HIDE DEF v
  <2>2. QED
    BY <1>1, <2>1, SumFacts
<1> HIDE DEF v
<1>3. \A w \in Range(writes) :
          w.op = "put" /\ w.key[1] \in OutputKinds => w.key \in {} /\ w.value = v[w.key]
    BY DEF Silent
<1>4. /\ MintedOf(d) \in Nat /\ MintedOf(Result(d, writes)) \in Nat
      /\ MintedOf(Result(d, writes)) <= MintedOf(d) + SumOver(v, {})
    BY <1>1, <1>3, MintedGrows
<1>5. QED
    BY <1>2, <1>4

----------------------------------------------------------------------------
(* Records by miner *)

LEMMA PartialFacts ==
    ASSUME NEW R, NEW f \in Partial(R)
    PROVE  /\ DOMAIN f \in SUBSET Miners /\ f = [m \in DOMAIN f |-> f[m]]
           /\ \A m \in DOMAIN f : f[m] \in R
BY DEF Partial

LEMMA IsPartial ==
    ASSUME NEW R, NEW f, DOMAIN f \in SUBSET Miners, f = [m \in DOMAIN f |-> f[m]],
           \A m \in DOMAIN f : f[m] \in R
    PROVE  f \in Partial(R)
<1>1. f \in [DOMAIN f -> R]
    OBVIOUS
<1>2. QED
    BY <1>1 DEF Partial

LEMMA PutInType ==
    ASSUME NEW R, NEW f \in Partial(R), NEW k \in Miners, NEW v \in R
    PROVE  PutIn(f, k, v) \in Partial(R)
<1> DEFINE g == PutIn(f, k, v)
<1>1. /\ g = [m \in DOMAIN g |-> g[m]]
      /\ DOMAIN g = DOMAIN f \cup {k} /\ g[k] = v
      /\ \A m \in DOMAIN f : m # k => g[m] = f[m]
    BY DEF PutIn
<1>2. DOMAIN f \in SUBSET Miners /\ \A m \in DOMAIN f : f[m] \in R
    BY PartialFacts
<1> HIDE DEF g
<1>3. g \in Partial(R)
    BY <1>1, <1>2, IsPartial
<1>4. QED
    BY <1>3 DEF g

LEMMA PutAllType ==
    ASSUME NEW R, NEW f \in Partial(R), NEW g \in Partial(R)
    PROVE  PutAll(f, g) \in Partial(R)
<1> DEFINE h == PutAll(f, g)
<1>1. /\ h = [m \in DOMAIN h |-> h[m]]
      /\ DOMAIN h = DOMAIN f \cup DOMAIN g
      /\ \A m \in DOMAIN g : h[m] = g[m]
      /\ \A m \in DOMAIN f : m \notin DOMAIN g => h[m] = f[m]
    BY DEF PutAll
<1>2. /\ DOMAIN f \in SUBSET Miners /\ \A m \in DOMAIN f : f[m] \in R
      /\ DOMAIN g \in SUBSET Miners /\ \A m \in DOMAIN g : g[m] \in R
    BY PartialFacts
<1> HIDE DEF h
<1>3. \A m \in DOMAIN h : h[m] \in R
    BY <1>1, <1>2
<1>4. h \in Partial(R)
    BY <1>1, <1>2, <1>3, IsPartial
<1>5. QED
    BY <1>4 DEF h

LEMMA RestrictType ==
    ASSUME NEW R, NEW f \in Partial(R), NEW S
    PROVE  Restrict(f, DOMAIN f \ S) \in Partial(R)
<1> DEFINE g == Restrict(f, DOMAIN f \ S)
<1>1. /\ g = [m \in DOMAIN g |-> g[m]] /\ DOMAIN g = DOMAIN f \ S
      /\ \A m \in DOMAIN f \ S : g[m] = f[m]
    BY DEF Restrict
<1>2. DOMAIN f \in SUBSET Miners /\ \A m \in DOMAIN f : f[m] \in R
    BY PartialFacts
<1> HIDE DEF g
<1>3. g \in Partial(R)
    BY <1>1, <1>2, IsPartial
<1>4. QED
    BY <1>3 DEF g

LEMMA NodeFields ==
    ASSUME NEW n, NodeOK(n)
    PROVE  /\ n.height \in Nat /\ n.epoch \in Nat /\ n.total_emitted \in Nat
           /\ n.miners \in Partial(MinerRecord) /\ n.bonds \in SUBSET Miners
           /\ n.loyalty \in Partial(LoyaltyRecord) /\ n.share_count \in [Miners -> Nat]
           /\ n.pending_slashes \in SUBSET Miners /\ n.processed_slashes \in SUBSET Miners
BY DEF NodeOK, NodeRecord

\* Nothing but the counters and the shares of the pool.
SameRest(n, next) ==
    /\ next.height = n.height /\ next.epoch = n.epoch
    /\ next.total_emitted = n.total_emitted

LEMMA NewMinerType == NewMiner \in MinerRecord
BY DEF NewMiner, MinerRecord

LEMMA MinerOfType ==
    ASSUME NEW n, NodeOK(n), NEW m \in Miners
    PROVE  MinerOf(n, m) \in MinerRecord
BY NodeFields, PartialFacts, NewMinerType DEF MinerOf

LEMMA LoyaltyOfEarned ==
    ASSUME NEW n, NodeOK(n), NEW m
    PROVE  EarnedOnce(LoyaltyOf(n, m), n.epoch)
BY NodeFields, NewLoyaltyEarned DEF LoyaltyOf, NodeOK

\* Writes of a step that touch none of the counters of the database.
InnerOK(writes, e) ==
    /\ IsSeq(writes)
    /\ \A w \in Range(writes) :
          w.key[1] # "state" /\ (w.op = "put" => FitsKind(w.key, w.value, e))

LEMMA InnerBoth ==
    ASSUME NEW e, NEW s, InnerOK(s, e), NEW t, InnerOK(t, e)
    PROVE  InnerOK(s \o t, e)
<1>1. IsSeq(s) /\ IsSeq(t)
    BY DEF InnerOK
<1>2. IsSeq(s \o t) /\ Range(s \o t) = Range(s) \cup Range(t)
    BY <1>1, Concatenation
<1>3. QED
    BY <1>2 DEF InnerOK

\* The keys of the counters are not those of records and outputs.
LEMMA StateKeys ==
    /\ HeightKey[1] = "state" /\ EmittedKey[1] = "state" /\ EpochKey[1] = "state"
    /\ MarkerKey[1] = "state"
    /\ HeightKey # EmittedKey /\ HeightKey # EpochKey /\ HeightKey # MarkerKey
    /\ EmittedKey # EpochKey /\ EmittedKey # MarkerKey /\ EpochKey # MarkerKey
BY DEF HeightKey, EmittedKey, EpochKey, MarkerKey

LEMMA RecordKeys ==
    /\ \A m : <<"miner", m>>[1] = "miner" /\ <<"loyalty", m>>[1] = "loyalty"
              /\ <<"bond", m>>[1] = "bond"
    /\ \A m, k : <<"miner", m>> = <<"miner", k>> => m = k
    /\ \A m, k : <<"loyalty", m>> = <<"loyalty", k>> => m = k
    /\ \A m, k : <<"bond", m>> = <<"bond", k>> => m = k
OBVIOUS

\* Writes of the miner records.
LEMMA MinerWrite ==
    ASSUME NEW e, NEW m, NEW v \in MinerRecord
    PROVE  InnerOK(Save(<<"miner", m>>, v), e) /\ Silent(Save(<<"miner", m>>, v))
BY SaveFacts, RecordKeys DEF InnerOK, FitsKind, OutputKinds, Silent

LEMMA LoyaltyWrite ==
    ASSUME NEW e, NEW m, NEW v, EarnedOnce(v, e)
    PROVE  InnerOK(Save(<<"loyalty", m>>, v), e) /\ Silent(Save(<<"loyalty", m>>, v))
BY SaveFacts, RecordKeys DEF InnerOK, FitsKind, OutputKinds, Silent

LEMMA SilentBoth ==
    ASSUME NEW s, IsSeq(s), Silent(s), NEW t, IsSeq(t), Silent(t)
    PROVE  Silent(s \o t)
<1>1. Range(s \o t) = Range(s) \cup Range(t)
    BY Concatenation
<1>2. QED
    BY <1>1 DEF Silent

----------------------------------------------------------------------------
(* The two counts of shares *)

\* A step that changes neither of them.
LEMMA SharesKept ==
    ASSUME NEW n, NEW next, next.share_count = n.share_count,
           \A m \in Miners : MinerOf(next, m).shares = MinerOf(n, m).shares
    PROVE  SharesMatch(n) => SharesMatch(next)
<1>1. Credited(next) = Credited(n)
    BY DEF Credited
<1>2. QED
    BY <1>1 DEF SharesMatch

\* Shares that are credited to nobody less add up to no less.
LEMMA CreditedGrows ==
    ASSUME IsFiniteSet(Miners), NEW n, NodeOK(n), NEW next, NodeOK(next),
           \A m \in Miners : MinerOf(n, m).shares <= MinerOf(next, m).shares
    PROVE  SumFunction(Credited(next)) < MaxPool => SumFunction(Credited(n)) < MaxPool
<1> DEFINE f == Credited(n)
           g == Credited(next)
<1>1. /\ f \in [Miners -> Nat] /\ g \in [Miners -> Nat]
      /\ \A m \in Miners : f[m] <= g[m]
  <2>1. \A m \in Miners : MinerOf(n, m).shares \in Nat /\ MinerOf(next, m).shares \in Nat
    BY MinerOfType DEF MinerRecord
  <2>2. QED
    BY <2>1 DEF Credited
<1> HIDE DEF f, g
<1>2. SumFunction(f) = SumOver(f, Miners) /\ SumFunction(g) = SumOver(g, Miners)
    BY <1>1, SumFunctionIs
<1>3. SumOver(f, Miners) <= SumOver(g, Miners)
    BY <1>1, SumMonotonic
<1>4. SumOver(f, Miners) \in Nat /\ SumOver(g, Miners) \in Nat /\ MaxPool \in Nat
    BY <1>1, SumIsNat, EpochAssumption
<1> DEFINE a == SumOver(f, Miners)
           b == SumOver(g, Miners)
<1>5. a \in Nat /\ b \in Nat /\ MaxPool \in Nat /\ a <= b
    BY <1>3, <1>4
<1> HIDE DEF a, b
<1>6. b < MaxPool => a < MaxPool
    BY <1>5
<1>7. QED
    BY <1>2, <1>6 DEF a, b, f, g

\* Making room takes shares only from a pool that is full.
LEMMA RoomyFacts ==
    ASSUME NEW n, NodeOK(n), NEW counts \in Roomy(n)
    PROVE  /\ counts \in [Miners -> Nat]
           /\ \A m \in Miners : counts[m] <= n.share_count[m]
           /\ SumFunction(n.share_count) < MaxPool => counts = n.share_count
<1>1. n.share_count \in [Miners -> Nat]
    BY NodeFields
<1>2. CASE counts = n.share_count
    BY <1>1, <1>2
<1>3. ASSUME NEW v \in Miners, n.share_count[v] > 0, ~(SumFunction(n.share_count) < MaxPool),
             counts = [n.share_count EXCEPT ![v] = @ - 1]
      PROVE  /\ counts \in [Miners -> Nat]
             /\ \A m \in Miners : counts[m] <= n.share_count[m]
    BY <1>1, <1>3
<1>4. \/ counts = n.share_count
      \/ /\ ~(SumFunction(n.share_count) < MaxPool)
         /\ \E v \in Miners : /\ n.share_count[v] > 0
                              /\ counts = [n.share_count EXCEPT ![v] = @ - 1]
    BY DEF Roomy
<1>5. QED
    BY <1>2, <1>3, <1>4

\* As long as the pool has room, nothing is taken from it.
LEMMA NothingTaken ==
    ASSUME NEW n, NodeOK(n), SharesMatch(n), NEW counts \in Roomy(n),
           crashes = 0, SumFunction(Credited(n)) < MaxPool
    PROVE  counts = n.share_count
<1>1. n.share_count \in [Miners -> Nat]
    BY NodeFields
<1>2. Credited(n) = n.share_count
    BY <1>1 DEF SharesMatch, Credited
<1>3. QED
    BY <1>2, RoomyFacts

----------------------------------------------------------------------------
(* add_share *)

\* The write of a miner record, if there is one, that changes nothing.
LEMMA SavedAsItIs ==
    ASSUME NEW n, NodeOK(n), NEW next, SameRecords(n, next), NEW m \in Miners,
           NEW W, W = IF m \in DOMAIN n.miners THEN Save(<<"miner", m>>, n.miners[m]) ELSE <<>>
    PROVE  InnerOK(W, n.epoch) /\ Silent(W) /\ Tracks(n, next, W)
<1>1. CASE m \notin DOMAIN n.miners
    BY <1>1, EmptySequence, TracksNothing DEF InnerOK, Silent
<1>2. CASE m \in DOMAIN n.miners
  <2> DEFINE v == n.miners[m]
  <2>1. v \in MinerRecord /\ W = Save(<<"miner", m>>, v) /\ n.miners[m] = v
    BY <1>2, NodeFields, PartialFacts
  <2> HIDE DEF v
  <2>2. InnerOK(W, n.epoch) /\ Silent(W)
    BY <2>1, MinerWrite
  <2>3. Range(W) = {[op |-> "put", key |-> <<"miner", m>>, value |-> v]}
    BY <2>1, SaveFacts
  <2>4. /\ \E w \in Range(W) : w.key = <<"miner", m>>
        /\ \A w \in Range(W) : w.op = "put" /\ w.key = <<"miner", m>> /\ w.value = v
    <3> DEFINE u == [op |-> "put", key |-> <<"miner", m>>, value |-> v]
    <3>1. u.op = "put" /\ u.key = <<"miner", m>> /\ u.value = v
        OBVIOUS
    <3>2. Range(W) = {u}
        BY <2>3
    <3> HIDE DEF u
    <3>3. QED
        BY <3>1, <3>2
  <2>5. TracksRecords("miner", n.miners, n.miners, W)
    <3>1. ASSUME NEW k \in Miners, k # m PROVE Untouched(W, <<"miner", k>>)
        BY <2>4, <3>1, RecordKeys DEF Untouched
    <3>2. Puts(W, <<"miner", m>>, v)
        BY <2>4 DEF Puts
    <3>3. QED
        BY <1>2, <2>1, <3>1, <3>2 DEF TracksRecords
  <2>6. \A w \in Range(W) : w.key[1] = "miner"
    BY <2>4
  <2>7. TracksRecords("loyalty", n.loyalty, n.loyalty, W) /\ TracksBonds(n.bonds, n.bonds, W)
    BY <2>6, RecordKeys DEF TracksRecords, TracksBonds, Untouched
  <2>8. QED
    BY <2>2, <2>5, <2>7 DEF Tracks, SameRecords
<1>3. QED
    BY <1>1, <1>2

LEMMA ShareFacts ==
    ASSUME NEW n, NodeOK(n), NEW m \in Miners, NEW counts \in Roomy(n)
    PROVE  LET s == ShareStep(n, m, counts)
           IN /\ NodeOK(s.node) /\ SameRest(n, s.node)
              /\ InnerOK(s.writes, n.epoch) /\ Silent(s.writes)
              /\ Tracks(n, s.node, s.writes)
              /\ SharesMatch(n) => SharesMatch(s.node)
<1> DEFINE s == ShareStep(n, m, counts)
<1>0. /\ counts \in [Miners -> Nat]
      /\ \A k \in Miners : counts[k] <= n.share_count[k]
      /\ n.share_count \in [Miners -> Nat]
      /\ \A k \in Miners : MinerOf(n, k).shares \in Nat
    BY RoomyFacts, NodeFields, MinerOfType DEF MinerRecord
<1>1. CASE m \notin n.bonds
  <2>1. s.node = n /\ s.writes = <<>>
    BY <1>1 DEF ShareStep, Step
  <2>2. InnerOK(<<>>, n.epoch) /\ Silent(<<>>)
    BY EmptySequence DEF InnerOK, Silent
  <2>3. Tracks(n, n, <<>>)
    BY EmptySequence, TracksNothing DEF SameRecords
  <2> HIDE DEF s
  <2>4. QED
    BY <2>1, <2>2, <2>3 DEF SameRest, s
<1>2. CASE m \in n.bonds /\ counts[m] >= MaxShares
  <2>1. /\ s.node = [n EXCEPT !.share_count = counts]
        /\ s.writes = IF m \in DOMAIN n.miners THEN Save(<<"miner", m>>, n.miners[m]) ELSE <<>>
    BY <1>2 DEF ShareStep, Step
  <2> HIDE DEF s
  <2>2. /\ s.node \in NodeRecord /\ SameRecords(n, s.node) /\ SameRest(n, s.node)
        /\ s.node.share_count = counts
    BY <1>0, <2>1 DEF NodeOK, NodeRecord, SameRest, SameRecords
  <2>3. NodeOK(s.node)
    BY <2>2 DEF NodeOK, SameRest, SameRecords
  <2>4. InnerOK(s.writes, n.epoch) /\ Silent(s.writes) /\ Tracks(n, s.node, s.writes)
    BY <2>1, <2>2, SavedAsItIs
  <2>5. SharesMatch(n) => SharesMatch(s.node)
    <3>1. SUFFICES ASSUME SharesMatch(n) PROVE SharesMatch(s.node)
        OBVIOUS
    <3>2. \A k \in Miners : MinerOf(s.node, k) = MinerOf(n, k)
        BY <2>2 DEF MinerOf, SameRecords
    <3>3. Credited(s.node) = Credited(n)
        BY <3>2 DEF Credited
    <3>4. \A k \in Miners : s.node.share_count[k] <= MinerOf(s.node, k).shares
      <4>1. ASSUME NEW k \in Miners PROVE counts[k] <= MinerOf(n, k).shares
        <5>1. counts[k] <= n.share_count[k] /\ n.share_count[k] <= MinerOf(n, k).shares
            BY <1>0, <3>1 DEF SharesMatch
        <5>2. QED
            BY <1>0, <5>1
      <4>2. QED
        BY <2>2, <3>2, <4>1
    <3>5. ASSUME crashes = 0, SumFunction(Credited(n)) < MaxPool
          PROVE  \A k \in Miners : MinerOf(s.node, k).shares = s.node.share_count[k]
      <4>1. counts = n.share_count
        BY <3>1, <3>5, NothingTaken
      <4>2. QED
        BY <2>2, <3>1, <3>2, <3>5, <4>1 DEF SharesMatch
    <3>6. QED
        BY <3>3, <3>4, <3>5 DEF SharesMatch
  <2>6. QED
    BY <2>2, <2>3, <2>4, <2>5 DEF s
<1>3. CASE m \in n.bonds /\ ~(counts[m] >= MaxShares)
  <2> DEFINE miner == [MinerOf(n, m) EXCEPT !.shares = @ + 1]
             loyalty == UpdateLoyalty(LoyaltyOf(n, m), n.epoch, TRUE)
             ms == PutIn(n.miners, m, miner)
             ls == PutIn(n.loyalty, m, loyalty)
             sc == [counts EXCEPT ![m] = @ + 1]
             A == Save(<<"miner", m>>, miner)
             B == Save(<<"loyalty", m>>, loyalty)
  <2>1. miner \in MinerRecord /\ miner.shares = MinerOf(n, m).shares + 1
    BY MinerOfType DEF MinerRecord
  <2>2. EarnedOnce(loyalty, n.epoch)
    BY LoyaltyOfEarned, NodeFields, UpdateEarnsOnce
  <2>3. loyalty \in LoyaltyRecord
    BY <2>2 DEF EarnedOnce
  <2>4. s.node = [n EXCEPT !.share_count = sc, !.miners = ms, !.loyalty = ls]
        /\ s.writes = A \o B
    BY <1>3 DEF ShareStep, Step
  <2> HIDE DEF miner, loyalty, s
  <2>0. n.miners \in Partial(MinerRecord) /\ n.loyalty \in Partial(LoyaltyRecord)
    BY NodeFields
  <2>5. /\ ms \in Partial(MinerRecord) /\ DOMAIN ms = DOMAIN n.miners \cup {m} /\ ms[m] = miner
        /\ \A k \in DOMAIN n.miners : k # m => ms[k] = n.miners[k]
    <3>1. ms \in Partial(MinerRecord)
        BY <2>0, <2>1, PutInType
    <3>2. QED
        BY <3>1 DEF PutIn
  <2>6. /\ ls \in Partial(LoyaltyRecord) /\ DOMAIN ls = DOMAIN n.loyalty \cup {m} /\ ls[m] = loyalty
        /\ \A k \in DOMAIN n.loyalty : k # m => ls[k] = n.loyalty[k]
    <3>1. ls \in Partial(LoyaltyRecord)
        BY <2>0, <2>3, PutInType
    <3>2. QED
        BY <3>1 DEF PutIn
  <2>7. /\ sc \in [Miners -> Nat] /\ sc[m] = counts[m] + 1
        /\ \A k \in Miners : k # m => sc[k] = counts[k]
    BY <1>0
  <2> HIDE DEF ms, ls, sc
  <2>8. /\ s.node \in NodeRecord /\ s.node.miners = ms /\ s.node.loyalty = ls
        /\ s.node.bonds = n.bonds /\ s.node.share_count = sc /\ SameRest(n, s.node)
    BY <2>4, <2>5, <2>6, <2>7 DEF NodeOK, NodeRecord, SameRest
  <2>9. NodeOK(s.node)
    BY <2>2, <2>6, <2>8 DEF NodeOK, SameRest
  <2>10. InnerOK(A, n.epoch) /\ Silent(A) /\ InnerOK(B, n.epoch) /\ Silent(B)
    BY <2>1, <2>2, MinerWrite, LoyaltyWrite
  <2>11. InnerOK(s.writes, n.epoch) /\ Silent(s.writes)
    <3>1. IsSeq(A) /\ IsSeq(B)
        BY <2>10 DEF InnerOK
    <3> HIDE DEF A, B
    <3>2. InnerOK(A \o B, n.epoch)
        BY <2>10, InnerBoth
    <3>3. Silent(A \o B)
        BY <2>10, <3>1, SilentBoth
    <3>4. QED
        BY <2>4, <3>2, <3>3
  <2>12. Range(s.writes) = {[op |-> "put", key |-> <<"miner", m>>, value |-> miner],
                            [op |-> "put", key |-> <<"loyalty", m>>, value |-> loyalty]}
    <3>1. /\ IsSeq(A) /\ Range(A) = {[op |-> "put", key |-> <<"miner", m>>, value |-> miner]}
          /\ IsSeq(B) /\ Range(B) = {[op |-> "put", key |-> <<"loyalty", m>>, value |-> loyalty]}
        BY SaveFacts
    <3> HIDE DEF A, B
    <3>2. Range(A \o B) = Range(A) \cup Range(B)
        BY <3>1, Concatenation
    <3>3. QED
        BY <2>4, <3>1, <3>2
  <2>13. TracksRecords("miner", n.miners, ms, s.writes)
    <3>1. ASSUME NEW k \in Miners, k # m PROVE Untouched(s.writes, <<"miner", k>>)
        BY <2>12, <3>1, RecordKeys DEF Untouched
    <3>2. Puts(s.writes, <<"miner", m>>, miner)
        BY <2>12, RecordKeys DEF Puts
    <3>3. QED
        BY <2>5, <3>1, <3>2 DEF TracksRecords
  <2>14. TracksRecords("loyalty", n.loyalty, ls, s.writes)
    <3>1. ASSUME NEW k \in Miners, k # m PROVE Untouched(s.writes, <<"loyalty", k>>)
        BY <2>12, <3>1, RecordKeys DEF Untouched
    <3>2. Puts(s.writes, <<"loyalty", m>>, loyalty)
        BY <2>12, RecordKeys DEF Puts
    <3>3. QED
        BY <2>6, <3>1, <3>2 DEF TracksRecords
  <2>15. TracksBonds(n.bonds, n.bonds, s.writes)
    BY <2>12, RecordKeys DEF TracksBonds, Untouched
  <2>16. Tracks(n, s.node, s.writes)
    BY <2>8, <2>13, <2>14, <2>15 DEF Tracks
  <2>17. SharesMatch(n) => SharesMatch(s.node)
    <3>1. SUFFICES ASSUME SharesMatch(n) PROVE SharesMatch(s.node)
        OBVIOUS
    <3>2. /\ MinerOf(s.node, m).shares = MinerOf(n, m).shares + 1
          /\ \A k \in Miners : k # m => MinerOf(s.node, k).shares = MinerOf(n, k).shares
        BY <2>1, <2>5, <2>8 DEF MinerOf
    <3>3. ASSUME NEW k \in Miners PROVE s.node.share_count[k] <= MinerOf(s.node, k).shares
      <4>1. counts[k] <= n.share_count[k] /\ n.share_count[k] <= MinerOf(n, k).shares
        BY <1>0, <3>1 DEF SharesMatch
      <4>2. QED
        BY <1>0, <2>7, <2>8, <3>2, <4>1
    <3>4. ASSUME crashes = 0, SumFunction(Credited(s.node)) < MaxPool
          PROVE  \A k \in Miners : MinerOf(s.node, k).shares = s.node.share_count[k]
      <4>1. \A k \in Miners : MinerOf(n, k).shares <= MinerOf(s.node, k).shares
        BY <1>0, <3>2
      <4>2. SumFunction(Credited(n)) < MaxPool
        BY <2>9, <3>4, <4>1, CreditedGrows, EpochAssumption
      <4>3. counts = n.share_count
        BY <3>1, <3>4, <4>2, NothingTaken
      <4>4. QED
        BY <1>0, <2>7, <2>8, <3>1, <3>2, <3>4, <4>2, <4>3 DEF SharesMatch
    <3>5. QED
        BY <3>3, <3>4 DEF SharesMatch
  <2>18. QED
    BY <2>8, <2>9, <2>11, <2>16, <2>17 DEF s
<1>4. QED
    BY <1>1, <1>2, <1>3

----------------------------------------------------------------------------
(* process_pending_slashes *)

Deleted(key) == [op |-> "delete", key |-> key]
Put(key, value) == [op |-> "put", key |-> key, value |-> value]

LEMMA ForgetFacts ==
    ASSUME NEW m
    PROVE  /\ IsSeq(Forget(m))
           /\ Range(Forget(m)) = {Deleted(<<"miner", m>>), Deleted(<<"loyalty", m>>)}
<1> DEFINE A == Delete(<<"miner", m>>)
           B == Delete(<<"loyalty", m>>)
<1>1. /\ IsSeq(A) /\ Range(A) = {Deleted(<<"miner", m>>)}
      /\ IsSeq(B) /\ Range(B) = {Deleted(<<"loyalty", m>>)}
    BY DeleteFacts DEF Deleted
<1>2. Forget(m) = A \o B
    BY DEF Forget
<1> HIDE DEF A, B
<1>3. IsSeq(A \o B) /\ Range(A \o B) = Range(A) \cup Range(B)
    BY <1>1, Concatenation
<1>4. QED
    BY <1>1, <1>2, <1>3

Slashed(n) ==
    {m \in n.pending_slashes \ n.processed_slashes : <<"bond", m>> \in DOMAIN disk}

\* The writes of the slashes: deletes of three kinds.
LEMMA SlashWrites ==
    ASSUME IsFiniteSet(Miners), NEW n, NodeOK(n), NEW order \in SetToSeqs(Miners)
    PROVE  LET W == SlashStep(n, order).writes
           IN /\ IsSeq(W)
              /\ Range(W) = {Deleted(<<"bond", m>>) : m \in Slashed(n)}
                              \cup {Deleted(<<"miner", m>>) : m \in Slashed(n)}
                              \cup {Deleted(<<"loyalty", m>>) : m \in Slashed(n)}
<1> DEFINE S == Slashed(n)
           f == [m \in S |-> Delete(<<"bond", m>>)]
           g == [m \in S |-> Forget(m)]
           A == Gathered(S, order, f)
           B == Gathered(S, order, g)
<1>1. S \in SUBSET Miners
    BY NodeFields DEF Slashed
<1>2. SlashStep(n, order).writes = A \o B
  <2>1. [i \in DOMAIN order |-> IF order[i] \in S THEN Delete(<<"bond", order[i]>>) ELSE <<>>]
          = [i \in DOMAIN order |-> IF order[i] \in S THEN f[order[i]] ELSE <<>>]
    OBVIOUS
  <2>2. [i \in DOMAIN order |-> IF order[i] \in S THEN Forget(order[i]) ELSE <<>>]
          = [i \in DOMAIN order |-> IF order[i] \in S THEN g[order[i]] ELSE <<>>]
    OBVIOUS
  <2> HIDE DEF f, g
  <2>3. SlashStep(n, order).writes =
            FlattenSeq([i \in DOMAIN order |-> IF order[i] \in S THEN Delete(<<"bond", order[i]>>) ELSE <<>>])
              \o FlattenSeq([i \in DOMAIN order |-> IF order[i] \in S THEN Forget(order[i]) ELSE <<>>])
    BY DEF SlashStep, Step, ForEach, Slashed
  <2>4. QED
    BY <2>1, <2>2, <2>3 DEF Gathered
<1>3. \A m \in S : /\ IsSeq(f[m]) /\ Range(f[m]) = {Deleted(<<"bond", m>>)}
                   /\ IsSeq(g[m])
                   /\ Range(g[m]) = {Deleted(<<"miner", m>>), Deleted(<<"loyalty", m>>)}
    BY DeleteFacts, ForgetFacts DEF Deleted
<1> HIDE DEF S, f, g
<1>4. /\ IsSeq(A) /\ Range(A) = UNION {Range(f[m]) : m \in S}
      /\ IsSeq(B) /\ Range(B) = UNION {Range(g[m]) : m \in S}
    BY <1>1, <1>3, GatheredFacts
<1> HIDE DEF A, B
<1>5. IsSeq(A \o B) /\ Range(A \o B) = Range(A) \cup Range(B)
    BY <1>4, Concatenation
<1>6. UNION {Range(f[m]) : m \in S} = {Deleted(<<"bond", m>>) : m \in S}
  <2>1. \A m \in S : Range(f[m]) = {Deleted(<<"bond", m>>)}
    BY <1>3
  <2>2. {Range(f[m]) : m \in S} = {{Deleted(<<"bond", m>>)} : m \in S}
    BY <2>1
  <2>3. QED
    BY <2>2
<1>7. UNION {Range(g[m]) : m \in S}
        = {Deleted(<<"miner", m>>) : m \in S} \cup {Deleted(<<"loyalty", m>>) : m \in S}
  <2>1. \A m \in S : Range(g[m]) = {Deleted(<<"miner", m>>), Deleted(<<"loyalty", m>>)}
    BY <1>3
  <2>2. {Range(g[m]) : m \in S}
          = {{Deleted(<<"miner", m>>), Deleted(<<"loyalty", m>>)} : m \in S}
    BY <2>1
  <2> DEFINE a(m) == Deleted(<<"miner", m>>)
             b(m) == Deleted(<<"loyalty", m>>)
  <2> HIDE DEF a, b
  <2>3. UNION {{a(m), b(m)} : m \in S} = {a(m) : m \in S} \cup {b(m) : m \in S}
    <3>1. ASSUME NEW x
          PROVE  x \in UNION {{a(m), b(m)} : m \in S}
                    <=> x \in {a(m) : m \in S} \cup {b(m) : m \in S}
      <4>1. x \in UNION {{a(m), b(m)} : m \in S} <=> \E m \in S : x = a(m) \/ x = b(m)
        OBVIOUS
      <4>2. x \in {a(m) : m \in S} \cup {b(m) : m \in S} <=> \E m \in S : x = a(m) \/ x = b(m)
        OBVIOUS
      <4>3. QED
        BY <4>1, <4>2
    <3>2. QED
      BY <3>1
  <2>4. QED
    BY <2>2, <2>3 DEF a, b
<1>8. QED
    BY <1>2, <1>4, <1>5, <1>6, <1>7 DEF S

LEMMA SlashFacts ==
    ASSUME IsFiniteSet(Miners), NEW n, NodeOK(n), NEW order \in SetToSeqs(Miners)
    PROVE  LET s == SlashStep(n, order)
           IN /\ NodeOK(s.node) /\ SameRest(n, s.node)
              /\ InnerOK(s.writes, n.epoch) /\ Silent(s.writes)
              /\ Tracks(n, s.node, s.writes)
<1> DEFINE s == SlashStep(n, order)
           S == Slashed(n)
           ms == Restrict(n.miners, DOMAIN n.miners \ S)
           ls == Restrict(n.loyalty, DOMAIN n.loyalty \ S)
           bs == n.bonds \ S
           W == s.writes
<1>1. /\ IsSeq(W)
      /\ Range(W) = {Deleted(<<"bond", m>>) : m \in S} \cup {Deleted(<<"miner", m>>) : m \in S}
                      \cup {Deleted(<<"loyalty", m>>) : m \in S}
    BY SlashWrites
<1>2. s.node = [n EXCEPT !.bonds = bs, !.miners = ms, !.loyalty = ls,
                         !.pending_slashes = {}, !.processed_slashes = @ \cup S]
    BY DEF SlashStep, Step, Slashed
<1> HIDE DEF s, W
<1>3. S \in SUBSET Miners
    BY NodeFields DEF Slashed
<1> HIDE DEF S
<1>4. n.miners \in Partial(MinerRecord) /\ n.loyalty \in Partial(LoyaltyRecord)
    BY NodeFields
<1>5. ms \in Partial(MinerRecord) /\ ls \in Partial(LoyaltyRecord)
    BY <1>4, RestrictType
<1>6. /\ DOMAIN ms = DOMAIN n.miners \ S /\ \A m \in DOMAIN ms : ms[m] = n.miners[m]
      /\ DOMAIN ls = DOMAIN n.loyalty \ S /\ \A m \in DOMAIN ls : ls[m] = n.loyalty[m]
    BY DEF Restrict
<1> HIDE DEF ms, ls
<1>7. /\ s.node \in NodeRecord /\ s.node.miners = ms /\ s.node.loyalty = ls
      /\ s.node.bonds = bs /\ SameRest(n, s.node)
    BY <1>2, <1>3, <1>5 DEF NodeOK, NodeRecord, SameRest
<1>8. NodeOK(s.node)
    BY <1>6, <1>7 DEF NodeOK, SameRest
<1>9. \A w \in Range(W) : w.op = "delete" /\ w.key[1] # "state"
    BY <1>1, RecordKeys DEF Deleted
<1>10. InnerOK(W, n.epoch) /\ Silent(W)
    BY <1>1, <1>9 DEF InnerOK, Silent
<1>11. \A k : (\A m \in S : k # <<"bond", m>> /\ k # <<"miner", m>> /\ k # <<"loyalty", m>>)
                => Untouched(W, k)
    BY <1>1 DEF Untouched, Deleted
<1>12. \A m \in S : /\ Removes(W, <<"bond", m>>) /\ Removes(W, <<"miner", m>>)
                    /\ Removes(W, <<"loyalty", m>>)
  <2>1. ASSUME NEW m \in S, NEW k, k \in {<<"bond", m>>, <<"miner", m>>, <<"loyalty", m>>}
        PROVE  Removes(W, k)
    <3>1. Deleted(k) \in Range(W) /\ Deleted(k).key = k
        BY <1>1, <2>1 DEF Deleted
    <3>2. QED
        BY <1>9, <3>1 DEF Removes
  <2>2. QED
    BY <2>1
<1>13. ASSUME NEW m \in Miners, m \notin S
       PROVE  /\ Untouched(W, <<"bond", m>>) /\ Untouched(W, <<"miner", m>>)
              /\ Untouched(W, <<"loyalty", m>>)
  <2>1. \A k \in S : /\ <<"bond", m>> \notin {<<"bond", k>>, <<"miner", k>>, <<"loyalty", k>>}
                     /\ <<"miner", m>> \notin {<<"bond", k>>, <<"miner", k>>, <<"loyalty", k>>}
                     /\ <<"loyalty", m>> \notin {<<"bond", k>>, <<"miner", k>>, <<"loyalty", k>>}
    BY <1>13
  <2>2. QED
    BY <1>11, <2>1
<1>14. TracksRecords("miner", n.miners, ms, W)
    BY <1>6, <1>12, <1>13 DEF TracksRecords
<1>15. TracksRecords("loyalty", n.loyalty, ls, W)
    BY <1>6, <1>12, <1>13 DEF TracksRecords
<1>16. TracksBonds(n.bonds, bs, W)
    BY <1>12, <1>13 DEF TracksBonds
<1>17. Tracks(n, s.node, W)
    BY <1>7, <1>14, <1>15, <1>16 DEF Tracks
<1>18. QED
    BY <1>7, <1>8, <1>10, <1>17 DEF s, W

----------------------------------------------------------------------------
(* Rewards *)

LEMMA SumOfZeros ==
    ASSUME NEW D, NEW f \in [D -> Nat], IsFiniteSet(D), \A x \in D : f[x] = 0
    PROVE  SumOver(f, D) = 0
<1> DEFINE Bad == {s \in SUBSET D : SumOver(f, s) # 0}
<1>0. f \in [D -> Int]
    OBVIOUS
<1>1. SUFFICES ASSUME Bad # {} PROVE FALSE
    OBVIOUS
<1>2. \A s \in SUBSET D : IsFiniteSet(s)
    BY FS_Subset
<1>3. PICK s \in Bad : \A x \in s : s \ {x} \notin Bad
    BY <1>1, <1>2, SmallestSet
<1>4. SumOver(f, {}) = 0
    BY <1>0, SumFacts
<1>5. PICK x \in s : TRUE
    BY <1>3, <1>4
<1>6. SumOver(f, s) = f[x] + SumOver(f, s \ {x})
    BY <1>0, <1>2, SumFacts
<1>7. SumOver(f, s \ {x}) = 0 /\ f[x] = 0
    BY <1>3
<1>8. QED
    BY <1>3, <1>6, <1>7

\* The reward of an epoch is within what the cap leaves, and the treasury takes
\* a part of it.
LEMMA EpochRewardFacts ==
    ASSUME NEW n, NodeOK(n)
    PROVE  /\ Available(n) \in Nat /\ EffectiveReward(n) \in Nat /\ TreasuryCut(n) \in Nat
           /\ EffectiveReward(n) <= Available(n)
           /\ TreasuryCut(n) <= EffectiveReward(n)
           /\ n.total_emitted >= MaxSupply => Available(n) = 0
           /\ n.total_emitted < MaxSupply => n.total_emitted + Available(n) = MaxSupply
<1> DEFINE span == EpochBlocks * EpochsPerYear
           year == Year(n.height)
           reward == EffectiveReward(n)
<1>1. n.height \in Nat /\ n.total_emitted \in Nat /\ MaxSupply \in Nat
    BY NodeFields, EpochAssumption
<1>2. span \in Nat \ {0}
  <2>1. EpochBlocks \in Nat \ {0} /\ EpochsPerYear \in Nat \ {0}
    BY EpochAssumption
  <2>2. QED
    BY <2>1
<1>3. year \in Nat /\ year >= 1
  <2>1. year = n.height \div span + 1
    BY DEF Year
  <2> HIDE DEF span, year
  <2>2. n.height \div span \in Nat
    BY <1>1, <1>2, Quotient
  <2>3. QED
    BY <2>1, <2>2
<1>4. CurrentEpochReward(n) \in Nat
  <2> DEFINE y == IF year > 5 THEN 5 ELSE year
  <2>1. y \in 1 .. 5
    BY <1>3
  <2>2. CurrentEpochReward(n) = EpochReward[y]
    BY DEF CurrentEpochReward
  <2> HIDE DEF y
  <2>3. QED
    BY <2>1, <2>2, EpochAssumption
<1>5. /\ Available(n) \in Nat
      /\ n.total_emitted >= MaxSupply => Available(n) = 0
      /\ n.total_emitted < MaxSupply => n.total_emitted + Available(n) = MaxSupply
    BY <1>1 DEF Available
<1>6. reward \in Nat /\ reward <= Available(n)
    BY <1>4, <1>5 DEF EffectiveReward
<1>7. TreasuryCut(n) \in Nat /\ TreasuryCut(n) <= reward
  <2>1. TreasuryCut(n) = (reward * TreasuryBps) \div 10000
    BY DEF TreasuryCut
  <2>2. TreasuryBps \in Nat /\ TreasuryBps <= 10000
    BY EpochAssumption
  <2> HIDE DEF reward
  <2> DEFINE product == reward * TreasuryBps
  <2>3. product \in Nat /\ product <= reward * 10000
    BY <1>6, <2>2, Products
  <2> HIDE DEF product
  <2>4. product \div 10000 \in Nat /\ product \div 10000 <= reward
    BY <1>6, <2>3
  <2>5. QED
    BY <2>1, <2>4 DEF product
<1>8. QED
    BY <1>5, <1>6, <1>7

LEMMA RewardFacts ==
    ASSUME IsFiniteSet(Miners), ContributionsAreNat, NEW n, NodeOK(n)
    PROVE  /\ IsFiniteSet(DOMAIN n.miners)
           /\ Rewards(n) \in [DOMAIN n.miners -> Nat]
           /\ Issued(n, Rewards(n)) \in Nat
           /\ Issued(n, Rewards(n)) = SumOver(Rewards(n), DOMAIN n.miners) + TreasuryCut(n)
           /\ n.total_emitted >= MaxSupply => Issued(n, Rewards(n)) = 0
           /\ n.total_emitted < MaxSupply =>
                  n.total_emitted + Issued(n, Rewards(n)) <= MaxSupply
<1> DEFINE D == DOMAIN n.miners
           poci == Contribution(n)
           total == SumFunction(poci)
           pool == EffectiveReward(n) - TreasuryCut(n)
           planned == PlannedRewards(n)
<1>1. IsFiniteSet(D)
    BY NodeFields, PartialFacts, FS_Subset
<1>2. poci \in [D -> Nat]
  <2>1. ASSUME NEW m \in D
        PROVE  PoCI(n.miners[m].shares, LoyaltyOf(n, m).value, m \in n.bonds) \in Nat
    <3>1. n.miners[m] \in MinerRecord
        BY NodeFields, PartialFacts
    <3>2. n.miners[m].shares \in Nat
        BY <3>1 DEF MinerRecord
    <3>3. LoyaltyOf(n, m).value \in Nat
        BY LoyaltyOfEarned DEF EarnedOnce, LoyaltyRecord
    <3>4. (m \in n.bonds) \in BOOLEAN
        OBVIOUS
    <3>5. QED
        BY <3>2, <3>3, <3>4 DEF ContributionsAreNat
  <2>2. QED
    BY <2>1 DEF Contribution
<1>3. total = SumOver(poci, D)
  <2>1. DOMAIN poci = D
    BY DEF Contribution
  <2>2. QED
    BY <2>1, SumFunctionIs
<1>4. planned = [m \in D |-> IF total = 0 THEN 0 ELSE (poci[m] * pool) \div total]
  <2>1. DOMAIN poci = D
    BY DEF Contribution
  <2>2. QED
    BY <2>1 DEF PlannedRewards
<1>5. pool \in Nat /\ EffectiveReward(n) \in Nat /\ TreasuryCut(n) \in Nat
      /\ pool + TreasuryCut(n) = EffectiveReward(n)
    BY EpochRewardFacts
<1> HIDE DEF D, poci, total, pool, planned
<1>6. total \in Nat
    BY <1>1, <1>2, <1>3, SumIsNat
<1>7. planned \in [D -> Nat] /\ SumOver(planned, D) <= pool
  <2>1. CASE total = 0
    <3>1. planned \in [D -> Nat] /\ \A m \in D : planned[m] = 0
        BY <1>4, <2>1
    <3>2. SumOver(planned, D) = 0
        BY <1>1, <3>1, SumOfZeros
    <3>3. QED
        BY <1>5, <3>1, <3>2
  <2>2. CASE total # 0
    <3>1. total \in Nat \ {0} /\ pool \in Nat
        BY <1>5, <1>6, <2>2
    <3>2. planned = [m \in D |-> (poci[m] * pool) \div total]
        BY <1>4, <2>2
    <3>3. QED
        BY <1>1, <1>2, <1>3, <3>1, <3>2, SharesOfTotal
  <2>3. QED
    BY <2>1, <2>2
<1>8. SumOver(planned, D) \in Nat
    BY <1>1, <1>7, SumIsNat
<1>9. SumFunction(planned) = SumOver(planned, D)
    BY <1>7, SumFunctionIs
<1>10. Rewards(n) = planned
  <2>1. SumFunction(planned) <= Available(n)
    BY <1>5, <1>7, <1>8, <1>9, EpochRewardFacts
  <2>2. QED
    BY <2>1 DEF Rewards, Trim, planned
<1>11. Issued(n, Rewards(n)) = SumOver(planned, D) + TreasuryCut(n)
    BY <1>9, <1>10 DEF Issued
<1> DEFINE issued == Issued(n, Rewards(n))
           sum == SumOver(planned, D)
<1>12. issued \in Nat /\ issued <= Available(n)
  <2>1. issued = sum + TreasuryCut(n) /\ sum \in Nat /\ sum <= pool
    BY <1>7, <1>8, <1>11
  <2> HIDE DEF issued, sum
  <2>2. QED
    BY <1>5, <2>1, EpochRewardFacts
<1> HIDE DEF issued
<1>13. n.total_emitted \in Nat
    BY NodeFields
<1>14. /\ n.total_emitted >= MaxSupply => issued = 0
       /\ n.total_emitted < MaxSupply => n.total_emitted + issued <= MaxSupply
    BY <1>12, <1>13, EpochRewardFacts, EpochAssumption
<1>15. QED
    BY <1>1, <1>7, <1>10, <1>11, <1>12, <1>14 DEF issued, D


----------------------------------------------------------------------------
(* Paying the treasury and the miners *)

Paid(n) == {m \in DOMAIN Rewards(n) : Rewards(n)[m] > 0}
PaidMiners(n) ==
    [m \in DOMAIN n.miners |-> [n.miners[m] EXCEPT !.total_rewards = @ + Rewards(n)[m]]]
TreasuryKey(n) == <<"treasury", n.epoch>>
RewardKey(n, m) == <<"reward", n.height, n.epoch, m>>
RewardWrites(n, m) ==
    (IF HasPayout(n, m) THEN Save(RewardKey(n, m), Rewards(n)[m]) ELSE <<>>)
      \o Save(<<"miner", m>>, PaidMiners(n)[m])

LEMMA RewardWritesFacts ==
    ASSUME NEW n, NEW m
    PROVE  /\ IsSeq(RewardWrites(n, m))
           /\ Put(<<"miner", m>>, PaidMiners(n)[m]) \in Range(RewardWrites(n, m))
           /\ \A w \in Range(RewardWrites(n, m)) :
                \/ w = Put(<<"miner", m>>, PaidMiners(n)[m])
                \/ w = Put(RewardKey(n, m), Rewards(n)[m])
<1> DEFINE A == IF HasPayout(n, m) THEN Save(RewardKey(n, m), Rewards(n)[m]) ELSE <<>>
           B == Save(<<"miner", m>>, PaidMiners(n)[m])
<1>1. IsSeq(A) /\ \A w \in Range(A) : w = Put(RewardKey(n, m), Rewards(n)[m])
  <2>1. CASE HasPayout(n, m)
    <3>1. A = Save(RewardKey(n, m), Rewards(n)[m])
        BY <2>1
    <3> HIDE DEF A
    <3>2. QED
        BY <3>1, SaveFacts DEF Put
  <2>2. CASE ~HasPayout(n, m)
    BY <2>2, EmptySequence
  <2>3. QED
    BY <2>1, <2>2
<1>2. IsSeq(B) /\ Range(B) = {Put(<<"miner", m>>, PaidMiners(n)[m])}
    BY SaveFacts DEF Put
<1>3. RewardWrites(n, m) = A \o B
    BY DEF RewardWrites
<1> HIDE DEF A, B
<1>4. IsSeq(A \o B) /\ Range(A \o B) = Range(A) \cup Range(B)
    BY <1>1, <1>2, Concatenation
<1>5. QED
    BY <1>1, <1>2, <1>3, <1>4

LEMMA PayWrites ==
    ASSUME IsFiniteSet(Miners), NEW n, Paid(n) \in SUBSET Miners,
           NEW order \in SetToSeqs(Miners)
    PROVE  LET W == PayStep(n, order).writes
           IN /\ IsSeq(W)
              /\ \A m \in Paid(n) : Put(<<"miner", m>>, PaidMiners(n)[m]) \in Range(W)
              /\ \A w \in Range(W) :
                    \/ w = Put(TreasuryKey(n), TreasuryCut(n))
                    \/ \E m \in Paid(n) : \/ w = Put(<<"miner", m>>, PaidMiners(n)[m])
                                          \/ w = Put(RewardKey(n, m), Rewards(n)[m])
<1> DEFINE S == Paid(n)
           A == IF TreasuryCut(n) > 0 THEN Save(TreasuryKey(n), TreasuryCut(n)) ELSE <<>>
           f == [m \in S |-> RewardWrites(n, m)]
           B == Gathered(S, order, f)
<1>1. IsSeq(A) /\ \A w \in Range(A) : w = Put(TreasuryKey(n), TreasuryCut(n))
  <2>1. CASE TreasuryCut(n) > 0
    <3>1. A = Save(TreasuryKey(n), TreasuryCut(n))
        BY <2>1
    <3> HIDE DEF A
    <3>2. QED
        BY <3>1, SaveFacts DEF Put
  <2>2. CASE ~(TreasuryCut(n) > 0)
    BY <2>2, EmptySequence
  <2>3. QED
    BY <2>1, <2>2
<1>2. PayStep(n, order).writes = A \o B
  <2> DEFINE g(m) == (IF HasPayout(n, m)
                      THEN Save(<<"reward", n.height, n.epoch, m>>, Rewards(n)[m]) ELSE <<>>)
                     \o Save(<<"miner", m>>, [x \in DOMAIN n.miners |->
                            [n.miners[x] EXCEPT !.total_rewards = @ + Rewards(n)[x]]][m])
  <2>1. \A m : g(m) = RewardWrites(n, m)
    BY DEF RewardWrites, RewardKey, PaidMiners
  <2>2. PayStep(n, order).writes =
            A \o FlattenSeq([i \in DOMAIN order |-> IF order[i] \in S THEN g(order[i]) ELSE <<>>])
    BY DEF PayStep, Step, ForEach, Paid, TreasuryKey
  <2> HIDE DEF g
  <2>3. [i \in DOMAIN order |-> IF order[i] \in S THEN g(order[i]) ELSE <<>>]
          = [i \in DOMAIN order |-> IF order[i] \in S THEN f[order[i]] ELSE <<>>]
    BY <2>1
  <2>4. QED
    BY <2>2, <2>3 DEF Gathered
<1>3. \A m \in S : f[m] = RewardWrites(n, m)
    OBVIOUS
<1> HIDE DEF A, S, f
<1>4. \A m \in S : IsSeq(f[m])
    BY <1>3, RewardWritesFacts
<1>5. S \in SUBSET Miners
    BY DEF S
<1>6. IsSeq(B) /\ Range(B) = UNION {Range(f[m]) : m \in S}
    BY <1>4, <1>5, GatheredFacts
<1> HIDE DEF B
<1>7. IsSeq(A \o B) /\ Range(A \o B) = Range(A) \cup Range(B)
    BY <1>1, <1>6, Concatenation
<1>8. \A m \in S : Put(<<"miner", m>>, PaidMiners(n)[m]) \in Range(B)
  <2>1. ASSUME NEW m \in S PROVE Put(<<"miner", m>>, PaidMiners(n)[m]) \in Range(B)
    <3>1. Put(<<"miner", m>>, PaidMiners(n)[m]) \in Range(f[m])
        BY <1>3, RewardWritesFacts
    <3>2. QED
        BY <1>6, <3>1
  <2>2. QED
    BY <2>1
<1>9. ASSUME NEW w \in Range(B)
      PROVE  \E m \in S : \/ w = Put(<<"miner", m>>, PaidMiners(n)[m])
                          \/ w = Put(RewardKey(n, m), Rewards(n)[m])
  <2>1. PICK m \in S : w \in Range(f[m])
    BY <1>6
  <2>2. w \in Range(RewardWrites(n, m))
    BY <1>3, <2>1
  <2>3. QED
    BY <2>2, RewardWritesFacts
<1>10. /\ IsSeq(A \o B)
       /\ \A m \in S : Put(<<"miner", m>>, PaidMiners(n)[m]) \in Range(A \o B)
       /\ \A w \in Range(A \o B) :
             \/ w = Put(TreasuryKey(n), TreasuryCut(n))
             \/ \E m \in S : \/ w = Put(<<"miner", m>>, PaidMiners(n)[m])
                             \/ w = Put(RewardKey(n, m), Rewards(n)[m])
    BY <1>1, <1>7, <1>8, <1>9
<1>11. QED
    BY <1>2, <1>10 DEF S

\* Kinds of the keys of outputs.
LEMMA OutputKeyKinds ==
    ASSUME NEW n
    PROVE  /\ TreasuryKey(n)[1] = "treasury"
           /\ \A m : RewardKey(n, m)[1] = "reward" /\ RewardKey(n, m)[4] = m
BY DEF TreasuryKey, RewardKey

LEMMA PayFacts ==
    ASSUME IsFiniteSet(Miners), ContributionsAreNat, NEW n, NodeOK(n),
           NEW order \in SetToSeqs(Miners)
    PROVE  LET s == PayStep(n, order)
           IN /\ NodeOK(s.node) /\ SameRest(n, s.node)
              /\ InnerOK(s.writes, n.epoch)
              /\ Tracks(n, s.node, s.writes)
<1> DEFINE s == PayStep(n, order)
           W == s.writes
           ms == PutAll(n.miners, PaidMiners(n))
           D == DOMAIN n.miners
<1>1. /\ Rewards(n) \in [D -> Nat]
      /\ D \in SUBSET Miners /\ \A m \in D : n.miners[m] \in MinerRecord
      /\ n.miners \in Partial(MinerRecord)
    BY RewardFacts, NodeFields, PartialFacts
<1>2. Paid(n) = {m \in D : Rewards(n)[m] > 0} /\ Paid(n) \in SUBSET Miners
    BY <1>1 DEF Paid
<1>3. \A m \in D : /\ PaidMiners(n)[m] \in MinerRecord
                   /\ PaidMiners(n)[m].shares = n.miners[m].shares
                   /\ Rewards(n)[m] = 0 => PaidMiners(n)[m] = n.miners[m]
  <2>1. ASSUME NEW m \in D
        PROVE  /\ PaidMiners(n)[m] \in MinerRecord
               /\ Rewards(n)[m] = 0 => PaidMiners(n)[m] = n.miners[m]
    <3>1. PaidMiners(n)[m] = [n.miners[m] EXCEPT !.total_rewards = @ + Rewards(n)[m]]
        BY DEF PaidMiners
    <3>2. n.miners[m] \in MinerRecord /\ Rewards(n)[m] \in Nat
        BY <1>1
    <3>3. QED
        BY <3>1, <3>2 DEF MinerRecord
  <2>2. QED
    BY <1>1, <2>1 DEF PaidMiners, MinerRecord
<1>4. PaidMiners(n) \in Partial(MinerRecord) /\ DOMAIN PaidMiners(n) = D
  <2> DEFINE g == PaidMiners(n)
  <2>1. DOMAIN g = D /\ g = [m \in DOMAIN g |-> g[m]]
    BY DEF PaidMiners
  <2>2. \A m \in DOMAIN g : g[m] \in MinerRecord
    BY <1>3, <2>1
  <2> HIDE DEF g
  <2>3. g \in Partial(MinerRecord)
    BY <1>1, <2>1, <2>2, IsPartial
  <2>4. QED
    BY <2>1, <2>3 DEF g
<1>5. ms \in Partial(MinerRecord)
    BY <1>1, <1>4, PutAllType
<1>6. DOMAIN ms = D /\ \A m \in D : ms[m] = PaidMiners(n)[m]
    BY <1>4 DEF PutAll
<1>7. s.node = [n EXCEPT !.miners = ms]
    BY DEF PayStep, Step, PaidMiners
<1>8. /\ IsSeq(W)
      /\ \A m \in Paid(n) : Put(<<"miner", m>>, PaidMiners(n)[m]) \in Range(W)
      /\ \A w \in Range(W) :
            \/ w = Put(TreasuryKey(n), TreasuryCut(n))
            \/ \E m \in Paid(n) : \/ w = Put(<<"miner", m>>, PaidMiners(n)[m])
                                  \/ w = Put(RewardKey(n, m), Rewards(n)[m])
    BY <1>2, PayWrites
<1> HIDE DEF s, W, ms
<1>9. /\ s.node \in NodeRecord /\ s.node.miners = ms /\ s.node.loyalty = n.loyalty
      /\ s.node.bonds = n.bonds /\ SameRest(n, s.node)
    BY <1>5, <1>7 DEF NodeOK, NodeRecord, SameRest
<1>10. NodeOK(s.node)
    BY <1>9 DEF NodeOK, SameRest
<1>11. \A w \in Range(W) : /\ w.op = "put" /\ w.key[1] # "state"
                           /\ FitsKind(w.key, w.value, n.epoch)
  <2>1. ASSUME NEW w \in Range(W)
        PROVE  /\ w.op = "put" /\ w.key[1] # "state" /\ FitsKind(w.key, w.value, n.epoch)
    <3>1. CASE w = Put(TreasuryKey(n), TreasuryCut(n))
      <4>1. TreasuryCut(n) \in Nat
        BY EpochRewardFacts
      <4>2. w.op = "put" /\ w.key[1] = "treasury" /\ w.value = TreasuryCut(n)
        BY <3>1, OutputKeyKinds DEF Put
      <4>3. QED
        BY <4>1, <4>2 DEF FitsKind
    <3>2. ASSUME NEW m \in Paid(n), w = Put(<<"miner", m>>, PaidMiners(n)[m])
          PROVE  w.op = "put" /\ w.key[1] # "state" /\ FitsKind(w.key, w.value, n.epoch)
      <4>1. w.op = "put" /\ w.key[1] = "miner" /\ w.value \in MinerRecord
        BY <1>2, <1>3, <3>2 DEF Put
      <4>2. QED
        BY <4>1 DEF FitsKind, OutputKinds
    <3>3. ASSUME NEW m \in Paid(n), w = Put(RewardKey(n, m), Rewards(n)[m])
          PROVE  w.op = "put" /\ w.key[1] # "state" /\ FitsKind(w.key, w.value, n.epoch)
      <4>1. Rewards(n)[m] \in Nat
        BY <1>1, <1>2
      <4>2. w.op = "put" /\ w.key[1] = "reward" /\ w.value = Rewards(n)[m]
        BY <3>3, OutputKeyKinds DEF Put
      <4>3. QED
        BY <4>1, <4>2 DEF FitsKind
    <3>4. QED
        BY <1>8, <3>1, <3>2, <3>3
  <2>2. QED
    BY <2>1
<1>12. InnerOK(W, n.epoch)
    BY <1>8, <1>11 DEF InnerOK
<1>13. \A w \in Range(W) :
           \/ w.key[1] \in OutputKinds
           \/ \E m \in Paid(n) : w.key = <<"miner", m>> /\ w.value = PaidMiners(n)[m]
    BY <1>8, OutputKeyKinds DEF Put, OutputKinds
<1>14. TracksRecords("miner", n.miners, ms, W)
  <2>1. ASSUME NEW m \in Miners, m \notin Paid(n) PROVE Untouched(W, <<"miner", m>>)
    BY <1>13, <2>1, RecordKeys DEF Untouched, OutputKinds
  <2>2. ASSUME NEW m \in Paid(n) PROVE Puts(W, <<"miner", m>>, PaidMiners(n)[m])
    <3>1. \A w \in Range(W) : w.key = <<"miner", m>> => w.value = PaidMiners(n)[m]
        BY <1>13, RecordKeys DEF OutputKinds
    <3>2. \E w \in Range(W) : w.key = <<"miner", m>>
        BY <1>8 DEF Put
    <3>3. QED
        BY <1>11, <3>1, <3>2 DEF Puts
  <2>3. \A m \in D : m \notin Paid(n) => Rewards(n)[m] = 0
    BY <1>1, <1>2
  <2>4. QED
    BY <1>2, <1>3, <1>6, <2>1, <2>2, <2>3 DEF TracksRecords
<1>15. TracksRecords("loyalty", n.loyalty, n.loyalty, W) /\ TracksBonds(n.bonds, n.bonds, W)
    BY <1>13, RecordKeys DEF TracksRecords, TracksBonds, Untouched, OutputKinds
<1>16. Tracks(n, s.node, W)
    BY <1>9, <1>14, <1>15 DEF Tracks
<1>17. QED
    BY <1>9, <1>10, <1>12, <1>16 DEF s, W

\* The outputs that paying creates are worth at most what is issued.
LEMMA PayMints ==
    ASSUME IsFiniteSet(Miners), ContributionsAreNat, NEW n, NodeOK(n),
           NEW order \in SetToSeqs(Miners),
           NEW d, NEW e, DiskOK(d, e)
    PROVE  LET r == Result(d, PayStep(n, order).writes)
           IN /\ MintedOf(d) \in Nat /\ MintedOf(r) \in Nat
              /\ MintedOf(r) <= MintedOf(d) + Issued(n, Rewards(n))
<1> DEFINE W == PayStep(n, order).writes
           D == DOMAIN n.miners
           rewards == Rewards(n)
           cut == TreasuryCut(n)
           key == [m \in D |-> RewardKey(n, m)]
           K == Range(key)
           N == {TreasuryKey(n)} \cup K
           v == [k \in N |-> IF k[1] = "treasury" THEN cut ELSE rewards[k[4]]]
<1>1. /\ IsFiniteSet(D) /\ rewards \in [D -> Nat] /\ cut \in Nat
      /\ Issued(n, rewards) = SumOver(rewards, D) + cut
    BY RewardFacts, EpochRewardFacts
<1>2. /\ IsSeq(W)
      /\ \A w \in Range(W) :
            \/ w = Put(TreasuryKey(n), cut)
            \/ \E m \in Paid(n) : \/ w = Put(<<"miner", m>>, PaidMiners(n)[m])
                                  \/ w = Put(RewardKey(n, m), rewards[m])
  <2>1. Paid(n) \in SUBSET Miners
    BY <1>1, NodeFields, PartialFacts DEF Paid
  <2>2. QED
    BY <2>1, PayWrites
<1>3. Paid(n) \in SUBSET D
    BY <1>1 DEF Paid
<1> HIDE DEF rewards, cut, W, D
<1>4. \A k \in K : \E m \in D : k = RewardKey(n, m)
    BY DEF Range
<1>5. \A m \in D : RewardKey(n, m) \in K /\ key[m] = RewardKey(n, m)
    BY DEF Range
<1>6. key \in [D -> N]
    BY <1>5
<1>7. \A x, y \in D : key[x] = key[y] => x = y
  <2>1. ASSUME NEW x \in D, NEW y \in D, key[x] = key[y] PROVE x = y
    <3>1. RewardKey(n, x) = RewardKey(n, y)
        BY <1>5, <2>1
    <3>2. RewardKey(n, x)[4] = x /\ RewardKey(n, y)[4] = y
        BY OutputKeyKinds
    <3>3. QED
        BY <3>1, <3>2
  <2>2. QED
    BY <2>1
<1> HIDE DEF K, key
<1>8. v[TreasuryKey(n)] = cut
    BY OutputKeyKinds
<1>9. \A m \in D : v[RewardKey(n, m)] = rewards[m]
  <2>1. ASSUME NEW m \in D PROVE v[RewardKey(n, m)] = rewards[m]
    <3>1. RewardKey(n, m) \in N /\ RewardKey(n, m)[1] # "treasury" /\ RewardKey(n, m)[4] = m
        BY <1>5, OutputKeyKinds
    <3>2. QED
        BY <3>1
  <2>2. QED
    BY <2>1
<1>10. v \in [N -> Nat]
  <2>1. v = [k \in N |-> v[k]]
    OBVIOUS
  <2> HIDE DEF v
  <2>2. \A k \in N : v[k] \in Nat
    BY <1>1, <1>4, <1>8, <1>9
  <2>3. QED
    BY <2>1, <2>2
<1> HIDE DEF v
<1>11. IsFiniteSet(K) /\ SumOver(v, K) = SumOver(rewards, D)
  <2>1. \A x \in D : v[key[x]] = rewards[x]
    BY <1>5, <1>9
  <2> HIDE DEF N
  <2>2. QED
    BY <1>1, <1>6, <1>7, <1>10, <2>1, SumOfKeys DEF K
<1>12. IsFiniteSet(N)
    BY <1>11, FS_AddElement
<1>13. TreasuryKey(n) \notin K
    BY <1>4, OutputKeyKinds
<1>14. SumOver(v, N) = cut + SumOver(v, K)
  <2>1. v \in [N -> Int] /\ TreasuryKey(n) \in N /\ N \ {TreasuryKey(n)} = K /\ N \in SUBSET N
    BY <1>10, <1>13
  <2> HIDE DEF N
  <2>2. SumOver(v, N) = v[TreasuryKey(n)] + SumOver(v, N \ {TreasuryKey(n)})
    BY <1>12, <2>1, SumFacts
  <2>3. QED
    BY <1>8, <2>1, <2>2
<1>15. ASSUME NEW w \in Range(W), w.op = "put", w.key[1] \in OutputKinds
       PROVE  w.key \in N /\ w.value = v[w.key]
  <2>1. CASE w = Put(TreasuryKey(n), cut)
    BY <1>8, <2>1 DEF Put
  <2>2. ASSUME NEW m \in Paid(n), w = Put(<<"miner", m>>, PaidMiners(n)[m]) PROVE FALSE
    BY <1>15, <2>2, RecordKeys DEF Put, OutputKinds
  <2>3. ASSUME NEW m \in Paid(n), w = Put(RewardKey(n, m), rewards[m])
        PROVE  w.key \in N /\ w.value = v[w.key]
    <3>1. m \in D
        BY <1>3
    <3>2. w.key = RewardKey(n, m) /\ w.value = rewards[m]
        BY <2>3 DEF Put
    <3>3. QED
        BY <1>5, <1>9, <3>1, <3>2
  <2>4. QED
    BY <1>2, <2>1, <2>2, <2>3
<1> HIDE DEF N
<1> DEFINE r == Result(d, W)
<1>16. /\ MintedOf(d) \in Nat /\ MintedOf(r) \in Nat
       /\ MintedOf(r) <= MintedOf(d) + SumOver(v, N)
    BY <1>2, <1>10, <1>12, <1>15, MintedGrows
<1>17. SumOver(v, N) = Issued(n, Rewards(n))
  <2>1. SumOver(rewards, D) \in Nat
    BY <1>1, SumIsNat
  <2>2. QED
    BY <1>1, <1>11, <1>14, <2>1 DEF rewards
<1>18. QED
    BY <1>16, <1>17 DEF r, W

----------------------------------------------------------------------------
(* The archive, the commit, and the reset *)

\* Writes that concern none of the records, counters and outputs.
Plain(writes) ==
    /\ IsSeq(writes)
    /\ \A w \in Range(writes) :
          w.key[1] \in {"shares", "share_root", "commit", "commit_root"}

LEMMA PlainBoth ==
    ASSUME NEW s, Plain(s), NEW t, Plain(t)
    PROVE  Plain(s \o t)
<1>1. IsSeq(s) /\ IsSeq(t)
    BY DEF Plain
<1>2. IsSeq(s \o t) /\ Range(s \o t) = Range(s) \cup Range(t)
    BY <1>1, Concatenation
<1>3. QED
    BY <1>2 DEF Plain

LEMMA PlainSave ==
    ASSUME NEW kind \in {"shares", "share_root", "commit", "commit_root"}, NEW e, NEW v
    PROVE  Plain(Save(<<kind, e>>, v))
<1>1. /\ IsSeq(Save(<<kind, e>>, v))
      /\ Range(Save(<<kind, e>>, v)) = {[op |-> "put", key |-> <<kind, e>>, value |-> v]}
    BY SaveFacts
<1>2. QED
    BY <1>1 DEF Plain

LEMMA PlainFacts ==
    ASSUME NEW n, NEW next, SameRecords(n, next), NEW writes, Plain(writes), NEW e
    PROVE  InnerOK(writes, e) /\ Silent(writes) /\ Tracks(n, next, writes)
<1>1. \A w \in Range(writes) : /\ w.key[1] \notin RecordKinds /\ w.key[1] # "state"
                               /\ w.key[1] \notin OutputKinds
                               /\ FitsKind(w.key, w.value, e)
    BY DEF Plain, RecordKinds, OutputKinds, FitsKind
<1>2. Tracks(n, next, writes)
    BY <1>1, TracksNothing
<1>3. QED
    BY <1>1, <1>2 DEF InnerOK, Silent, Plain

LEMMA CommitFacts ==
    ASSUME NEW n, NodeOK(n)
    PROVE  LET s == CommitStep(n)
           IN /\ NodeOK(s.node) /\ SameRest(n, s.node)
              /\ InnerOK(s.writes, n.epoch) /\ Silent(s.writes)
              /\ Tracks(n, s.node, s.writes)
              /\ \A m \in Miners : s.node.share_count[m] = 0
<1> DEFINE s == CommitStep(n)
           zeros == [m \in Miners |-> 0]
           commit == [epoch |-> n.epoch, height |-> n.height, previous |-> PreviousCommit(n)]
           A == Save(<<"shares", n.epoch>>, n.share_count)
           B == Save(<<"share_root", n.epoch>>, n.share_count)
           C == Save(<<"commit", n.epoch>>, commit)
           E == Save(<<"commit_root", n.epoch>>, commit)
<1>1. s.node = [n EXCEPT !.share_count = zeros] /\ s.writes = A \o B \o C \o E
    BY DEF CommitStep, Step
<1>2. Plain(A) /\ Plain(B) /\ Plain(C) /\ Plain(E)
    BY PlainSave
<1> HIDE DEF s, A, B, C, E
<1>3. Plain(s.writes)
  <2>1. Plain(A \o B)
    BY <1>2, PlainBoth
  <2>2. Plain(A \o B \o C)
    BY <1>2, <2>1, PlainBoth
  <2>3. QED
    BY <1>1, <1>2, <2>2, PlainBoth
<1>4. zeros \in [Miners -> Nat]
    OBVIOUS
<1>5. /\ s.node \in NodeRecord /\ SameRecords(n, s.node) /\ SameRest(n, s.node)
      /\ s.node.share_count = zeros
    BY <1>1, <1>4 DEF NodeOK, NodeRecord, SameRest, SameRecords
<1>6. NodeOK(s.node)
    BY <1>5 DEF NodeOK, SameRest, SameRecords
<1>7. InnerOK(s.writes, n.epoch) /\ Silent(s.writes) /\ Tracks(n, s.node, s.writes)
    BY <1>3, <1>5, PlainFacts
<1>8. QED
    BY <1>5, <1>6, <1>7 DEF s

LEMMA ResetFacts ==
    ASSUME IsFiniteSet(Miners), NEW n, NodeOK(n), NEW order \in SetToSeqs(Miners)
    PROVE  LET s == ResetStep(n, order)
           IN /\ NodeOK(s.node) /\ SameRest(n, s.node)
              /\ InnerOK(s.writes, n.epoch) /\ Silent(s.writes)
              /\ Tracks(n, s.node, s.writes)
              /\ (\A m \in Miners : n.share_count[m] = 0) => SharesMatch(s.node)
<1> DEFINE s == ResetStep(n, order)
           ids == DOMAIN n.miners
           loyalty == [m \in ids |->
                        UpdateLoyalty(LoyaltyOf(n, m), n.epoch, n.miners[m].shares > 0)]
           miners == [m \in ids |-> ResetShares(n.miners[m])]
           f == [m \in ids |-> Save(<<"loyalty", m>>, loyalty[m])]
           g == [m \in ids |-> Save(<<"miner", m>>, miners[m])]
           A == Gathered(ids, order, f)
           B == Gathered(ids, order, g)
           ls == PutAll(n.loyalty, loyalty)
           ms == PutAll(n.miners, miners)
           W == s.writes
<1>1. /\ ids \in SUBSET Miners /\ \A m \in ids : n.miners[m] \in MinerRecord
      /\ n.miners \in Partial(MinerRecord) /\ n.loyalty \in Partial(LoyaltyRecord)
    BY NodeFields, PartialFacts
<1>2. \A m \in ids : EarnedOnce(loyalty[m], n.epoch) /\ loyalty[m] \in LoyaltyRecord
  <2>1. ASSUME NEW m \in ids
        PROVE  EarnedOnce(loyalty[m], n.epoch) /\ loyalty[m] \in LoyaltyRecord
    <3> DEFINE b == n.miners[m].shares > 0
    <3>1. EarnedOnce(LoyaltyOf(n, m), n.epoch) /\ n.epoch \in Nat
        BY LoyaltyOfEarned, NodeFields
    <3>2. b \in BOOLEAN /\ loyalty[m] = UpdateLoyalty(LoyaltyOf(n, m), n.epoch, b)
        OBVIOUS
    <3> HIDE DEF b, loyalty
    <3>3. EarnedOnce(loyalty[m], n.epoch)
        BY <3>1, <3>2, UpdateEarnsOnce
    <3>4. QED
        BY <3>3 DEF EarnedOnce
  <2>2. QED
    BY <2>1
<1>3. \A m \in ids : miners[m] \in MinerRecord /\ miners[m].shares = 0
    BY <1>1 DEF ResetShares, MinerRecord
<1>4. /\ s.node = [n EXCEPT !.loyalty = ls, !.miners = ms]
      /\ W = A \o B
  <2>1. s.node = [n EXCEPT !.loyalty = ls, !.miners = ms]
    BY DEF ResetStep, Step
  <2>2. W = FlattenSeq([i \in DOMAIN order |->
                IF order[i] \in ids THEN Save(<<"loyalty", order[i]>>, loyalty[order[i]]) ELSE <<>>])
              \o FlattenSeq([i \in DOMAIN order |->
                IF order[i] \in ids THEN Save(<<"miner", order[i]>>, miners[order[i]]) ELSE <<>>])
    BY DEF ResetStep, Step, ForEach
  <2> HIDE DEF W, loyalty, miners
  <2>3. [i \in DOMAIN order |->
                IF order[i] \in ids THEN Save(<<"loyalty", order[i]>>, loyalty[order[i]]) ELSE <<>>]
          = [i \in DOMAIN order |-> IF order[i] \in ids THEN f[order[i]] ELSE <<>>]
    OBVIOUS
  <2>4. [i \in DOMAIN order |->
                IF order[i] \in ids THEN Save(<<"miner", order[i]>>, miners[order[i]]) ELSE <<>>]
          = [i \in DOMAIN order |-> IF order[i] \in ids THEN g[order[i]] ELSE <<>>]
    OBVIOUS
  <2>5. QED
    BY <2>1, <2>2, <2>3, <2>4 DEF Gathered
<1>5. /\ DOMAIN loyalty = ids /\ loyalty = [m \in DOMAIN loyalty |-> loyalty[m]]
      /\ DOMAIN miners = ids /\ miners = [m \in DOMAIN miners |-> miners[m]]
    OBVIOUS
<1> HIDE DEF s, W, loyalty, miners
<1>6. loyalty \in Partial(LoyaltyRecord) /\ miners \in Partial(MinerRecord)
    BY <1>1, <1>2, <1>3, <1>5, IsPartial
<1>7. ls \in Partial(LoyaltyRecord) /\ ms \in Partial(MinerRecord)
    BY <1>1, <1>6, PutAllType
<1>8. /\ DOMAIN ls = DOMAIN n.loyalty \cup ids
      /\ \A m \in ids : ls[m] = loyalty[m]
      /\ \A m \in DOMAIN n.loyalty : m \notin ids => ls[m] = n.loyalty[m]
      /\ DOMAIN ms = ids /\ \A m \in ids : ms[m] = miners[m]
    BY <1>5 DEF PutAll
<1>9. \A m \in ids : /\ IsSeq(f[m]) /\ Range(f[m]) = {Put(<<"loyalty", m>>, loyalty[m])}
                     /\ IsSeq(g[m]) /\ Range(g[m]) = {Put(<<"miner", m>>, miners[m])}
    BY SaveFacts DEF Put
<1> HIDE DEF ls, ms, ids, f, g
<1>10. /\ IsSeq(A) /\ Range(A) = UNION {Range(f[m]) : m \in ids}
       /\ IsSeq(B) /\ Range(B) = UNION {Range(g[m]) : m \in ids}
    BY <1>1, <1>9, GatheredFacts
<1> HIDE DEF A, B
<1>11. IsSeq(W) /\ Range(W) = Range(A) \cup Range(B)
    BY <1>4, <1>10, Concatenation
<1>12. \A m \in ids : /\ Put(<<"loyalty", m>>, loyalty[m]) \in Range(W)
                      /\ Put(<<"miner", m>>, miners[m]) \in Range(W)
  <2>1. ASSUME NEW m \in ids
        PROVE  /\ Put(<<"loyalty", m>>, loyalty[m]) \in Range(A)
               /\ Put(<<"miner", m>>, miners[m]) \in Range(B)
    <3>1. Put(<<"loyalty", m>>, loyalty[m]) \in Range(f[m])
          /\ Put(<<"miner", m>>, miners[m]) \in Range(g[m])
        BY <1>9
    <3>2. QED
        BY <1>10, <3>1
  <2>2. QED
    BY <1>11, <2>1
<1>13. ASSUME NEW w \in Range(W)
       PROVE  \E m \in ids : \/ w = Put(<<"loyalty", m>>, loyalty[m])
                             \/ w = Put(<<"miner", m>>, miners[m])
  <2>1. CASE w \in Range(A)
    <3>1. PICK m \in ids : w \in Range(f[m])
        BY <1>10, <2>1
    <3>2. w = Put(<<"loyalty", m>>, loyalty[m])
        BY <1>9, <3>1
    <3>3. QED
        BY <3>2
  <2>2. CASE w \in Range(B)
    <3>1. PICK m \in ids : w \in Range(g[m])
        BY <1>10, <2>2
    <3>2. w = Put(<<"miner", m>>, miners[m])
        BY <1>9, <3>1
    <3>3. QED
        BY <3>2
  <2>3. QED
    BY <1>11, <2>1, <2>2
<1>14. /\ s.node \in NodeRecord /\ s.node.miners = ms /\ s.node.loyalty = ls
       /\ s.node.bonds = n.bonds /\ s.node.share_count = n.share_count /\ SameRest(n, s.node)
    BY <1>4, <1>7 DEF NodeOK, NodeRecord, SameRest
<1>15. NodeOK(s.node)
    BY <1>2, <1>8, <1>14 DEF NodeOK, SameRest
<1>16. ASSUME NEW w \in Range(W)
       PROVE  /\ w.op = "put" /\ w.key[1] # "state" /\ w.key[1] \notin OutputKinds
              /\ FitsKind(w.key, w.value, n.epoch) /\ w.key[1] # "bond"
  <2>1. PICK m \in ids : \/ w = Put(<<"loyalty", m>>, loyalty[m])
                         \/ w = Put(<<"miner", m>>, miners[m])
    BY <1>13
  <2>2. CASE w = Put(<<"loyalty", m>>, loyalty[m])
    <3>1. w.op = "put" /\ w.key[1] = "loyalty" /\ EarnedOnce(w.value, n.epoch)
        BY <1>2, <2>2, RecordKeys DEF Put
    <3>2. QED
        BY <3>1 DEF FitsKind, OutputKinds
  <2>3. CASE w = Put(<<"miner", m>>, miners[m])
    <3>1. w.op = "put" /\ w.key[1] = "miner" /\ w.value \in MinerRecord
        BY <1>3, <2>3, RecordKeys DEF Put
    <3>2. QED
        BY <3>1 DEF FitsKind, OutputKinds
  <2>4. QED
    BY <2>1, <2>2, <2>3
<1>17. InnerOK(W, n.epoch) /\ Silent(W)
    BY <1>11, <1>16 DEF InnerOK, Silent
<1>18. ASSUME NEW m \in Miners, m \notin ids
       PROVE  Untouched(W, <<"miner", m>>) /\ Untouched(W, <<"loyalty", m>>)
    BY <1>13, <1>18, RecordKeys DEF Untouched, Put
<1>19. ASSUME NEW m \in ids
       PROVE  /\ Puts(W, <<"miner", m>>, miners[m])
              /\ Puts(W, <<"loyalty", m>>, loyalty[m])
  <2>1. /\ \A w \in Range(W) : w.key = <<"miner", m>> => w.value = miners[m]
        /\ \A w \in Range(W) : w.key = <<"loyalty", m>> => w.value = loyalty[m]
    BY <1>13, RecordKeys DEF Put
  <2>2. /\ \E w \in Range(W) : w.key = <<"miner", m>>
        /\ \E w \in Range(W) : w.key = <<"loyalty", m>>
    BY <1>12 DEF Put
  <2>3. QED
    BY <1>16, <2>1, <2>2 DEF Puts
<1>20. TracksRecords("miner", n.miners, ms, W)
    BY <1>8, <1>18, <1>19 DEF TracksRecords, ids
<1>21. TracksRecords("loyalty", n.loyalty, ls, W)
    BY <1>8, <1>18, <1>19 DEF TracksRecords
<1>22. TracksBonds(n.bonds, n.bonds, W)
    BY <1>16, RecordKeys DEF TracksBonds, Untouched
<1>23. Tracks(n, s.node, W)
    BY <1>14, <1>20, <1>21, <1>22 DEF Tracks
<1>24. (\A m \in Miners : n.share_count[m] = 0) => SharesMatch(s.node)
    BY <1>3, <1>8, <1>14 DEF SharesMatch, MinerOf, NewMiner
<1>25. QED
    BY <1>14, <1>15, <1>17, <1>23, <1>24 DEF s, W

----------------------------------------------------------------------------
(* Epochs and the database *)

LEMMA NextQuotient ==
    ASSUME NEW h \in Nat, NEW b \in Nat \ {0}
    PROVE  /\ (h + 1) % b = 0 => (h + 1) \div b = h \div b + 1
           /\ (h + 1) % b # 0 => (h + 1) \div b = h \div b
           /\ h \div b \in Nat
OBVIOUS

LEMMA NextEpoch ==
    ASSUME NEW h \in Nat
    PROVE  /\ EpochAt(h) \in Nat /\ EpochAt(h + 1) \in Nat
           /\ EpochAt(h) <= EpochAt(h + 1)
           /\ (h + 1) % EpochBlocks = 0 => EpochAt(h + 1) = EpochAt(h) + 1
           /\ (h + 1) % EpochBlocks # 0 => EpochAt(h + 1) = EpochAt(h)
<1>1. EpochBlocks \in Nat \ {0}
    BY EpochAssumption
<1>2. h \div EpochBlocks \in Nat /\ h + 1 \in Nat
    BY <1>1, NextQuotient
<1>3. /\ (h + 1) % EpochBlocks = 0 => (h + 1) \div EpochBlocks = h \div EpochBlocks + 1
      /\ (h + 1) % EpochBlocks # 0 => (h + 1) \div EpochBlocks = h \div EpochBlocks
    BY <1>1, NextQuotient
<1> DEFINE q == h \div EpochBlocks
           p == (h + 1) \div EpochBlocks
           r == (h + 1) % EpochBlocks
<1>4. EpochAt(h) = q + 1 /\ EpochAt(h + 1) = p + 1
    BY DEF EpochAt
<1>5. q \in Nat /\ (r = 0 => p = q + 1) /\ (r # 0 => p = q)
    BY <1>2, <1>3
<1> HIDE DEF q, p, r
<1>6. /\ EpochAt(h) \in Nat /\ EpochAt(h + 1) \in Nat /\ EpochAt(h) <= EpochAt(h + 1)
      /\ r = 0 => EpochAt(h + 1) = EpochAt(h) + 1
      /\ r # 0 => EpochAt(h + 1) = EpochAt(h)
    BY <1>4, <1>5
<1>7. QED
    BY <1>6 DEF r

LEMMA EarnedLater ==
    ASSUME NEW e \in Nat, NEW f \in Nat, e <= f, NEW l, EarnedOnce(l, e)
    PROVE  EarnedOnce(l, f)
BY DEF EarnedOnce, LoyaltyRecord

\* A database that is met in the middle of a handler is one to start from.
LEMMA Rebased ==
    ASSUME NEW d, NEW e \in Nat, DiskOK(d, e)
    PROVE  /\ d[HeightKey] \in Nat /\ d[EmittedKey] \in Nat
           /\ e <= EpochAt(d[HeightKey]) /\ EpochAt(d[HeightKey]) \in Nat
           /\ DiskOK(d, EpochAt(d[HeightKey]))
<1> DEFINE f == EpochAt(d[HeightKey])
<1>1. d[HeightKey] \in Nat /\ e <= f
    BY DEF DiskOK, Fits
<1>2. f \in Nat
    BY <1>1, NextEpoch
<1>3. d[EmittedKey] \in Nat
    BY DEF DiskOK, Fits
<1>5. ASSUME NEW k \in DOMAIN d PROVE Fits(k, d[k], f)
  <2>1. FitsKind(k, d[k], e)
    BY DEF DiskOK, Fits
  <2>2. FitsKind(k, d[k], f)
    BY <1>1, <1>2, <2>1, EarnedLater DEF FitsKind
  <2>3. k = HeightKey => d[k] \in Nat /\ f <= EpochAt(d[k])
    BY <1>1, <1>2
  <2>4. k = EmittedKey => d[k] \in Nat
    BY <1>3
  <2>5. QED
    BY <2>2, <2>3, <2>4 DEF Fits
<1>6. DiskOK(d, f)
    BY <1>5 DEF DiskOK
<1>7. QED
    BY <1>1, <1>2, <1>3, <1>6

\* Writes of one step, as writes of the handler.
LEMMA InnerWritesOK ==
    ASSUME NEW e, NEW writes, InnerOK(writes, e)
    PROVE  IsSeq(writes) /\ WritesOK(writes, e)
BY StateKeys DEF InnerOK, WritesOK, WriteOK, Fits

LEMMA WritesBothOK ==
    ASSUME NEW e, NEW a, WritesOK(a, e), NEW b, WritesOK(b, e)
    PROVE  WritesOK(a \o b, e)
<1>1. IsSeq(a) /\ IsSeq(b)
    BY DEF WritesOK
<1>2. IsSeq(a \o b) /\ Range(a \o b) = Range(a) \cup Range(b)
    BY <1>1, Concatenation
<1>3. QED
    BY <1>2 DEF WritesOK

\* The database after writes that may be.
LEMMA ResultOK ==
    ASSUME NEW d, NEW e, DiskOK(d, e), NEW writes, WritesOK(writes, e)
    PROVE  DiskOK(Result(d, writes), e)
BY ResultIsImage, ImagesOK DEF WritesOK

\* The write of a counter.
LEMMA CounterSave ==
    ASSUME NEW key \in {HeightKey, EmittedKey, EpochKey, MarkerKey}, NEW v, NEW e,
           key = HeightKey => v \in Nat /\ e <= EpochAt(v),
           key = EmittedKey => v \in Nat
    PROVE  /\ WritesOK(Save(key, v), e) /\ Silent(Save(key, v))
           /\ \A n, next : SameRecords(n, next) => Tracks(n, next, Save(key, v))
           /\ \A d : /\ key \in DOMAIN Result(d, Save(key, v))
                     /\ Result(d, Save(key, v))[key] = v
           /\ \A k : k # key => Untouched(Save(key, v), k)
<1> DEFINE W == Save(key, v)
           w == [op |-> "put", key |-> key, value |-> v]
<1>1. IsSeq(W) /\ Range(W) = {w}
    BY SaveFacts
<1>2. w.op = "put" /\ w.key = key /\ w.value = v
    OBVIOUS
<1>3. key[1] = "state"
    BY StateKeys
<1> HIDE DEF W, w
<1>4. WriteOK(w, e)
    BY <1>2, <1>3, StateKeys DEF WriteOK, Fits, FitsKind, OutputKinds
<1>5. WritesOK(W, e)
    BY <1>1, <1>4 DEF WritesOK
<1>6. Silent(W)
    BY <1>1, <1>2, <1>3 DEF Silent, OutputKinds
<1>7. ASSUME NEW n, NEW next, SameRecords(n, next) PROVE Tracks(n, next, W)
  <2>1. \A x \in Range(W) : x.key[1] \notin RecordKinds
    BY <1>1, <1>2, <1>3 DEF RecordKinds
  <2>2. QED
    BY <1>7, <2>1, TracksNothing
<1>8. ASSUME NEW d PROVE key \in DOMAIN Result(d, W) /\ Result(d, W)[key] = v
  <2>1. Puts(W, key, v)
    BY <1>1, <1>2 DEF Puts
  <2>2. QED
    BY <1>1, <2>1, ResultPuts
<1>9. ASSUME NEW k, k # key PROVE Untouched(W, k)
    BY <1>1, <1>2, <1>9 DEF Untouched
<1>10. QED
    BY <1>5, <1>6, <1>7, <1>8, <1>9 DEF W

LEMMA MarkerDelete ==
    ASSUME NEW e
    PROVE  /\ WritesOK(Delete(MarkerKey), e) /\ Silent(Delete(MarkerKey))
           /\ \A n, next : SameRecords(n, next) => Tracks(n, next, Delete(MarkerKey))
           /\ \A k : k # MarkerKey => Untouched(Delete(MarkerKey), k)
<1> DEFINE W == Delete(MarkerKey)
           w == [op |-> "delete", key |-> MarkerKey]
<1>1. IsSeq(W) /\ Range(W) = {w}
    BY DeleteFacts
<1>2. w.op = "delete" /\ w.key = MarkerKey
    OBVIOUS
<1> HIDE DEF W, w
<1>3. WritesOK(W, e)
    BY <1>1, <1>2, StateKeys DEF WritesOK, WriteOK
<1>4. Silent(W)
    BY <1>1, <1>2 DEF Silent
<1>5. ASSUME NEW n, NEW next, SameRecords(n, next) PROVE Tracks(n, next, W)
  <2>1. \A x \in Range(W) : x.key[1] \notin RecordKinds
    BY <1>1, <1>2, StateKeys DEF RecordKinds
  <2>2. QED
    BY <1>5, <2>1, TracksNothing
<1>6. ASSUME NEW k, k # MarkerKey PROVE Untouched(W, k)
    BY <1>1, <1>2, <1>6 DEF Untouched
<1>7. QED
    BY <1>3, <1>4, <1>5, <1>6 DEF W

----------------------------------------------------------------------------
(* process_epoch_end *)

\* Where a handler is after some of its writes: with the memory n and the
\* database r, it started from the database d in epoch e.
Reached(d, W, e, n, r) ==
    /\ WritesOK(W, e) /\ IsSeq(W)
    /\ r = Result(d, W)
    /\ DiskOK(r, e)
    /\ Mirrors(n, r)

\* The next writes of a handler.
LEMMA ReachedNext ==
    ASSUME NEW d, NEW W, NEW e, NEW n, NEW r, Reached(d, W, e, n, r),
           NEW V, WritesOK(V, e), NEW next, Tracks(n, next, V)
    PROVE  Reached(d, W \o V, e, next, Result(r, V)) /\ IsSeq(V)
<1>1. IsSeq(W) /\ IsSeq(V) /\ r = Result(d, W) /\ Mirrors(n, r) /\ DiskOK(r, e)
    BY DEF Reached, WritesOK
<1>2. WritesOK(W \o V, e)
    BY WritesBothOK DEF Reached
<1>3. IsSeq(W \o V)
    BY <1>2 DEF WritesOK
<1>4. Result(r, V) = Result(d, W \o V)
    BY <1>1, ResultOfBoth
<1>5. DiskOK(Result(r, V), e)
    BY <1>1, ResultOK
<1>6. Mirrors(next, Result(r, V))
    BY <1>1, Mirrored
<1>7. QED
    BY <1>1, <1>2, <1>3, <1>4, <1>5, <1>6 DEF Reached

\* The counters of the database are not touched by the writes of a step.
LEMMA InnerCounters ==
    ASSUME NEW r, NEW e, DiskOK(r, e), NEW V, InnerOK(V, e)
    PROVE  /\ Result(r, V)[HeightKey] = r[HeightKey]
           /\ Result(r, V)[EmittedKey] = r[EmittedKey]
<1>1. HeightKey \in DOMAIN r /\ EmittedKey \in DOMAIN r /\ IsSeq(V)
    BY DEF DiskOK, InnerOK
<1>2. Untouched(V, HeightKey) /\ Untouched(V, EmittedKey)
    BY StateKeys DEF InnerOK, Untouched
<1>3. QED
    BY <1>1, <1>2, ResultUntouched

LEMMA ReachedFirst ==
    ASSUME NEW d, NEW e, DiskOK(d, e), NEW n, Mirrors(n, d),
           NEW V, WritesOK(V, e), NEW next, Tracks(n, next, V)
    PROVE  Reached(d, V, e, next, Result(d, V))
<1>1. IsSeq(V)
    BY DEF WritesOK
<1>2. QED
    BY <1>1, ResultOK, Mirrored DEF Reached

\* Nothing of the reward depends on the records that a slash removes.
LEMMA SameTreasury ==
    ASSUME NEW n, NEW next, SameRest(n, next)
    PROVE  TreasuryCut(next) = TreasuryCut(n)
BY DEF SameRest, TreasuryCut, EffectiveReward, CurrentEpochReward, Year, Available

LEMMA SilentStep ==
    ASSUME NEW r, NEW e, DiskOK(r, e), NEW V, WritesOK(V, e), Silent(V)
    PROVE  /\ MintedOf(r) \in Nat /\ MintedOf(Result(r, V)) \in Nat
           /\ MintedOf(Result(r, V)) <= MintedOf(r)
BY MintedStays DEF WritesOK

\* Closing an epoch, from the memory n and the database d in epoch e.
LEMMA EpochEndFacts ==
    ASSUME IsFiniteSet(Miners), ContributionsAreNat,
           NEW order \in SetToSeqs(Miners), NEW n, NodeOK(n),
           NEW d, DiskOK(d, n.epoch), Mirrors(n, d)
    PROVE  LET s == EpochEndStep(n, order)
               r == Result(d, s.writes)
           IN /\ NodeOK(s.node) /\ SharesMatch(s.node)
              /\ s.node.height = n.height /\ s.node.epoch = n.epoch + 1
              /\ Reached(d, s.writes, n.epoch, s.node, r)
              /\ r[EmittedKey] = s.node.total_emitted /\ r[HeightKey] = d[HeightKey]
              /\ MintedOf(d) \in Nat /\ MintedOf(r) \in Nat
              /\ MintedOf(r) + n.total_emitted <= MintedOf(d) + s.node.total_emitted
              /\ PaysWithin(n, d, r)
<1> DEFINE e == n.epoch
           slash == SlashStep(n, order)
           pay == PayStep(slash.node, order)
           commit == CommitStep(pay.node)
           reset == ResetStep(commit.node, order)
           issued == Issued(slash.node, Rewards(slash.node))
           emitted == n.total_emitted + issued
           s == EpochEndStep(n, order)
           V1 == Save(MarkerKey, e)
           V6 == Save(EmittedKey, emitted)
           V7 == Save(EpochKey, e + 1)
           V8 == Delete(MarkerKey)
           r1 == Result(d, V1)
           r2 == Result(r1, slash.writes)
           r3 == Result(r2, pay.writes)
           r4 == Result(r3, commit.writes)
           r5 == Result(r4, reset.writes)
           r6 == Result(r5, V6)
           r7 == Result(r6, V7)
           r8 == Result(r7, V8)
<1>1. /\ NodeOK(slash.node) /\ SameRest(n, slash.node)
      /\ InnerOK(slash.writes, e) /\ Silent(slash.writes)
      /\ Tracks(n, slash.node, slash.writes)
    BY SlashFacts
<1>2. slash.node.epoch = e
    BY <1>1 DEF SameRest
<1>3. /\ NodeOK(pay.node) /\ SameRest(slash.node, pay.node)
      /\ InnerOK(pay.writes, e)
      /\ Tracks(slash.node, pay.node, pay.writes)
  <2> HIDE DEF slash, e
  <2>1. QED
    BY <1>1, <1>2, PayFacts
<1>4. /\ NodeOK(commit.node) /\ SameRest(pay.node, commit.node)
      /\ InnerOK(commit.writes, e) /\ Silent(commit.writes)
      /\ Tracks(pay.node, commit.node, commit.writes)
      /\ \A m \in Miners : commit.node.share_count[m] = 0
  <2>1. pay.node.epoch = e
    BY <1>2, <1>3 DEF SameRest
  <2> HIDE DEF pay, e
  <2>2. QED
    BY <1>3, <2>1, CommitFacts
<1>5. /\ NodeOK(reset.node) /\ SameRest(commit.node, reset.node)
      /\ InnerOK(reset.writes, e) /\ Silent(reset.writes)
      /\ Tracks(commit.node, reset.node, reset.writes)
      /\ SharesMatch(reset.node)
  <2>1. commit.node.epoch = e
    BY <1>2, <1>3, <1>4 DEF SameRest
  <2> HIDE DEF commit, e
  <2>2. QED
    BY <1>4, <2>1, ResetFacts
<1>6. SameRest(n, reset.node)
    BY <1>1, <1>3, <1>4, <1>5 DEF SameRest
<1>7. /\ issued \in Nat
      /\ n.total_emitted >= MaxSupply => issued = 0
      /\ n.total_emitted < MaxSupply => n.total_emitted + issued <= MaxSupply
    BY <1>1, RewardFacts DEF SameRest
<1>8. Issued(n, Rewards(slash.node)) = issued
  <2>1. TreasuryCut(slash.node) = TreasuryCut(n)
    BY <1>1, SameTreasury
  <2>2. QED
    BY <2>1 DEF Issued
<1>9. /\ s.node = [reset.node EXCEPT !.epoch = @ + 1, !.total_emitted = emitted]
      /\ s.writes = V1 \o slash.writes \o pay.writes \o commit.writes
                      \o reset.writes \o V6 \o V7 \o V8
    BY <1>8 DEF EpochEndStep, Step
<1> HIDE DEF slash, pay, commit, reset, issued, s, V1, V6, V7, V8
<1>10. n.epoch \in Nat /\ n.total_emitted \in Nat
    BY NodeFields
<1>11. emitted \in Nat
    BY <1>7, <1>10
<1> HIDE DEF emitted
<1>12. /\ s.node \in NodeRecord /\ SameRecords(reset.node, s.node)
       /\ s.node.share_count = reset.node.share_count
       /\ s.node.height = n.height /\ s.node.epoch = n.epoch + 1
       /\ s.node.total_emitted = emitted
  <2> DEFINE q == reset.node
  <2>1. q \in NodeRecord /\ q.height = n.height /\ q.epoch = n.epoch
    BY <1>5, <1>6 DEF NodeOK, SameRest
  <2>2. s.node = [q EXCEPT !.epoch = @ + 1, !.total_emitted = emitted]
    BY <1>9
  <2> HIDE DEF q
  <2> DEFINE p == s.node
  <2>3. p = [q EXCEPT !.epoch = @ + 1, !.total_emitted = emitted] /\ emitted \in Nat
    BY <1>11, <2>2
  <2> HIDE DEF p
  <2>4. /\ p \in NodeRecord /\ SameRecords(q, p)
        /\ p.share_count = q.share_count /\ p.height = q.height
        /\ p.epoch = q.epoch + 1 /\ p.total_emitted = emitted
    <3>1. q.epoch + 1 \in Nat
        BY <1>10, <2>1
    <3>2. p \in NodeRecord
        BY <2>1, <2>3, <3>1 DEF NodeRecord
    <3>3. /\ p.share_count = q.share_count /\ p.height = q.height
          /\ p.epoch = q.epoch + 1 /\ p.total_emitted = emitted
          /\ p.miners = q.miners /\ p.bonds = q.bonds /\ p.loyalty = q.loyalty
        BY <2>1, <2>3 DEF NodeRecord
    <3>4. QED
        BY <3>2, <3>3 DEF SameRecords
  <2>5. QED
    BY <2>1, <2>4 DEF q, p
<1>13. NodeOK(s.node)
  <2>1. ASSUME NEW m \in DOMAIN s.node.loyalty
        PROVE  EarnedOnce(s.node.loyalty[m], n.epoch + 1)
    <3>1. EarnedOnce(s.node.loyalty[m], n.epoch)
        BY <1>5, <1>6, <1>12 DEF NodeOK, SameRecords, SameRest
    <3>2. n.epoch + 1 \in Nat /\ n.epoch <= n.epoch + 1
        BY <1>10
    <3>3. QED
        BY <1>10, <3>1, <3>2, EarnedLater
  <2>2. QED
    BY <1>12, <2>1 DEF NodeOK
<1>14. SharesMatch(s.node)
    BY <1>5, <1>12, SharesKept DEF SameRecords, MinerOf
<1>15. SameRecords(n, n) /\ SameRecords(reset.node, reset.node)
    BY DEF SameRecords
<1>16. /\ WritesOK(V1, e) /\ Silent(V1) /\ Tracks(n, n, V1)
       /\ Untouched(V1, HeightKey) /\ IsSeq(V1)
  <2>1. MarkerKey \in {HeightKey, EmittedKey, EpochKey, MarkerKey} /\ MarkerKey # HeightKey
        /\ MarkerKey # EmittedKey
    BY StateKeys
  <2>2. QED
    BY <1>15, <2>1, CounterSave DEF V1, WritesOK
<1>17. /\ WritesOK(V6, e) /\ Silent(V6) /\ Tracks(reset.node, reset.node, V6)
       /\ Untouched(V6, HeightKey) /\ IsSeq(V6) /\ r6[EmittedKey] = emitted
  <2>1. EmittedKey \in {HeightKey, EmittedKey, EpochKey, MarkerKey} /\ EmittedKey # HeightKey
    BY StateKeys
  <2>2. QED
    BY <1>11, <1>15, <2>1, CounterSave DEF V6, WritesOK
<1>18. /\ WritesOK(V7, e) /\ Silent(V7) /\ Tracks(reset.node, reset.node, V7)
       /\ Untouched(V7, HeightKey) /\ Untouched(V7, EmittedKey) /\ IsSeq(V7)
  <2>1. EpochKey \in {HeightKey, EmittedKey, EpochKey, MarkerKey} /\ EpochKey # HeightKey
        /\ EpochKey # EmittedKey
    BY StateKeys
  <2>2. QED
    BY <1>15, <2>1, CounterSave DEF V7, WritesOK
<1>19. /\ WritesOK(V8, e) /\ Silent(V8) /\ Tracks(reset.node, s.node, V8)
       /\ Untouched(V8, HeightKey) /\ Untouched(V8, EmittedKey) /\ IsSeq(V8)
    BY <1>12, StateKeys, MarkerDelete DEF V8, WritesOK
<1>20. Reached(d, V1, e, n, r1)
    BY <1>16, ReachedFirst
<1> HIDE DEF r1
<1>21. Reached(d, V1 \o slash.writes, e, slash.node, r2)
    BY <1>1, <1>20, InnerWritesOK, ReachedNext
<1> HIDE DEF r2
<1>22. Reached(d, V1 \o slash.writes \o pay.writes, e, pay.node, r3)
    BY <1>3, <1>21, InnerWritesOK, ReachedNext
<1> HIDE DEF r3
<1>23. Reached(d, V1 \o slash.writes \o pay.writes \o commit.writes, e, commit.node, r4)
    BY <1>4, <1>22, InnerWritesOK, ReachedNext
<1> HIDE DEF r4
<1>24. Reached(d, V1 \o slash.writes \o pay.writes \o commit.writes \o reset.writes,
               e, reset.node, r5)
    BY <1>5, <1>23, InnerWritesOK, ReachedNext
<1> HIDE DEF r5
<1>25. Reached(d, V1 \o slash.writes \o pay.writes \o commit.writes \o reset.writes \o V6,
               e, reset.node, r6)
    BY <1>17, <1>24, ReachedNext
<1> HIDE DEF r6
<1>26. Reached(d, V1 \o slash.writes \o pay.writes \o commit.writes \o reset.writes \o V6 \o V7,
               e, reset.node, r7)
    BY <1>18, <1>25, ReachedNext
<1> HIDE DEF r7
<1>27. Reached(d, s.writes, e, s.node, r8)
    BY <1>9, <1>19, <1>26, ReachedNext
<1> HIDE DEF r8
<1>28. /\ DiskOK(r1, e) /\ DiskOK(r2, e) /\ DiskOK(r3, e) /\ DiskOK(r4, e)
       /\ DiskOK(r5, e) /\ DiskOK(r6, e) /\ DiskOK(r7, e)
    BY <1>20, <1>21, <1>22, <1>23, <1>24, <1>25, <1>26 DEF Reached
<1>29. /\ MintedOf(d) \in Nat /\ MintedOf(r1) \in Nat /\ MintedOf(r1) <= MintedOf(d)
       /\ r1[HeightKey] = d[HeightKey]
    BY <1>16, SilentStep, ResultUntouched DEF r1, DiskOK
<1>30. /\ MintedOf(r2) \in Nat /\ MintedOf(r2) <= MintedOf(r1)
       /\ r2[HeightKey] = r1[HeightKey]
    BY <1>1, <1>28, InnerWritesOK, SilentStep, InnerCounters DEF r2
<1>31. /\ MintedOf(r3) \in Nat /\ MintedOf(r3) <= MintedOf(r2) + issued
       /\ r3[HeightKey] = r2[HeightKey]
    BY <1>1, <1>3, <1>28, PayMints, InnerCounters DEF r3, pay, issued
<1>32. /\ MintedOf(r4) \in Nat /\ MintedOf(r4) <= MintedOf(r3)
       /\ r4[HeightKey] = r3[HeightKey]
    BY <1>4, <1>28, InnerWritesOK, SilentStep, InnerCounters DEF r4
<1>33. /\ MintedOf(r5) \in Nat /\ MintedOf(r5) <= MintedOf(r4)
       /\ r5[HeightKey] = r4[HeightKey]
    BY <1>5, <1>28, InnerWritesOK, SilentStep, InnerCounters DEF r5
<1>34. /\ MintedOf(r6) \in Nat /\ MintedOf(r6) <= MintedOf(r5)
       /\ r6[HeightKey] = r5[HeightKey] /\ r6[EmittedKey] = emitted
    BY <1>17, <1>28, SilentStep, ResultUntouched DEF r6, DiskOK
<1>35. /\ MintedOf(r7) \in Nat /\ MintedOf(r7) <= MintedOf(r6)
       /\ r7[HeightKey] = r6[HeightKey] /\ r7[EmittedKey] = r6[EmittedKey]
    BY <1>18, <1>28, SilentStep, ResultUntouched DEF r7, DiskOK
<1>36. /\ MintedOf(r8) \in Nat /\ MintedOf(r8) <= MintedOf(r7)
       /\ r8[HeightKey] = r7[HeightKey] /\ r8[EmittedKey] = r7[EmittedKey]
    BY <1>19, <1>28, SilentStep, ResultUntouched DEF r8, DiskOK
<1>37. MintedOf(r8) <= MintedOf(d) + issued
    BY <1>7, <1>29, <1>30, <1>31, <1>32, <1>33, <1>34, <1>35, <1>36
<1>38. MintedOf(r8) + n.total_emitted <= MintedOf(d) + emitted
    BY <1>7, <1>10, <1>29, <1>36, <1>37 DEF emitted
<1>39. r8 = Result(d, s.writes)
    BY <1>27 DEF Reached
<1>40. r8[HeightKey] = d[HeightKey] /\ r8[EmittedKey] = emitted
    BY <1>29, <1>30, <1>31, <1>32, <1>33, <1>34, <1>35, <1>36
<1>41. PaysWithin(n, d, r8)
  <2>1. GenesisSupply \in Nat /\ MaxSupply \in Nat
    BY EpochAssumption
  <2>2. QED
    BY <1>7, <1>10, <1>29, <1>36, <1>37, <2>1 DEF PaysWithin
<1>42. QED
    BY <1>11, <1>12, <1>13, <1>14, <1>27, <1>29, <1>36, <1>38, <1>39, <1>40, <1>41 DEF s

LEMMA ReachedBoth ==
    ASSUME NEW d, NEW W, NEW e, NEW n, NEW r, Reached(d, W, e, n, r),
           NEW V, NEW next, NEW q, Reached(r, V, e, next, q)
    PROVE  Reached(d, W \o V, e, next, q)
<1>1. /\ IsSeq(W) /\ IsSeq(V) /\ WritesOK(W, e) /\ WritesOK(V, e)
      /\ r = Result(d, W) /\ q = Result(r, V) /\ DiskOK(q, e) /\ Mirrors(next, q)
    BY DEF Reached
<1>2. WritesOK(W \o V, e) /\ IsSeq(W \o V)
    BY <1>1, WritesBothOK, Concatenation
<1>3. q = Result(d, W \o V)
    BY <1>1, ResultOfBoth
<1>4. QED
    BY <1>1, <1>2, <1>3 DEF Reached

LEMMA EmptyWrites ==
    ASSUME NEW e
    PROVE  /\ WritesOK(<<>>, e) /\ Silent(<<>>) /\ IsSeq(<<>>)
           /\ \A n : Tracks(n, n, <<>>)
           /\ \A k : Untouched(<<>>, k)
<1>1. IsSeq(<<>>) /\ Range(<<>>) = {}
    BY EmptySequence
<1>2. \A n : SameRecords(n, n)
    BY DEF SameRecords
<1>3. \A n : Tracks(n, n, <<>>)
    BY <1>1, <1>2, TracksNothing
<1>4. QED
    BY <1>1, <1>3 DEF WritesOK, Silent, Untouched

\* The epoch of the memory is that of the block before.
EpochIsDue(n) ==
    EpochAt(n.height) = IF n.height % EpochBlocks = 0 THEN n.epoch + 1 ELSE n.epoch

LEMMA TransitionFacts ==
    ASSUME IsFiniteSet(Miners), ContributionsAreNat,
           NEW order \in SetToSeqs(Miners), NEW n, NodeOK(n), EpochIsDue(n),
           NEW d, DiskOK(d, n.epoch), Mirrors(n, d), d[EmittedKey] = n.total_emitted
    PROVE  LET s == Transition(n, order)
               r == Result(d, s.writes)
           IN /\ NodeOK(s.node) /\ s.node.height = n.height
              /\ s.node.epoch = EpochAt(n.height)
              /\ SharesMatch(n) => SharesMatch(s.node)
              /\ Reached(d, s.writes, n.epoch, s.node, r)
              /\ r[EmittedKey] = s.node.total_emitted /\ r[HeightKey] = d[HeightKey]
              /\ MintedOf(d) \in Nat /\ MintedOf(r) \in Nat
              /\ MintedOf(r) + n.total_emitted <= MintedOf(d) + s.node.total_emitted
              /\ PaysWithin(n, d, r)
<1> DEFINE s == Transition(n, order)
           r == Result(d, s.writes)
<1>1. CASE n.height % EpochBlocks = 0
  <2>1. s = EpochEndStep(n, order)
    BY <1>1 DEF Transition
  <2>2. EpochAt(n.height) = n.epoch + 1
    BY <1>1 DEF EpochIsDue
  <2> HIDE DEF s
  <2>3. /\ NodeOK(s.node) /\ SharesMatch(s.node)
        /\ s.node.height = n.height /\ s.node.epoch = n.epoch + 1
        /\ Reached(d, s.writes, n.epoch, s.node, r)
        /\ r[EmittedKey] = s.node.total_emitted /\ r[HeightKey] = d[HeightKey]
        /\ MintedOf(d) \in Nat /\ MintedOf(r) \in Nat
        /\ MintedOf(r) + n.total_emitted <= MintedOf(d) + s.node.total_emitted
        /\ PaysWithin(n, d, r)
    BY <2>1, EpochEndFacts
  <2> HIDE DEF r
  <2>4. QED
    BY <2>2, <2>3 DEF r, s
<1>2. CASE n.height % EpochBlocks # 0
  <2>1. s.node = n /\ s.writes = <<>>
    BY <1>2 DEF Transition, Step
  <2>2. EpochAt(n.height) = n.epoch
    BY <1>2 DEF EpochIsDue
  <2> HIDE DEF s
  <2> DEFINE q == Result(d, <<>>)
  <2>3. Reached(d, <<>>, n.epoch, n, q)
    BY EmptyWrites, ReachedFirst
  <2>4. q[HeightKey] = d[HeightKey] /\ q[EmittedKey] = d[EmittedKey]
    BY EmptyWrites, ResultUntouched DEF DiskOK
  <2>5. MintedOf(d) \in Nat /\ MintedOf(q) \in Nat /\ MintedOf(q) <= MintedOf(d)
    BY EmptyWrites, SilentStep
  <2>6. n.total_emitted \in Nat
    BY NodeFields
  <2> HIDE DEF q
  <2>7. MintedOf(q) + n.total_emitted <= MintedOf(d) + n.total_emitted
    BY <2>5, <2>6
  <2>8. r = q
    BY <2>1 DEF q
  <2> HIDE DEF r
  <2>9. PaysWithin(n, d, r)
    BY <2>5, <2>8 DEF PaysWithin
  <2>10. QED
    BY <2>1, <2>2, <2>3, <2>4, <2>5, <2>7, <2>8, <2>9 DEF r, s
<1>3. QED
    BY <1>1, <1>2

----------------------------------------------------------------------------
(* Handlers *)

\* What the handler h may make of the memory n and the database d.
Sound(n, d, h) ==
    /\ NodeOK(h.node)
    /\ Reached(d, h.writes, n.epoch, h.node, Result(d, h.writes))
    /\ Counters(h.node, Result(d, h.writes))
    /\ SharesMatch(n) => SharesMatch(h.node)
    /\ MintedOf(d) \in Nat /\ MintedOf(Result(d, h.writes)) \in Nat
    /\ MintedOf(Result(d, h.writes)) + n.total_emitted <= MintedOf(d) + h.node.total_emitted
    /\ PaysWithin(n, d, Result(d, h.writes))

\* A handler without a block.
LEMMA SmallSound ==
    ASSUME NEW n, NEW d, Settled(n, d),
           NEW h, NodeOK(h.node), SameRest(n, h.node),
           InnerOK(h.writes, n.epoch), Silent(h.writes), Tracks(n, h.node, h.writes),
           SharesMatch(n) => SharesMatch(h.node)
    PROVE  Sound(n, d, h)
<1> DEFINE e == n.epoch
           t == n.total_emitted
           V == h.writes
           r == Result(d, V)
<1>1. DiskOK(d, e) /\ Mirrors(n, d) /\ Counters(n, d) /\ t \in Nat
    BY NodeFields DEF Settled
<1>2. WritesOK(V, e)
    BY InnerWritesOK
<1>3. Reached(d, V, e, h.node, r)
    BY <1>1, <1>2, ReachedFirst
<1>4. r[HeightKey] = d[HeightKey] /\ r[EmittedKey] = d[EmittedKey]
    BY <1>1, InnerCounters
<1>5. MintedOf(d) \in Nat /\ MintedOf(r) \in Nat /\ MintedOf(r) <= MintedOf(d)
    BY <1>1, <1>2, SilentStep
<1>6. HeightKey \in DOMAIN r /\ EmittedKey \in DOMAIN r
    BY <1>3 DEF Reached, DiskOK
<1> HIDE DEF r
<1>7. Counters(h.node, r)
    BY <1>1, <1>4, <1>6 DEF Counters, SameRest
<1>8. h.node.total_emitted = t
    BY DEF SameRest
<1>9. MintedOf(r) + t <= MintedOf(d) + t
    BY <1>1, <1>5
<1>10. PaysWithin(n, d, r)
    BY <1>5 DEF PaysWithin
<1>11. QED
    BY <1>3, <1>5, <1>7, <1>8, <1>9, <1>10 DEF Sound, r

AcceptStep(n, order) ==
    LET next == [n EXCEPT !.height = @ + 1]
        end == Transition(next, order)
    IN Step(end.node,
            Save(HeightKey, next.height) \o end.writes \o Save(EpochKey, end.node.epoch))

LEMMA AcceptSound ==
    ASSUME IsFiniteSet(Miners), ContributionsAreNat,
           NEW order \in SetToSeqs(Miners), NEW n, NEW d, Settled(n, d)
    PROVE  Sound(n, d, AcceptStep(n, order))
<1> DEFINE e == n.epoch
           t == n.total_emitted
           h == AcceptStep(n, order)
           next == [n EXCEPT !.height = @ + 1]
           end == Transition(next, order)
           V1 == Save(HeightKey, n.height + 1)
           V3 == Save(EpochKey, end.node.epoch)
           r1 == Result(d, V1)
           r2 == Result(r1, end.writes)
           r3 == Result(r2, V3)
<1>1. /\ NodeOK(n) /\ n \in NodeRecord /\ DiskOK(d, e) /\ Mirrors(n, d) /\ Counters(n, d)
      /\ n.height \in Nat /\ n.epoch \in Nat /\ n.total_emitted \in Nat
      /\ n.epoch = EpochAt(n.height)
    BY NodeFields DEF Settled, NodeOK, Counters
<1>2. /\ next \in NodeRecord /\ next.height = n.height + 1 /\ next.epoch = n.epoch
      /\ next.total_emitted = n.total_emitted /\ next.loyalty = n.loyalty
      /\ next.miners = n.miners /\ next.bonds = n.bonds /\ next.share_count = n.share_count
  <2>1. n.height + 1 \in Nat
    BY <1>1
  <2>2. QED
    BY <1>1, <2>1 DEF NodeRecord
<1>3. h.node = end.node /\ h.writes = V1 \o end.writes \o V3
  <2>1. next.height = n.height + 1
    BY <1>2
  <2>2. QED
    BY <2>1 DEF AcceptStep, Step
<1> HIDE DEF next, end, V1, V3, h
<1>4. NodeOK(next) /\ SameRecords(n, next) /\ (SharesMatch(n) => SharesMatch(next))
    BY <1>1, <1>2, SharesKept DEF NodeOK, SameRecords, MinerOf
<1>5. EpochIsDue(next) /\ e <= EpochAt(n.height + 1) /\ n.height + 1 \in Nat
    BY <1>1, <1>2, NextEpoch DEF EpochIsDue
<1>6. /\ WritesOK(V1, e) /\ Silent(V1) /\ Tracks(n, next, V1)
      /\ r1[HeightKey] = n.height + 1 /\ Untouched(V1, EmittedKey) /\ IsSeq(V1)
  <2>1. HeightKey \in {HeightKey, EmittedKey, EpochKey, MarkerKey} /\ HeightKey # EmittedKey
    BY StateKeys
  <2>2. QED
    BY <1>4, <1>5, <2>1, CounterSave DEF V1, WritesOK
<1>7. Reached(d, V1, e, next, r1)
    BY <1>1, <1>6, ReachedFirst
<1>8. /\ r1[EmittedKey] = t
      /\ MintedOf(d) \in Nat /\ MintedOf(r1) \in Nat /\ MintedOf(r1) <= MintedOf(d)
    BY <1>1, <1>6, SilentStep, ResultUntouched DEF Counters
<1> HIDE DEF r1
<1>9. DiskOK(r1, next.epoch) /\ Mirrors(next, r1)
    BY <1>1, <1>2, <1>7 DEF Reached
<1>10. /\ NodeOK(end.node) /\ end.node.height = next.height
       /\ end.node.epoch = EpochAt(next.height)
       /\ SharesMatch(next) => SharesMatch(end.node)
       /\ Reached(r1, end.writes, next.epoch, end.node, r2)
       /\ r2[EmittedKey] = end.node.total_emitted /\ r2[HeightKey] = r1[HeightKey]
       /\ MintedOf(r2) \in Nat
       /\ MintedOf(r2) + next.total_emitted <= MintedOf(r1) + end.node.total_emitted
       /\ PaysWithin(next, r1, r2)
    BY <1>1, <1>2, <1>4, <1>5, <1>8, <1>9, TransitionFacts DEF end
<1> HIDE DEF r2
<1>11. Reached(d, V1 \o end.writes, e, end.node, r2)
    BY <1>2, <1>7, <1>10, ReachedBoth
<1>12. /\ WritesOK(V3, e) /\ Silent(V3) /\ Tracks(end.node, end.node, V3)
       /\ Untouched(V3, EmittedKey) /\ Untouched(V3, HeightKey) /\ IsSeq(V3)
  <2>1. EpochKey \in {HeightKey, EmittedKey, EpochKey, MarkerKey} /\ EpochKey # EmittedKey
        /\ EpochKey # HeightKey
    BY StateKeys
  <2>2. SameRecords(end.node, end.node)
    BY DEF SameRecords
  <2>3. QED
    BY <2>1, <2>2, CounterSave DEF V3, WritesOK
<1>13. Reached(d, h.writes, e, end.node, r3)
    BY <1>3, <1>11, <1>12, ReachedNext
<1>14. DiskOK(r2, e)
    BY <1>11 DEF Reached
<1>15. /\ r3[EmittedKey] = r2[EmittedKey] /\ r3[HeightKey] = r2[HeightKey]
       /\ MintedOf(r3) \in Nat /\ MintedOf(r3) <= MintedOf(r2)
    BY <1>12, <1>14, SilentStep, ResultUntouched DEF DiskOK
<1> HIDE DEF r3
<1>16. r3 = Result(d, h.writes) /\ HeightKey \in DOMAIN r3 /\ EmittedKey \in DOMAIN r3
    BY <1>13 DEF Reached, DiskOK
<1>17. Counters(h.node, r3)
    BY <1>2, <1>3, <1>6, <1>10, <1>15, <1>16 DEF Counters
<1>18. h.node.total_emitted \in Nat
    BY <1>3, <1>10, NodeFields
<1>19. MintedOf(r3) + t <= MintedOf(d) + h.node.total_emitted
    BY <1>1, <1>2, <1>3, <1>8, <1>10, <1>15, <1>18
<1>20. PaysWithin(n, d, r3)
  <2>1. GenesisSupply \in Nat /\ MaxSupply \in Nat
    BY EpochAssumption
  <2>2. QED
    BY <1>1, <1>2, <1>8, <1>10, <1>15, <2>1 DEF PaysWithin
<1>21. QED
    BY <1>3, <1>4, <1>8, <1>10, <1>13, <1>15, <1>16, <1>17, <1>19, <1>20 DEF Sound, h

CommitBlockStep(n, order, counts) ==
    LET share == ShareStep(n, Self, counts)
        emitted == n.total_emitted + BlockReward
        next == [share.node EXCEPT !.height = @ + 1, !.total_emitted = emitted]
        end == Transition(next, order)
    IN Step(end.node,
            share.writes \o Save(EmittedKey, emitted) \o end.writes
              \o Save(HeightKey, next.height) \o Save(EpochKey, end.node.epoch))

LEMMA CommitBlockSound ==
    ASSUME IsFiniteSet(Miners), ContributionsAreNat,
           NEW order \in SetToSeqs(Miners), NEW n, NEW d, Settled(n, d),
           NEW counts \in Roomy(n)
    PROVE  Sound(n, d, CommitBlockStep(n, order, counts))
<1> DEFINE e == n.epoch
           t == n.total_emitted
           h == CommitBlockStep(n, order, counts)
           share == ShareStep(n, Self, counts)
           s == share.node
           emitted == n.total_emitted + BlockReward
           next == [s EXCEPT !.height = @ + 1, !.total_emitted = emitted]
           end == Transition(next, order)
           V2 == Save(EmittedKey, emitted)
           V4 == Save(HeightKey, n.height + 1)
           V5 == Save(EpochKey, end.node.epoch)
           r1 == Result(d, share.writes)
           r2 == Result(r1, V2)
           r3 == Result(r2, end.writes)
           r4 == Result(r3, V4)
           r5 == Result(r4, V5)
<1>1. /\ NodeOK(n) /\ DiskOK(d, e) /\ Mirrors(n, d) /\ Counters(n, d)
      /\ n.height \in Nat /\ n.epoch \in Nat /\ n.total_emitted \in Nat
      /\ n.epoch = EpochAt(n.height)
    BY NodeFields DEF Settled, Counters
<1>2. /\ NodeOK(s) /\ SameRest(n, s) /\ InnerOK(share.writes, e) /\ Silent(share.writes)
      /\ Tracks(n, s, share.writes) /\ (SharesMatch(n) => SharesMatch(s))
  <2>1. Self \in Miners
    BY EpochAssumption
  <2>2. QED
    BY <1>1, <2>1, ShareFacts
<1>3. emitted \in Nat /\ t <= emitted
    BY <1>1, EpochAssumption
<1> HIDE DEF s, share, emitted
<1>4. s \in NodeRecord /\ s.height = n.height /\ s.epoch = n.epoch
    BY <1>2 DEF NodeOK, SameRest
<1>5. /\ next \in NodeRecord /\ next.height = n.height + 1 /\ next.epoch = n.epoch
      /\ next.total_emitted = emitted /\ next.loyalty = s.loyalty
      /\ next.miners = s.miners /\ next.bonds = s.bonds /\ next.share_count = s.share_count
  <2>1. s.height + 1 \in Nat /\ s.height + 1 = n.height + 1
    BY <1>1, <1>4
  <2>2. next \in NodeRecord
    BY <1>3, <1>4, <2>1 DEF NodeRecord
  <2>3. QED
    BY <1>4, <2>1, <2>2 DEF NodeRecord
<1>6. h.node = end.node /\ h.writes = share.writes \o V2 \o end.writes \o V4 \o V5
  <2>1. next.height = n.height + 1
    BY <1>5
  <2>2. QED
    BY <2>1 DEF CommitBlockStep, Step, s, share, emitted
<1> HIDE DEF next, end, V2, V4, V5, h
<1>7. NodeOK(next) /\ SameRecords(s, next) /\ (SharesMatch(s) => SharesMatch(next))
    BY <1>2, <1>4, <1>5, SharesKept DEF NodeOK, SameRecords, MinerOf
<1>8. EpochIsDue(next) /\ e <= EpochAt(n.height + 1) /\ n.height + 1 \in Nat
    BY <1>1, <1>5, NextEpoch DEF EpochIsDue
<1>9. Reached(d, share.writes, e, s, r1)
    BY <1>1, <1>2, InnerWritesOK, ReachedFirst
<1>10. /\ r1[HeightKey] = d[HeightKey]
       /\ MintedOf(d) \in Nat /\ MintedOf(r1) \in Nat /\ MintedOf(r1) <= MintedOf(d)
    BY <1>1, <1>2, InnerWritesOK, InnerCounters, SilentStep
<1> HIDE DEF r1
<1>11. /\ WritesOK(V2, e) /\ Silent(V2) /\ Tracks(s, next, V2)
       /\ r2[EmittedKey] = emitted /\ IsSeq(V2)
  <2>1. EmittedKey \in {HeightKey, EmittedKey, EpochKey, MarkerKey} /\ EmittedKey # HeightKey
    BY StateKeys
  <2>2. QED
    BY <1>3, <1>7, <2>1, CounterSave DEF V2, WritesOK
<1>12. Reached(d, share.writes \o V2, e, next, r2)
    BY <1>9, <1>11, ReachedNext
<1>13. DiskOK(r1, e) /\ DiskOK(r2, e) /\ Mirrors(next, r2)
    BY <1>9, <1>12 DEF Reached
<1>14. MintedOf(r2) \in Nat /\ MintedOf(r2) <= MintedOf(r1)
    BY <1>11, <1>13, SilentStep
<1> HIDE DEF r2
<1>15. /\ NodeOK(end.node) /\ end.node.height = next.height
       /\ end.node.epoch = EpochAt(next.height)
       /\ SharesMatch(next) => SharesMatch(end.node)
       /\ Reached(r2, end.writes, next.epoch, end.node, r3)
       /\ r3[EmittedKey] = end.node.total_emitted
       /\ MintedOf(r3) \in Nat
       /\ MintedOf(r3) + next.total_emitted <= MintedOf(r2) + end.node.total_emitted
       /\ PaysWithin(next, r2, r3)
    BY <1>1, <1>3, <1>5, <1>7, <1>8, <1>11, <1>13, TransitionFacts DEF end
<1> HIDE DEF r3
<1>16. Reached(d, share.writes \o V2 \o end.writes, e, end.node, r3)
    BY <1>5, <1>12, <1>15, ReachedBoth
<1>17. SameRecords(end.node, end.node)
    BY DEF SameRecords
<1>18. /\ WritesOK(V4, e) /\ Silent(V4) /\ Tracks(end.node, end.node, V4)
       /\ Untouched(V4, EmittedKey) /\ r4[HeightKey] = n.height + 1 /\ IsSeq(V4)
  <2>1. HeightKey \in {HeightKey, EmittedKey, EpochKey, MarkerKey} /\ HeightKey # EmittedKey
    BY StateKeys
  <2>2. QED
    BY <1>8, <1>17, <2>1, CounterSave DEF V4, WritesOK
<1>19. Reached(d, share.writes \o V2 \o end.writes \o V4, e, end.node, r4)
    BY <1>16, <1>18, ReachedNext
<1>20. DiskOK(r3, e) /\ DiskOK(r4, e)
    BY <1>16, <1>19 DEF Reached
<1>21. /\ r4[EmittedKey] = r3[EmittedKey]
       /\ MintedOf(r4) \in Nat /\ MintedOf(r4) <= MintedOf(r3)
    BY <1>18, <1>20, SilentStep, ResultUntouched DEF DiskOK
<1> HIDE DEF r4
<1>22. /\ WritesOK(V5, e) /\ Silent(V5) /\ Tracks(end.node, end.node, V5)
       /\ Untouched(V5, EmittedKey) /\ Untouched(V5, HeightKey) /\ IsSeq(V5)
  <2>1. EpochKey \in {HeightKey, EmittedKey, EpochKey, MarkerKey} /\ EpochKey # EmittedKey
        /\ EpochKey # HeightKey
    BY StateKeys
  <2>2. QED
    BY <1>17, <2>1, CounterSave DEF V5, WritesOK
<1>23. Reached(d, h.writes, e, end.node, r5)
    BY <1>6, <1>19, <1>22, ReachedNext
<1>24. /\ r5[EmittedKey] = r4[EmittedKey] /\ r5[HeightKey] = r4[HeightKey]
       /\ MintedOf(r5) \in Nat /\ MintedOf(r5) <= MintedOf(r4)
    BY <1>20, <1>22, SilentStep, ResultUntouched DEF DiskOK
<1> HIDE DEF r5
<1>25. r5 = Result(d, h.writes) /\ HeightKey \in DOMAIN r5 /\ EmittedKey \in DOMAIN r5
    BY <1>23 DEF Reached, DiskOK
<1>26. Counters(h.node, r5)
    BY <1>5, <1>6, <1>15, <1>18, <1>21, <1>24, <1>25 DEF Counters
<1>27. h.node.total_emitted \in Nat
    BY <1>6, <1>15, NodeFields
<1>28. MintedOf(r5) + t <= MintedOf(d) + h.node.total_emitted
  <2> DEFINE total == h.node.total_emitted
             a == MintedOf(d)
             b == MintedOf(r3)
  <2>1. /\ a \in Nat /\ b \in Nat /\ total \in Nat /\ t \in Nat /\ emitted \in Nat
        /\ t <= emitted
    BY <1>1, <1>3, <1>10, <1>15, <1>27
  <2>2. MintedOf(r5) \in Nat /\ MintedOf(r5) <= b
    BY <1>15, <1>21, <1>24
  <2>3. MintedOf(r2) \in Nat /\ MintedOf(r2) <= a
    BY <1>10, <1>14
  <2>4. b + emitted <= MintedOf(r2) + total
    BY <1>5, <1>6, <1>15
  <2> HIDE DEF total, a, b, t
  <2>5. QED
    BY <2>1, <2>2, <2>3, <2>4 DEF total, a
<1>29. PaysWithin(n, d, r5)
  <2>1. GenesisSupply \in Nat /\ MaxSupply \in Nat
    BY EpochAssumption
  <2>2. MintedOf(r5) \in Nat /\ MintedOf(r5) <= MintedOf(r3)
    BY <1>15, <1>21, <1>24
  <2>3. MintedOf(r2) \in Nat /\ MintedOf(r2) <= MintedOf(d)
    BY <1>10, <1>14
  <2>4. MintedOf(d) + GenesisSupply <= t => MintedOf(r2) + GenesisSupply <= next.total_emitted
    BY <1>1, <1>3, <1>5, <1>10, <2>1, <2>3
  <2>5. QED
    BY <1>10, <1>15, <2>1, <2>2, <2>3, <2>4 DEF PaysWithin
<1>30. QED
    BY <1>2, <1>6, <1>7, <1>10, <1>15, <1>23, <1>24, <1>25, <1>26, <1>28, <1>29 DEF Sound, h

----------------------------------------------------------------------------
(* A restart *)

LEMMA LoadedRecords ==
    ASSUME NEW e, NEW d, DiskOK(d, e)
    PROVE  LET n == LoadState(d)
           IN /\ n.miners \in Partial(MinerRecord) /\ n.loyalty \in Partial(LoyaltyRecord)
              /\ \A m \in DOMAIN n.loyalty : EarnedOnce(n.loyalty[m], e)
              /\ n.bonds \in SUBSET Miners
              /\ Mirrors(n, d)
<1> DEFINE ms == [m \in StoredIds(d, "miner") |-> d[<<"miner", m>>]]
           ls == [m \in StoredIds(d, "loyalty") |-> d[<<"loyalty", m>>]]
           bs == StoredIds(d, "bond")
           n == LoadState(d)
<1>1. n.miners = ms /\ n.loyalty = ls /\ n.bonds = bs
    BY DEF LoadState
<1>2. /\ DOMAIN ms = {m \in Miners : <<"miner", m>> \in DOMAIN d}
      /\ DOMAIN ls = {m \in Miners : <<"loyalty", m>> \in DOMAIN d}
      /\ bs = {m \in Miners : <<"bond", m>> \in DOMAIN d}
      /\ \A m \in DOMAIN ms : ms[m] = d[<<"miner", m>>]
      /\ \A m \in DOMAIN ls : ls[m] = d[<<"loyalty", m>>]
      /\ ms = [m \in DOMAIN ms |-> ms[m]] /\ ls = [m \in DOMAIN ls |-> ls[m]]
    BY DEF StoredIds
<1> HIDE DEF ms, ls, bs, n
<1>3. ASSUME NEW m \in DOMAIN ms PROVE ms[m] \in MinerRecord
  <2>1. Fits(<<"miner", m>>, d[<<"miner", m>>], e)
    BY <1>2, <1>3 DEF DiskOK
  <2>2. QED
    BY <1>2, <1>3, <2>1, RecordKeys DEF Fits, FitsKind
<1>4. ASSUME NEW m \in DOMAIN ls PROVE EarnedOnce(ls[m], e) /\ ls[m] \in LoyaltyRecord
  <2>1. Fits(<<"loyalty", m>>, d[<<"loyalty", m>>], e)
    BY <1>2, <1>4 DEF DiskOK
  <2>2. EarnedOnce(ls[m], e)
    BY <1>2, <1>4, <2>1, RecordKeys DEF Fits, FitsKind
  <2>3. QED
    BY <2>2 DEF EarnedOnce
<1>5. ms \in Partial(MinerRecord) /\ ls \in Partial(LoyaltyRecord)
    BY <1>2, <1>3, <1>4, IsPartial
<1>6. MirrorsRecords(d, "miner", ms) /\ MirrorsRecords(d, "loyalty", ls)
    BY <1>2 DEF MirrorsRecords
<1>7. \A m \in Miners : m \in bs <=> <<"bond", m>> \in DOMAIN d
    BY <1>2
<1>8. Mirrors(n, d)
    BY <1>1, <1>6, <1>7 DEF Mirrors
<1>9. QED
    BY <1>1, <1>2, <1>4, <1>5, <1>8 DEF n

\* The database after the start of the node.
LEMMA RecoveredFacts ==
    ASSUME NEW d, NEW e, DiskOK(d, e)
    PROVE  /\ DiskOK(Recovered(d), e)
           /\ Recovered(d)[HeightKey] = d[HeightKey]
           /\ Recovered(d)[EmittedKey] = d[EmittedKey]
           /\ \A n : Mirrors(n, d) => Mirrors(n, Recovered(d))
<1> DEFINE q == Recovered(d)
<1>1. /\ \A k : k \notin {EpochKey, MarkerKey} =>
              (k \in DOMAIN q <=> k \in DOMAIN d) /\ (k \in DOMAIN d => q[k] = d[k])
      /\ IsFiniteSet(DOMAIN d) => IsFiniteSet(DOMAIN q)
  <2> DEFINE v == Head(Save(EpochKey, LoadState(d).epoch))
             w == Head(Delete(MarkerKey))
             saved == Apply(d, v)
  <2>1. v.op = "put" /\ v.key = EpochKey /\ w.op # "put" /\ w.key = MarkerKey
    BY DEF Save, Delete
  <2>2. q = saved \/ q = Apply(saved, w)
    BY DEF Recovered
  <2> HIDE DEF q, v, w
  <2>3. /\ DOMAIN saved = DOMAIN d \cup {EpochKey}
        /\ \A k \in DOMAIN d : k # EpochKey => saved[k] = d[k]
    BY <2>1, ApplyPut
  <2>4. IsFiniteSet(DOMAIN d) => IsFiniteSet(DOMAIN saved)
    BY <2>3, FS_AddElement
  <2> HIDE DEF saved
  <2>5. /\ DOMAIN Apply(saved, w) = DOMAIN saved \ {MarkerKey}
        /\ \A k \in DOMAIN saved : k # MarkerKey => Apply(saved, w)[k] = saved[k]
    BY <2>1, ApplyDelete
  <2>6. IsFiniteSet(DOMAIN saved) => IsFiniteSet(DOMAIN Apply(saved, w))
    BY <2>5, FS_RemoveElement
  <2>7. QED
    BY <2>2, <2>3, <2>4, <2>5, <2>6
<1> HIDE DEF q
<1>2. HeightKey \in DOMAIN q /\ EmittedKey \in DOMAIN q
    BY <1>1, StateKeys DEF DiskOK
<1>3. q[HeightKey] = d[HeightKey] /\ q[EmittedKey] = d[EmittedKey]
    BY <1>1, StateKeys DEF DiskOK
<1>4. ASSUME NEW k \in DOMAIN q PROVE Fits(k, q[k], e)
  <2>1. CASE k \in {EpochKey, MarkerKey}
    BY <2>1, StateKeys DEF Fits, FitsKind, OutputKinds
  <2>2. CASE k \notin {EpochKey, MarkerKey}
    BY <1>1, <1>4, <2>2 DEF DiskOK
  <2>3. QED
    BY <2>1, <2>2
<1>5. DiskOK(q, e)
    BY <1>1, <1>2, <1>4 DEF DiskOK
<1>6. \A m : /\ <<"miner", m>> \notin {EpochKey, MarkerKey}
             /\ <<"loyalty", m>> \notin {EpochKey, MarkerKey}
             /\ <<"bond", m>> \notin {EpochKey, MarkerKey}
    BY StateKeys, RecordKeys
<1>7. ASSUME NEW n, Mirrors(n, d) PROVE Mirrors(n, q)
    BY <1>1, <1>6, <1>7 DEF Mirrors, MirrorsRecords
<1>8. QED
    BY <1>3, <1>5, <1>7 DEF q

LEMMA RestartFacts ==
    ASSUME NEW d, NEW e \in Nat, DiskOK(d, e)
    PROVE  Settled(LoadState(d), Recovered(d))
<1> DEFINE n == LoadState(d)
           q == Recovered(d)
           f == EpochAt(d[HeightKey])
           u == d[EmittedKey]
           zeros == [m \in Miners |-> 0]
<1>1. /\ d[HeightKey] \in Nat /\ u \in Nat /\ f \in Nat
      /\ DiskOK(d, f)
    BY Rebased
<1>2. /\ n.height = d[HeightKey] /\ n.epoch = f /\ n.total_emitted = u
      /\ n.share_count = zeros /\ n.pending_slashes = {} /\ n.processed_slashes = {}
      /\ n = [height |-> d[HeightKey], epoch |-> f, total_emitted |-> u,
              miners |-> n.miners, bonds |-> n.bonds, loyalty |-> n.loyalty,
              share_count |-> zeros, pending_slashes |-> {}, processed_slashes |-> {}]
    BY DEF LoadState
<1>3. /\ n.miners \in Partial(MinerRecord) /\ n.loyalty \in Partial(LoyaltyRecord)
      /\ \A m \in DOMAIN n.loyalty : EarnedOnce(n.loyalty[m], f)
      /\ n.bonds \in SUBSET Miners /\ Mirrors(n, d)
    BY <1>1, LoadedRecords
<1>4. /\ DiskOK(q, f) /\ q[HeightKey] = d[HeightKey] /\ q[EmittedKey] = u
      /\ Mirrors(n, q)
    BY <1>1, <1>3, RecoveredFacts
<1>5. zeros \in [Miners -> Nat]
    OBVIOUS
<1> HIDE DEF n, q, f, u, zeros
<1>6. n \in NodeRecord
    BY <1>1, <1>2, <1>3, <1>5 DEF NodeRecord
<1>7. NodeOK(n)
    BY <1>2, <1>3, <1>6 DEF NodeOK
<1>8. Counters(n, q)
    BY <1>2, <1>4 DEF Counters, DiskOK, f
<1>9. QED
    BY <1>2, <1>4, <1>7, <1>8 DEF Settled, n, q

----------------------------------------------------------------------------
(* The invariant is kept *)

\* The memory and the database after a handler.
LEMMA SoundSettled ==
    ASSUME NEW n, NEW d, NodeOK(n), NEW h, Sound(n, d, h)
    PROVE  Settled(h.node, Result(d, h.writes))
<1> DEFINE r == Result(d, h.writes)
<1>1. /\ NodeOK(h.node) /\ Mirrors(h.node, r) /\ Counters(h.node, r)
      /\ DiskOK(r, n.epoch)
    BY DEF Sound, Reached
<1>2. n.epoch \in Nat
    BY NodeFields
<1> HIDE DEF r
<1>3. DiskOK(r, EpochAt(r[HeightKey]))
    BY <1>1, <1>2, Rebased
<1>4. DiskOK(r, h.node.epoch)
    BY <1>1, <1>3 DEF Counters
<1>5. QED
    BY <1>1, <1>4 DEF Settled, r

\* What a handler may leave when it is killed.
LEMMA SoundCrash ==
    ASSUME NEW n, NEW d, NodeOK(n), DiskOK(d, n.epoch),
           NEW h, Sound(n, d, h), NEW image \in Range(Images(d, h.writes))
    PROVE  Settled(LoadState(image), Recovered(image))
<1>1. WritesOK(h.writes, n.epoch)
    BY DEF Sound, Reached
<1>2. DiskOK(image, n.epoch)
    BY <1>1, ImagesOK
<1>3. n.epoch \in Nat
    BY NodeFields
<1>4. QED
    BY <1>2, <1>3, RestartFacts

LEMMA PerformCases ==
    ASSUME NEW h, Perform(h)
    PROVE  \/ /\ node' = h.node /\ disk' = Result(disk, h.writes)
              /\ crashes' = crashes
           \/ \E image \in Range(Images(disk, h.writes)) :
                /\ node' = LoadState(image) /\ disk' = Recovered(image)
                /\ crashes' = crashes + 1
BY DEF Perform, Finish, Crash, Result

LEMMA SoundKeeps ==
    ASSUME Inv, NEW h, Sound(node, disk, h), Perform(h)
    PROVE  Inv'
<1>1. NodeOK(node) /\ DiskOK(disk, node.epoch) /\ crashes \in Nat
    BY DEF Inv, Settled
<1>2. CASE /\ node' = h.node /\ disk' = Result(disk, h.writes) /\ crashes' = crashes
  <2>1. Settled(node', disk')
    BY <1>1, <1>2, SoundSettled
  <2>2. SharesMatch(node)'
    BY <1>2 DEF Inv, Sound, SharesMatch, MinerOf, Credited
  <2>3. crashes = 0 => MintedOf(disk') + GenesisSupply <= node'.total_emitted
    <3> DEFINE a == MintedOf(disk)
               b == MintedOf(disk')
               t == node.total_emitted
               u == node'.total_emitted
    <3>1. a \in Nat /\ b \in Nat /\ b + t <= a + u
        BY <1>2 DEF Sound
    <3>2. t \in Nat /\ u \in Nat /\ GenesisSupply \in Nat
        BY <1>1, <2>1, NodeFields, EpochAssumption DEF Settled
    <3>3. crashes = 0 => a + GenesisSupply <= t
        BY DEF Inv
    <3> HIDE DEF a, b, t, u
    <3>4. crashes = 0 => b + GenesisSupply <= u
        BY <3>1, <3>2, <3>3
    <3>5. QED
        BY <3>4 DEF b, u
  <2>4. crashes = 0 => MintedOf(disk') = 0 \/ MintedOf(disk') + GenesisSupply <= MaxSupply
    <3>1. MintedOf(disk) \in Nat /\ MintedOf(disk') \in Nat /\ PaysWithin(node, disk, disk')
        BY <1>2 DEF Sound
    <3>2. GenesisSupply \in Nat /\ MaxSupply \in Nat
        BY EpochAssumption
    <3>3. QED
        BY <3>1, <3>2 DEF Inv, PaysWithin
  <2>5. QED
    BY <1>1, <1>2, <2>1, <2>2, <2>3, <2>4 DEF Inv
<1>3. ASSUME NEW image \in Range(Images(disk, h.writes)),
             node' = LoadState(image), disk' = Recovered(image), crashes' = crashes + 1
      PROVE  Inv'
  <2>1. Settled(node', disk')
    BY <1>1, <1>3, SoundCrash
  <2>2. crashes' \in Nat /\ crashes' # 0
    BY <1>1, <1>3
  <2>3. SharesMatch(node)'
    <3>1. ASSUME NEW m \in Miners PROVE node'.share_count[m] = 0 /\ MinerOf(node', m).shares \in Nat
      <4>1. MinerOf(node', m) \in MinerRecord
        BY <2>1, MinerOfType DEF Settled
      <4>2. QED
        BY <1>3, <4>1 DEF LoadState, MinerRecord
    <3>2. QED
        BY <2>2, <3>1 DEF SharesMatch
  <2>4. QED
    BY <2>1, <2>2, <2>3 DEF Inv
<1>4. QED
    BY <1>2, <1>3, PerformCases

LEMMA AddShareKeeps ==
    ASSUME Inv, NEW m \in Miners, AddShare(m)
    PROVE  Inv'
<1>0. PICK counts \in Roomy(node) : Perform(ShareStep(node, m, counts))
    BY DEF AddShare
<1> DEFINE h == ShareStep(node, m, counts)
<1>1. Settled(node, disk) /\ NodeOK(node)
    BY DEF Inv, Settled
<1>2. /\ NodeOK(h.node) /\ SameRest(node, h.node)
      /\ InnerOK(h.writes, node.epoch) /\ Silent(h.writes)
      /\ Tracks(node, h.node, h.writes)
      /\ SharesMatch(node) => SharesMatch(h.node)
    BY <1>1, ShareFacts
<1>3. Perform(h)
    BY <1>0
<1> HIDE DEF h
<1>4. Sound(node, disk, h)
    BY <1>1, <1>2, SmallSound
<1>5. QED
    BY <1>3, <1>4, SoundKeeps

BondStep(n, m) ==
    Step([n EXCEPT !.bonds = @ \cup {m}],
         Save(<<"bond", m>>, TRUE)
           \o (IF m \in DOMAIN n.miners THEN Save(<<"miner", m>>, n.miners[m]) ELSE <<>>))

LEMMA BondFacts ==
    ASSUME NEW n, NodeOK(n), NEW m \in Miners
    PROVE  LET s == BondStep(n, m)
           IN /\ NodeOK(s.node) /\ SameRest(n, s.node)
              /\ InnerOK(s.writes, n.epoch) /\ Silent(s.writes)
              /\ Tracks(n, s.node, s.writes)
              /\ SharesMatch(n) => SharesMatch(s.node)
<1> DEFINE s == BondStep(n, m)
           W == s.writes
           bs == n.bonds \cup {m}
           A == Save(<<"bond", m>>, TRUE)
           B == IF m \in DOMAIN n.miners THEN Save(<<"miner", m>>, n.miners[m]) ELSE <<>>
<1>1. s.node = [n EXCEPT !.bonds = bs] /\ W = A \o B
    BY DEF BondStep, Step
<1>2. /\ n \in NodeRecord /\ bs \in SUBSET Miners
      /\ \A k \in DOMAIN n.miners : n.miners[k] \in MinerRecord
    BY NodeFields, PartialFacts DEF NodeOK
<1>3. IsSeq(A) /\ Range(A) = {Put(<<"bond", m>>, TRUE)}
    BY SaveFacts DEF Put
<1>4. IsSeq(B) /\ \A w \in Range(B) :
                     m \in DOMAIN n.miners /\ w = Put(<<"miner", m>>, n.miners[m])
  <2>1. CASE m \in DOMAIN n.miners
    <3>1. B = Save(<<"miner", m>>, n.miners[m])
        BY <2>1
    <3> HIDE DEF B
    <3>2. QED
        BY <2>1, <3>1, SaveFacts DEF Put
  <2>2. CASE m \notin DOMAIN n.miners
    BY <2>2, EmptySequence
  <2>3. QED
    BY <2>1, <2>2
<1> HIDE DEF s, W, A, B
<1>5. IsSeq(W) /\ Range(W) = Range(A) \cup Range(B)
    BY <1>1, <1>3, <1>4, Concatenation
<1>6. ASSUME NEW w \in Range(W)
      PROVE  \/ w = Put(<<"bond", m>>, TRUE)
             \/ m \in DOMAIN n.miners /\ w = Put(<<"miner", m>>, n.miners[m])
    BY <1>3, <1>4, <1>5
<1>7. Put(<<"bond", m>>, TRUE) \in Range(W)
    BY <1>3, <1>5
<1>8. ASSUME NEW w \in Range(W)
      PROVE  /\ w.op = "put" /\ w.key[1] \in {"bond", "miner"}
             /\ FitsKind(w.key, w.value, n.epoch)
  <2>1. CASE w = Put(<<"bond", m>>, TRUE)
    <3>1. w.op = "put" /\ w.key[1] = "bond"
        BY <2>1, RecordKeys DEF Put
    <3>2. QED
        BY <3>1 DEF FitsKind, OutputKinds
  <2>2. CASE m \in DOMAIN n.miners /\ w = Put(<<"miner", m>>, n.miners[m])
    <3>1. w.op = "put" /\ w.key[1] = "miner" /\ w.value \in MinerRecord
        BY <1>2, <2>2, RecordKeys DEF Put
    <3>2. QED
        BY <3>1 DEF FitsKind, OutputKinds
  <2>3. QED
    BY <1>6, <2>1, <2>2
<1>9. InnerOK(W, n.epoch) /\ Silent(W)
    BY <1>5, <1>8 DEF InnerOK, Silent, OutputKinds
<1>10. /\ s.node \in NodeRecord /\ s.node.miners = n.miners /\ s.node.loyalty = n.loyalty
       /\ s.node.bonds = bs /\ s.node.share_count = n.share_count /\ SameRest(n, s.node)
    BY <1>1, <1>2 DEF NodeRecord, SameRest
<1>11. NodeOK(s.node)
    BY <1>10 DEF NodeOK, SameRest
<1>12. TracksRecords("miner", n.miners, n.miners, W)
  <2>1. SUFFICES ASSUME NEW k \in Miners, ~Untouched(W, <<"miner", k>>)
                 PROVE  k \in DOMAIN n.miners /\ Puts(W, <<"miner", k>>, n.miners[k])
    BY DEF TracksRecords
  <2>2. PICK w \in Range(W) : w.key = <<"miner", k>>
    BY <2>1 DEF Untouched
  <2>3. \A v \in Range(W) : v.key = <<"miner", k>>
                              => m \in DOMAIN n.miners /\ k = m /\ v.value = n.miners[m]
    BY <1>6, RecordKeys DEF Put
  <2>4. QED
    BY <1>8, <2>2, <2>3 DEF Puts
<1>13. TracksRecords("loyalty", n.loyalty, n.loyalty, W)
    BY <1>8, RecordKeys DEF TracksRecords, Untouched
<1>14. TracksBonds(n.bonds, bs, W)
  <2>1. ASSUME NEW k \in Miners, k # m PROVE Untouched(W, <<"bond", k>>)
    BY <1>6, <2>1, RecordKeys DEF Untouched, Put
  <2>2. Puts(W, <<"bond", m>>, TRUE)
    <3>1. \A v \in Range(W) : v.key = <<"bond", m>> => (v.value <=> TRUE) /\ v.value = TRUE
        BY <1>6, RecordKeys DEF Put
    <3>2. \E v \in Range(W) : v.key = <<"bond", m>>
        BY <1>7 DEF Put
    <3>3. QED
        BY <1>8, <3>1, <3>2 DEF Puts
  <2>3. QED
    BY <2>1, <2>2 DEF TracksBonds
<1>15. Tracks(n, s.node, W)
    BY <1>10, <1>12, <1>13, <1>14 DEF Tracks
<1>16. SharesMatch(n) => SharesMatch(s.node)
    BY <1>10, SharesKept DEF MinerOf
<1>17. QED
    BY <1>9, <1>10, <1>11, <1>15, <1>16 DEF s, W

LEMMA AddBondKeeps ==
    ASSUME Inv, NEW m \in Miners, AddBond(m)
    PROVE  Inv'
<1> DEFINE h == BondStep(node, m)
<1>1. Settled(node, disk) /\ NodeOK(node)
    BY DEF Inv, Settled
<1>2. /\ NodeOK(h.node) /\ SameRest(node, h.node)
      /\ InnerOK(h.writes, node.epoch) /\ Silent(h.writes)
      /\ Tracks(node, h.node, h.writes)
      /\ SharesMatch(node) => SharesMatch(h.node)
    BY <1>1, BondFacts
<1>3. Perform(h)
    BY DEF AddBond, BondStep
<1> HIDE DEF h
<1>4. Sound(node, disk, h)
    BY <1>1, <1>2, SmallSound
<1>5. QED
    BY <1>3, <1>4, SoundKeeps

RegisterStep(n, m) ==
    LET miner == [MinerOf(n, m) EXCEPT !.payout = TRUE]
    IN Step([n EXCEPT !.miners = PutIn(@, m, miner)], Save(<<"miner", m>>, miner))

LEMMA RegisterFacts ==
    ASSUME NEW n, NodeOK(n), NEW m \in Miners
    PROVE  LET s == RegisterStep(n, m)
           IN /\ NodeOK(s.node) /\ SameRest(n, s.node)
              /\ InnerOK(s.writes, n.epoch) /\ Silent(s.writes)
              /\ Tracks(n, s.node, s.writes)
              /\ SharesMatch(n) => SharesMatch(s.node)
<1> DEFINE s == RegisterStep(n, m)
           W == s.writes
           miner == [MinerOf(n, m) EXCEPT !.payout = TRUE]
           ms == PutIn(n.miners, m, miner)
<1>1. s.node = [n EXCEPT !.miners = ms] /\ W = Save(<<"miner", m>>, miner)
    BY DEF RegisterStep, Step
<1>2. miner \in MinerRecord /\ miner.shares = MinerOf(n, m).shares
    BY MinerOfType DEF MinerRecord
<1>3. n \in NodeRecord /\ n.miners \in Partial(MinerRecord)
    BY NodeFields DEF NodeOK
<1> HIDE DEF miner, s, W
<1>4. /\ ms \in Partial(MinerRecord) /\ DOMAIN ms = DOMAIN n.miners \cup {m} /\ ms[m] = miner
      /\ \A k \in DOMAIN n.miners : k # m => ms[k] = n.miners[k]
  <2>1. ms \in Partial(MinerRecord)
    BY <1>2, <1>3, PutInType
  <2>2. QED
    BY <2>1 DEF PutIn
<1> HIDE DEF ms
<1>5. /\ s.node \in NodeRecord /\ s.node.miners = ms /\ s.node.loyalty = n.loyalty
      /\ s.node.bonds = n.bonds /\ s.node.share_count = n.share_count /\ SameRest(n, s.node)
    BY <1>1, <1>3, <1>4 DEF NodeRecord, SameRest
<1>6. NodeOK(s.node)
    BY <1>5 DEF NodeOK, SameRest
<1>7. InnerOK(W, n.epoch) /\ Silent(W)
    BY <1>1, <1>2, MinerWrite
<1>8. Range(W) = {Put(<<"miner", m>>, miner)}
    BY <1>1, SaveFacts DEF Put
<1>9. TracksRecords("miner", n.miners, ms, W)
  <2>1. ASSUME NEW k \in Miners, k # m PROVE Untouched(W, <<"miner", k>>)
    BY <1>8, <2>1, RecordKeys DEF Untouched, Put
  <2>2. Puts(W, <<"miner", m>>, miner)
    BY <1>8, RecordKeys DEF Puts, Put
  <2>3. QED
    BY <1>4, <2>1, <2>2 DEF TracksRecords
<1>10. TracksRecords("loyalty", n.loyalty, n.loyalty, W) /\ TracksBonds(n.bonds, n.bonds, W)
    BY <1>8, RecordKeys DEF TracksRecords, TracksBonds, Untouched, Put
<1>11. Tracks(n, s.node, W)
    BY <1>5, <1>9, <1>10 DEF Tracks
<1>12. SharesMatch(n) => SharesMatch(s.node)
  <2>1. ASSUME NEW k \in Miners PROVE MinerOf(s.node, k).shares = MinerOf(n, k).shares
    <3>1. CASE k = m
        BY <1>2, <1>4, <1>5, <3>1 DEF MinerOf
    <3>2. CASE k # m
        BY <1>4, <1>5, <3>2 DEF MinerOf
    <3>3. QED
        BY <3>1, <3>2
  <2>2. QED
    BY <1>5, <2>1, SharesKept
<1>13. QED
    BY <1>5, <1>6, <1>7, <1>11, <1>12 DEF s, W

LEMMA RegisterMinerKeeps ==
    ASSUME Inv, NEW m \in Miners, RegisterMiner(m)
    PROVE  Inv'
<1> DEFINE h == RegisterStep(node, m)
<1>1. Settled(node, disk) /\ NodeOK(node)
    BY DEF Inv, Settled
<1>2. /\ NodeOK(h.node) /\ SameRest(node, h.node)
      /\ InnerOK(h.writes, node.epoch) /\ Silent(h.writes)
      /\ Tracks(node, h.node, h.writes)
      /\ SharesMatch(node) => SharesMatch(h.node)
    BY <1>1, RegisterFacts
<1>3. Perform(h)
    BY DEF RegisterMiner, RegisterStep
<1> HIDE DEF h
<1>4. Sound(node, disk, h)
    BY <1>1, <1>2, SmallSound
<1>5. QED
    BY <1>3, <1>4, SoundKeeps

ReportStep(n, m) == Step([n EXCEPT !.pending_slashes = @ \cup {m}], <<>>)

LEMMA ReportFacts ==
    ASSUME NEW n, NodeOK(n), NEW m \in Miners
    PROVE  LET s == ReportStep(n, m)
           IN /\ NodeOK(s.node) /\ SameRest(n, s.node)
              /\ InnerOK(s.writes, n.epoch) /\ Silent(s.writes)
              /\ Tracks(n, s.node, s.writes)
              /\ SharesMatch(n) => SharesMatch(s.node)
<1> DEFINE s == ReportStep(n, m)
           pending == n.pending_slashes \cup {m}
<1>1. s.node = [n EXCEPT !.pending_slashes = pending] /\ s.writes = <<>>
    BY DEF ReportStep, Step
<1>2. n \in NodeRecord /\ pending \in SUBSET Miners
    BY NodeFields DEF NodeOK
<1> HIDE DEF s, pending
<1>3. /\ s.node \in NodeRecord /\ SameRecords(n, s.node) /\ SameRest(n, s.node)
      /\ s.node.share_count = n.share_count
    BY <1>1, <1>2 DEF NodeRecord, SameRest, SameRecords
<1>4. NodeOK(s.node)
    BY <1>3 DEF NodeOK, SameRest, SameRecords
<1>5. IsSeq(<<>>) /\ Range(<<>>) = {}
    BY EmptySequence
<1>6. InnerOK(s.writes, n.epoch) /\ Silent(s.writes)
    BY <1>1, <1>5 DEF InnerOK, Silent
<1>7. Tracks(n, s.node, s.writes)
    BY <1>1, <1>3, <1>5, TracksNothing
<1>8. SharesMatch(n) => SharesMatch(s.node)
    BY <1>3, SharesKept DEF SameRecords, MinerOf
<1>9. QED
    BY <1>3, <1>4, <1>6, <1>7, <1>8 DEF s

LEMMA ReportEquivocationKeeps ==
    ASSUME Inv, NEW m \in Miners, ReportEquivocation(m)
    PROVE  Inv'
<1> DEFINE h == ReportStep(node, m)
<1>1. Settled(node, disk) /\ NodeOK(node)
    BY DEF Inv, Settled
<1>2. /\ NodeOK(h.node) /\ SameRest(node, h.node)
      /\ InnerOK(h.writes, node.epoch) /\ Silent(h.writes)
      /\ Tracks(node, h.node, h.writes)
      /\ SharesMatch(node) => SharesMatch(h.node)
    BY <1>1, ReportFacts
<1>3. Perform(h)
    BY DEF ReportEquivocation, ReportStep
<1> HIDE DEF h
<1>4. Sound(node, disk, h)
    BY <1>1, <1>2, SmallSound
<1>5. QED
    BY <1>3, <1>4, SoundKeeps

LEMMA AcceptBlockKeeps ==
    ASSUME ContributionsAreNat, Inv, NEW order \in SetToSeqs(Miners), AcceptBlock(order)
    PROVE  Inv'
<1> DEFINE h == AcceptStep(node, order)
<1>1. Settled(node, disk) /\ IsFiniteSet(Miners)
    BY EpochAssumption DEF Inv
<1>2. Sound(node, disk, h)
    BY <1>1, AcceptSound
<1>3. Perform(h)
    BY DEF AcceptBlock, AcceptStep
<1> HIDE DEF h
<1>4. QED
    BY <1>2, <1>3, SoundKeeps

LEMMA CommitBlockKeeps ==
    ASSUME ContributionsAreNat, Inv, NEW order \in SetToSeqs(Miners), CommitBlock(order)
    PROVE  Inv'
<1>0. PICK counts \in Roomy(node) : Perform(CommitBlockStep(node, order, counts))
    BY DEF CommitBlock, CommitBlockStep
<1> DEFINE h == CommitBlockStep(node, order, counts)
<1>1. Settled(node, disk) /\ IsFiniteSet(Miners)
    BY EpochAssumption DEF Inv
<1>2. Sound(node, disk, h)
    BY <1>1, CommitBlockSound
<1>3. Perform(h)
    BY <1>0
<1> HIDE DEF h
<1>4. QED
    BY <1>2, <1>3, SoundKeeps

LEMMA NextInv ==
    ASSUME ContributionsAreNat, Inv, Next
    PROVE  Inv'
<1>1. ASSUME NEW m \in Miners, AddShare(m) PROVE Inv'
    BY <1>1, AddShareKeeps
<1>2. ASSUME NEW m \in Miners, AddBond(m) PROVE Inv'
    BY <1>2, AddBondKeeps
<1>3. ASSUME NEW m \in Miners, RegisterMiner(m) PROVE Inv'
    BY <1>3, RegisterMinerKeeps
<1>4. ASSUME NEW m \in Suspects, ReportEquivocation(m) PROVE Inv'
  <2>1. m \in Miners
    BY EpochAssumption
  <2>2. QED
    BY <1>4, <2>1, ReportEquivocationKeeps
<1>5. ASSUME NEW order \in SetToSeqs(Miners), AcceptBlock(order) PROVE Inv'
    BY <1>5, AcceptBlockKeeps
<1>6. ASSUME NEW order \in SetToSeqs(Miners), CommitBlock(order) PROVE Inv'
    BY <1>6, CommitBlockKeeps
<1>7. QED
    BY <1>1, <1>2, <1>3, <1>4, <1>5, <1>6 DEF Next

LEMMA InitInv == Init => Inv
<1> SUFFICES ASSUME Init PROVE Inv
    OBVIOUS
<1> DEFINE zeros == [m \in Miners |-> 0]
<1>1. /\ node = [height |-> 1, epoch |-> 1, total_emitted |-> GenesisSupply,
                 miners |-> NoMiners, bonds |-> {}, loyalty |-> NoMiners,
                 share_count |-> zeros, pending_slashes |-> {}, processed_slashes |-> {}]
      /\ disk = [k \in {HeightKey, EpochKey, EmittedKey} |->
                    IF k = EmittedKey THEN GenesisSupply ELSE 1]
      /\ crashes = 0
    BY DEF Init
<1>2. DOMAIN NoMiners = {} /\ NoMiners = [m \in DOMAIN NoMiners |-> NoMiners[m]]
    BY DEF NoMiners
<1>3. NoMiners \in Partial(MinerRecord) /\ NoMiners \in Partial(LoyaltyRecord)
    BY <1>2, IsPartial
<1>4. zeros \in [Miners -> Nat] /\ GenesisSupply \in Nat
    BY EpochAssumption
<1>5. /\ node.height = 1 /\ node.epoch = 1 /\ node.total_emitted = GenesisSupply
      /\ node.miners = NoMiners /\ node.bonds = {} /\ node.loyalty = NoMiners
      /\ node.share_count = zeros
    BY <1>1
<1> HIDE DEF zeros
<1>6. node \in NodeRecord
    BY <1>1, <1>3, <1>4 DEF NodeRecord
<1>7. NodeOK(node)
    BY <1>2, <1>5, <1>6 DEF NodeOK
<1>8. /\ DOMAIN disk = {HeightKey, EpochKey, EmittedKey}
      /\ disk[HeightKey] = 1 /\ disk[EmittedKey] = GenesisSupply
    BY <1>1, StateKeys
<1>9. EpochAt(1) = 1
  <2>1. EpochBlocks \in Nat \ {0, 1}
    BY EpochAssumption
  <2>2. 1 \div EpochBlocks = 0
    BY <2>1
  <2>3. QED
    BY <2>2 DEF EpochAt
<1>10. \A k \in DOMAIN disk : k[1] = "state"
    BY <1>8, StateKeys
<1>11. ASSUME NEW k \in DOMAIN disk PROVE Fits(k, disk[k], 1)
  <2>1. FitsKind(k, disk[k], 1)
    BY <1>10 DEF FitsKind, OutputKinds
  <2>2. k = HeightKey => disk[k] \in Nat /\ 1 <= EpochAt(disk[k])
    BY <1>8, <1>9
  <2>3. k = EmittedKey => disk[k] \in Nat
    BY <1>4, <1>8
  <2>4. QED
    BY <2>1, <2>2, <2>3 DEF Fits
<1>12. IsFiniteSet({HeightKey, EpochKey, EmittedKey})
  <2>1. IsFiniteSet({HeightKey}) /\ IsFiniteSet({EpochKey}) /\ IsFiniteSet({EmittedKey})
    BY FS_Singleton
  <2>2. IsFiniteSet({HeightKey} \cup {EpochKey} \cup {EmittedKey})
    BY <2>1, FS_Union
  <2>3. {HeightKey} \cup {EpochKey} \cup {EmittedKey} = {HeightKey, EpochKey, EmittedKey}
    OBVIOUS
  <2>4. QED
    BY <2>2, <2>3
<1>13. DiskOK(disk, 1)
    BY <1>8, <1>11, <1>12 DEF DiskOK
<1>14. Mirrors(node, disk)
  <2>1. ASSUME NEW m PROVE /\ <<"miner", m>> \notin DOMAIN disk
                           /\ <<"loyalty", m>> \notin DOMAIN disk
                           /\ <<"bond", m>> \notin DOMAIN disk
    BY <1>10, RecordKeys
  <2>2. QED
    BY <1>2, <1>5, <2>1 DEF Mirrors, MirrorsRecords
<1>15. Counters(node, disk)
    BY <1>5, <1>8, <1>9 DEF Counters
<1>16. Settled(node, disk)
    BY <1>5, <1>7, <1>13, <1>14, <1>15 DEF Settled
<1>17. SharesMatch(node)
    BY <1>2, <1>5 DEF SharesMatch, MinerOf, NewMiner, zeros
<1>18. MintedOf(disk) = 0
  <2> DEFINE f == [k \in OutputsOf(disk) |-> disk[k]]
  <2>1. OutputsOf(disk) = {}
    BY <1>10 DEF OutputsOf, OutputKinds
  <2>2. DOMAIN f = {} /\ f \in [{} -> Int]
    BY <2>1
  <2>3. MintedOf(disk) = SumOver(f, {})
    BY <2>1, SumFunctionIs DEF MintedOf
  <2> HIDE DEF f
  <2>4. SumOver(f, {}) = 0
    <3>1. {} \in SUBSET {} /\ IsFiniteSet({})
        BY FS_EmptySet
    <3>2. QED
        BY <2>2, <3>1, SumFacts
  <2>5. QED
    BY <2>3, <2>4
<1>19. MintedOf(disk) + GenesisSupply <= node.total_emitted
    BY <1>4, <1>5, <1>18
<1>20. QED
    BY <1>1, <1>16, <1>17, <1>18, <1>19 DEF Inv

LEMMA Invariance ==
    ASSUME ContributionsAreNat
    PROVE  Spec => []Inv
<1>1. ASSUME Inv, [Next]_vars PROVE Inv'
  <2>1. CASE Next
    BY <1>1, <2>1, NextInv
  <2>2. CASE UNCHANGED vars
    BY <1>1, <2>2 DEF vars, Inv, SharesMatch
  <2>3. QED
    BY <1>1, <2>1, <2>2
<1>2. QED
    BY <1>1, InitInv, PTL DEF Spec

----------------------------------------------------------------------------
(* Theorems *)

\* A restart between handlers loads what the memory holds: no handler, whether
\* it ran to its end or was killed after any of its writes, leaves a record or
\* a counter on disk that differs from the memory.
THEOREM ReloadIsIdentityHolds ==
    ASSUME ContributionsAreNat
    PROVE  Spec => []ReloadIsIdentity
<1>1. Inv => ReloadIsIdentity
  <2> SUFFICES ASSUME Inv PROVE ReloadIsIdentity
    OBVIOUS
  <2> DEFINE l == LoadState(disk)
  <2>1. /\ NodeOK(node) /\ node \in NodeRecord /\ Mirrors(node, disk) /\ Counters(node, disk)
    BY DEF Inv, Settled, NodeOK
  <2>2. /\ node.miners = [m \in DOMAIN node.miners |-> node.miners[m]]
        /\ node.loyalty = [m \in DOMAIN node.loyalty |-> node.loyalty[m]]
        /\ DOMAIN node.miners \in SUBSET Miners /\ DOMAIN node.loyalty \in SUBSET Miners
        /\ node.bonds \in SUBSET Miners
    BY <2>1, NodeFields, PartialFacts
  <2>3. /\ StoredIds(disk, "miner") = DOMAIN node.miners
        /\ StoredIds(disk, "loyalty") = DOMAIN node.loyalty
        /\ StoredIds(disk, "bond") = node.bonds
    BY <2>1, <2>2 DEF StoredIds, Mirrors, MirrorsRecords
  <2>4. /\ \A m \in DOMAIN node.miners : disk[<<"miner", m>>] = node.miners[m]
        /\ \A m \in DOMAIN node.loyalty : disk[<<"loyalty", m>>] = node.loyalty[m]
    BY <2>1, <2>2 DEF Mirrors, MirrorsRecords
  <2>5. /\ [m \in StoredIds(disk, "miner") |-> disk[<<"miner", m>>]] = node.miners
        /\ [m \in StoredIds(disk, "loyalty") |-> disk[<<"loyalty", m>>]] = node.loyalty
    BY <2>2, <2>3, <2>4
  <2>6. l = [height |-> node.height, epoch |-> node.epoch,
             total_emitted |-> node.total_emitted, miners |-> node.miners,
             bonds |-> node.bonds, loyalty |-> node.loyalty,
             share_count |-> [m \in Miners |-> 0],
             pending_slashes |-> {}, processed_slashes |-> {}]
    BY <2>1, <2>3, <2>5 DEF LoadState, Counters
  <2> DEFINE p == [l EXCEPT !.share_count = node.share_count,
                            !.pending_slashes = node.pending_slashes,
                            !.processed_slashes = node.processed_slashes]
             Written(n) == [height |-> n.height, epoch |-> n.epoch,
                            total_emitted |-> n.total_emitted, miners |-> n.miners,
                            bonds |-> n.bonds, loyalty |-> n.loyalty,
                            share_count |-> n.share_count,
                            pending_slashes |-> n.pending_slashes,
                            processed_slashes |-> n.processed_slashes]
  <2> HIDE DEF l
  <2>7. /\ l \in NodeRecord
        /\ l.height = node.height /\ l.epoch = node.epoch
        /\ l.total_emitted = node.total_emitted /\ l.miners = node.miners
        /\ l.bonds = node.bonds /\ l.loyalty = node.loyalty
    BY <2>1, <2>6 DEF NodeRecord
  <2>8. /\ p \in NodeRecord
        /\ p.height = node.height /\ p.epoch = node.epoch
        /\ p.total_emitted = node.total_emitted /\ p.miners = node.miners
        /\ p.bonds = node.bonds /\ p.loyalty = node.loyalty
        /\ p.share_count = node.share_count
        /\ p.pending_slashes = node.pending_slashes
        /\ p.processed_slashes = node.processed_slashes
    BY <2>1, <2>7 DEF NodeRecord
  <2> HIDE DEF p
  <2>9. p = Written(p) /\ node = Written(node)
    BY <2>1, <2>8 DEF NodeRecord
  <2>10. Written(p) = Written(node)
    BY <2>8
  <2>11. QED
    BY <2>9, <2>10 DEF ReloadIsIdentity, l, p
<1>2. QED
    BY <1>1, Invariance, PTL

\* A miner is never rewarded for fewer shares than the pool that is archived has
\* of it, through evictions, slashes, closed epochs and crashes; and for as many
\* as long as no crash and no full pool has taken shares from the pool alone.
THEOREM SharesMatchPoolHolds ==
    ASSUME ContributionsAreNat
    PROVE  Spec => []SharesMatchPool
<1>1. Inv => SharesMatchPool
    BY DEF Inv, SharesMatch, SharesMatchPool
<1>2. QED
    BY <1>1, Invariance, PTL

\* Loyalty counts an epoch at most once, with any number of shares, epoch ends
\* and crashes.
THEOREM LoyaltyOncePerEpochHolds ==
    ASSUME ContributionsAreNat
    PROVE  Spec => []LoyaltyOncePerEpoch
<1>1. Inv => LoyaltyOncePerEpoch
    BY DEF Inv, Settled, NodeOK, EarnedOnce, LoyaltyOncePerEpoch
<1>2. QED
    BY <1>1, Invariance, PTL

\* Without a crash the emission counter covers every output that closing epochs
\* has created, whatever the division into rewards rounds to.
THEOREM MintedIsCountedHolds ==
    ASSUME ContributionsAreNat
    PROVE  Spec => []MintedIsCounted
<1>1. Inv => MintedIsCounted
  <2>1. Minted = MintedOf(disk)
    BY DEF Minted, OutputKeys, MintedOf, OutputsOf, OutputKinds
  <2>2. QED
    BY <2>1 DEF Inv, MintedIsCounted
<1>2. QED
    BY <1>1, Invariance, PTL

\* Without a crash the outputs that closing epochs has created stay within the
\* supply cap, although the rewards of own blocks take the emission counter that
\* the cap is tested with past it.
THEOREM PaidWithinSupplyHolds ==
    ASSUME ContributionsAreNat
    PROVE  Spec => []PaidWithinSupply
<1>1. Inv => PaidWithinSupply
  <2>1. Minted = MintedOf(disk)
    BY DEF Minted, OutputKeys, MintedOf, OutputsOf, OutputKinds
  <2>2. QED
    BY <2>1 DEF Inv, PaidWithinSupply
<1>2. QED
    BY <1>1, Invariance, PTL

----------------------------------------------------------------------------
(* What PoCI stands for (Contribution) *)

\* The largest number whose square is at most n.
LEMMA RootExists ==
    ASSUME NEW n \in Nat
    PROVE  \E r \in Nat : r * r <= n /\ n < (r + 1) * (r + 1)
<1> DEFINE Above == {k \in Nat : n < (k + 1) * (k + 1)}
<1>1. n \in Above
    OBVIOUS
<1>2. PICK r \in Above : \A k \in Above : r <= k
  <2>1. Above \in SUBSET Nat /\ Above # {}
    BY <1>1
  <2> HIDE DEF Above
  <2>2. QED
    BY <2>1, LeastNumber
<1>3. r * r <= n
  <2>1. CASE r = 0
    BY <2>1
  <2>2. CASE r # 0
    <3>1. r - 1 \in Nat /\ r - 1 \notin Above
        BY <1>2, <2>2
    <3>2. (r - 1) + 1 = r
        BY <1>2
    <3>3. ~(n < r * r)
        BY <3>1, <3>2
    <3>4. r * r \in Nat
        BY <1>2, Products
    <3>5. QED
        BY <3>3, <3>4
  <2>3. QED
    BY <2>1, <2>2
<1>4. QED
    BY <1>2, <1>3

\* Newton's iteration does not pass the root, and stops falling only there.
LEMMA NewtonStep ==
    ASSUME NEW n \in Nat \ {0}, NEW r \in Nat, r * r <= n, n < (r + 1) * (r + 1),
           NEW x \in 1 .. n, NEW y, y = (x + n \div x) \div 2
    PROVE  /\ y \in Nat /\ y >= r
           /\ y >= x => x <= r
<1> DEFINE q == n \div x
<1>1. x \in Nat \ {0} /\ q \in Nat /\ q * x <= n /\ n < (q + 1) * x
  <2>1. x \in Nat \ {0}
    OBVIOUS
  <2>2. \A a \in Nat, b \in Nat \ {0} :
            a \div b \in Nat /\ (a \div b) * b <= a /\ a < ((a \div b) + 1) * b
    OBVIOUS
  <2>3. QED
    BY <2>1, <2>2
<1>2. y \in Nat /\ 2 * y <= x + q /\ x + q <= 2 * y + 1
  <2> HIDE DEF q
  <2>1. y = (x + q) \div 2
    BY DEF q
  <2>2. QED
    BY <1>1, <2>1
<1> HIDE DEF q
<1>3. y >= r
  <2>1. SUFFICES ASSUME x + q + 1 <= 2 * r PROVE FALSE
    BY <1>1, <1>2
  <2>2. q + 1 <= 2 * r - x /\ 2 * r - x \in Nat
    BY <1>1, <2>1
  <2>3. (q + 1) * x <= (2 * r - x) * x
    BY <1>1, <2>2, Products
  <2>4. (2 * r - x) * x <= r * r
    <3>1. \A a, b \in Int : (2 * a - b) * b <= a * a
      <4>1. ASSUME NEW a \in Int, NEW b \in Int PROVE (2 * a - b) * b <= a * a
        <5>1. 0 <= (a - b) * (a - b)
            OBVIOUS
        <5>2. (a - b) * (a - b) = a * a - (2 * a - b) * b
            OBVIOUS
        <5>3. QED
            BY <5>1, <5>2
      <4>2. QED
        BY <4>1
    <3>2. QED
        BY <1>1, <3>1
  <2>5. (q + 1) * x \in Nat /\ (2 * r - x) * x \in Nat /\ r * r \in Nat
    BY <1>1, <2>2, Products
  <2>6. QED
    BY <1>1, <2>3, <2>4, <2>5
<1>4. ASSUME y >= x PROVE x <= r
  <2>1. q >= x
    BY <1>1, <1>2, <1>4
  <2>2. x * x <= q * x
    BY <1>1, <2>1, Products
  <2>3. SUFFICES ASSUME r + 1 <= x PROVE FALSE
    BY <1>1
  <2>4. (r + 1) * (r + 1) <= x * x
    <3>1. (r + 1) * (r + 1) <= x * (r + 1)
        BY <1>1, <2>3, Products
    <3>2. (r + 1) * x <= x * x
        BY <1>1, <2>3, Products
    <3>3. (r + 1) * x = x * (r + 1)
        BY <1>1, Products
    <3>4. /\ (r + 1) * (r + 1) \in Nat /\ x * (r + 1) \in Nat /\ x * x \in Nat
        BY <1>1, Products
    <3>5. QED
        BY <3>1, <3>2, <3>3, <3>4
  <2>5. (r + 1) * (r + 1) \in Nat /\ x * x \in Nat /\ q * x \in Nat
    BY <1>1, Products
  <2>6. QED
    BY <1>1, <2>2, <2>4, <2>5
<1>5. QED
    BY <1>2, <1>3, <1>4

\* Isqrt is the integer square root, of any number: the iteration is defined for
\* every start, stays above the root and ends at it.
THEOREM IsqrtIsFloor ==
    ASSUME NEW n \in Nat
    PROVE  /\ Isqrt(n) \in Nat
           /\ Isqrt(n) * Isqrt(n) <= n
           /\ n < (Isqrt(n) + 1) * (Isqrt(n) + 1)
<1>1. PICK r \in Nat : r * r <= n /\ n < (r + 1) * (r + 1)
    BY RootExists
<1>2. CASE n = 0
  <2>1. Isqrt(n) = 0
    BY <1>2 DEF Isqrt
  <2>2. QED
    BY <1>2, <2>1
<1>3. CASE n # 0
  <2> DEFINE y(x) == (x + n \div x) \div 2
             IsNewton(h) == h = [x \in 1 .. n |-> IF y(x) < x THEN h[y(x)] ELSE x]
             newton == CHOOSE h : IsNewton(h)
             Root == [x \in 1 .. n |-> IF x < r THEN x ELSE r]
  <2>1. n \in Nat \ {0}
    BY <1>3
  <2>2. ASSUME NEW x \in 1 .. n
        PROVE  y(x) \in Nat /\ y(x) >= r /\ (y(x) >= x => x <= r)
    BY <1>1, <2>1, NewtonStep
  <2>3. r # 0 /\ r <= n
    <3>1. r # 0
        BY <1>1, <2>1
    <3>2. r <= r * r
        BY <3>1, Products
    <3>3. r * r \in Nat
        BY Products
    <3>4. QED
        BY <1>1, <3>1, <3>2, <3>3
  <2>4. Isqrt(n) = newton[n]
    BY <1>3 DEF Isqrt
  <2> HIDE DEF y
  <2>5. IsNewton(Root)
    <3>1. ASSUME NEW x \in 1 .. n PROVE Root[x] = IF y(x) < x THEN Root[y(x)] ELSE x
      <4>1. CASE y(x) < x
        <5>1. y(x) \in 1 .. n /\ ~(y(x) < r) /\ ~(x < r)
            BY <2>2, <2>3, <4>1
        <5>2. QED
            BY <4>1, <5>1
      <4>2. CASE ~(y(x) < x)
        <5>1. x <= r
            BY <2>2, <4>2
        <5>2. QED
            BY <4>2, <5>1
      <4>3. QED
        BY <4>1, <4>2
    <3>2. Root = [x \in 1 .. n |-> Root[x]]
        OBVIOUS
    <3> HIDE DEF Root
    <3>3. QED
        BY <3>1, <3>2
  <2>6. IsNewton(newton)
    <3> HIDE DEF IsNewton, Root
    <3>1. QED
        BY <2>5
  <2> DEFINE Bad == {x \in 1 .. n : x >= r /\ newton[x] # r}
  <2>7. \A x \in 1 .. n : newton[x] = IF y(x) < x THEN newton[y(x)] ELSE x
    <3> HIDE DEF newton
    <3>1. QED
        BY <2>6
  <2> HIDE DEF newton, IsNewton, Root
  <2>8. Bad = {}
    <3>1. SUFFICES ASSUME Bad # {} PROVE FALSE
        OBVIOUS
    <3>2. Bad \in SUBSET Nat
        OBVIOUS
    <3>3. PICK x \in Bad : \A k \in Bad : x <= k
      <4> HIDE DEF Bad
      <4>1. QED
        BY <3>1, <3>2, LeastNumber
    <3>4. x \in 1 .. n /\ x >= r /\ newton[x] # r
        BY <3>3
    <3>5. y(x) \in Nat /\ y(x) >= r /\ (y(x) >= x => x <= r)
        BY <2>2, <3>4
    <3>6. CASE y(x) < x
      <4>1. newton[x] = newton[y(x)] /\ y(x) \in 1 .. n
        BY <2>3, <2>7, <3>4, <3>5, <3>6
      <4>2. y(x) \in Bad
        BY <3>4, <3>5, <4>1
      <4>3. QED
        BY <3>3, <3>4, <3>5, <3>6, <4>2
    <3>7. CASE ~(y(x) < x)
      <4>1. newton[x] = x
        BY <2>7, <3>4, <3>7
      <4>2. QED
        BY <3>4, <3>5, <3>7, <4>1
    <3>8. QED
        BY <3>6, <3>7
  <2>9. newton[n] = r
    BY <2>1, <2>3, <2>8
  <2>10. QED
    BY <1>1, <2>4, <2>9
<1>4. QED
    BY <1>2, <1>3

LEMMA RootGrows ==
    ASSUME NEW n \in Nat, NEW m \in Nat, n <= m
    PROVE  Isqrt(n) <= Isqrt(m)
<1> DEFINE r == Isqrt(n)
           q == Isqrt(m)
<1>1. r \in Nat /\ r * r <= n /\ q \in Nat /\ m < (q + 1) * (q + 1)
    BY IsqrtIsFloor
<1> HIDE DEF r, q
<1>2. SUFFICES ASSUME q + 1 <= r PROVE FALSE
    BY <1>1 DEF r, q
<1>3. (q + 1) * (q + 1) <= r * (q + 1)
    BY <1>1, <1>2, Products
<1>4. (q + 1) * r <= r * r
    BY <1>1, <1>2, Products
<1>5. (q + 1) * r = r * (q + 1)
    BY <1>1, Products
<1>6. (q + 1) * (q + 1) \in Nat /\ r * (q + 1) \in Nat /\ r * r \in Nat
    BY <1>1, Products
<1>7. QED
    BY <1>1, <1>3, <1>4, <1>5, <1>6

LEMMA QuotientGrows ==
    ASSUME NEW a \in Nat, NEW b \in Nat, a <= b, NEW t \in Nat \ {0}
    PROVE  a \div t \in Nat /\ b \div t \in Nat /\ a \div t <= b \div t
OBVIOUS

LEMMA NormFacts ==
    ASSUME NEW x \in Nat, NEW y \in Nat, x <= y, NEW most \in Nat \ {0}
    PROVE  /\ Norm(x, most) \in Nat /\ Norm(x, most) <= Scale
           /\ Norm(x, most) <= Norm(y, most)
<1> DEFINE a == (x * Scale) \div most
           b == (y * Scale) \div most
<1>1. Scale \in Nat
    BY ContributionAssumption
<1>2. x * Scale \in Nat /\ y * Scale \in Nat /\ x * Scale <= y * Scale
    BY <1>1, Products
<1>3. a \in Nat /\ b \in Nat /\ a <= b
    BY <1>2, QuotientGrows
<1>4. /\ Norm(x, most) = (IF a < Scale THEN a ELSE Scale)
      /\ Norm(y, most) = (IF b < Scale THEN b ELSE Scale)
    BY DEF Norm
<1> HIDE DEF a, b
<1>5. QED
    BY <1>1, <1>3, <1>4

LEMMA MaximaNotZero ==
    /\ Isqrt(MostShares) \in Nat \ {0} /\ MostLoyalty \in Nat \ {0}
    /\ Isqrt(MostBond) \in Nat \ {0} /\ Scale \in Nat \ {0}
    /\ WeightShares \in Nat /\ WeightLoyalty \in Nat /\ WeightBond \in Nat
<1>1. /\ MostShares \in Nat \ {0} /\ MostLoyalty \in Nat \ {0} /\ MostBond \in Nat \ {0}
      /\ Scale \in Nat \ {0}
      /\ WeightShares \in Nat /\ WeightLoyalty \in Nat /\ WeightBond \in Nat
    BY ContributionAssumption
<1>2. ASSUME NEW n \in Nat \ {0} PROVE Isqrt(n) \in Nat \ {0}
  <2> DEFINE r == Isqrt(n)
  <2>1. r \in Nat /\ n < (r + 1) * (r + 1)
    BY IsqrtIsFloor
  <2> HIDE DEF r
  <2>2. r # 0
    BY <2>1
  <2>3. QED
    BY <2>1, <2>2 DEF r
<1>3. QED
    BY <1>1, <1>2

\* A contribution is at most the sum of the weights, and does not fall when the
\* shares, the loyalty or the bond grow.
THEOREM ContributionIsFair ==
    ASSUME NEW shares \in Nat, NEW loyalty \in Nat, NEW bond \in Nat,
           NEW shares2 \in Nat, NEW loyalty2 \in Nat, NEW bond2 \in Nat,
           shares <= shares2, loyalty <= loyalty2, bond <= bond2
    PROVE  /\ CalculatePoCI(shares, loyalty, bond) \in Nat
           /\ CalculatePoCI(shares, loyalty, bond)
                <= WeightShares + WeightLoyalty + WeightBond
           /\ CalculatePoCI(shares, loyalty, bond)
                <= CalculatePoCI(shares2, loyalty2, bond2)
<1> DEFINE a == Norm(Isqrt(shares), Isqrt(MostShares))
           b == Norm(loyalty, MostLoyalty)
           c == Norm(Isqrt(bond), Isqrt(MostBond))
           a2 == Norm(Isqrt(shares2), Isqrt(MostShares))
           b2 == Norm(loyalty2, MostLoyalty)
           c2 == Norm(Isqrt(bond2), Isqrt(MostBond))
           p == WeightShares * a + WeightLoyalty * b + WeightBond * c
           q == WeightShares * a2 + WeightLoyalty * b2 + WeightBond * c2
           weight == WeightShares + WeightLoyalty + WeightBond
<1>1. /\ Isqrt(shares) \in Nat /\ Isqrt(shares2) \in Nat
      /\ Isqrt(bond) \in Nat /\ Isqrt(bond2) \in Nat
      /\ Isqrt(shares) <= Isqrt(shares2) /\ Isqrt(bond) <= Isqrt(bond2)
    BY IsqrtIsFloor, RootGrows
<1>2. /\ a \in Nat /\ a <= Scale /\ a <= a2
      /\ b \in Nat /\ b <= Scale /\ b <= b2
      /\ c \in Nat /\ c <= Scale /\ c <= c2
    BY <1>1, MaximaNotZero, NormFacts
<1>3. a2 \in Nat /\ b2 \in Nat /\ c2 \in Nat
  <2>1. Isqrt(shares2) <= Isqrt(shares2) /\ loyalty2 <= loyalty2 /\ Isqrt(bond2) <= Isqrt(bond2)
    BY <1>1
  <2>2. QED
    BY <1>1, <2>1, MaximaNotZero, NormFacts
<1>4. /\ CalculatePoCI(shares, loyalty, bond) = p \div Scale
      /\ CalculatePoCI(shares2, loyalty2, bond2) = q \div Scale
    BY DEF CalculatePoCI
<1> HIDE DEF a, b, c, a2, b2, c2
<1>5. ASSUME NEW w \in Nat, NEW x \in Nat, NEW y \in Nat, x <= y
      PROVE  w * x \in Nat /\ w * x <= w * y
    BY <1>5, Products
<1>6. /\ WeightShares * a \in Nat /\ WeightLoyalty * b \in Nat /\ WeightBond * c \in Nat
      /\ WeightShares * a <= WeightShares * a2 /\ WeightLoyalty * b <= WeightLoyalty * b2
      /\ WeightBond * c <= WeightBond * c2
    BY <1>2, <1>3, <1>5, MaximaNotZero
<1>7. /\ WeightShares * a <= WeightShares * Scale /\ WeightLoyalty * b <= WeightLoyalty * Scale
      /\ WeightBond * c <= WeightBond * Scale
    BY <1>2, <1>5, MaximaNotZero
<1>8. /\ WeightShares * a2 \in Nat /\ WeightLoyalty * b2 \in Nat /\ WeightBond * c2 \in Nat
      /\ WeightShares * Scale \in Nat /\ WeightLoyalty * Scale \in Nat
      /\ WeightBond * Scale \in Nat
    BY <1>3, MaximaNotZero, Products
<1>9. weight * Scale = WeightShares * Scale + WeightLoyalty * Scale + WeightBond * Scale
  <2>1. (WeightShares + WeightLoyalty) * Scale = WeightShares * Scale + WeightLoyalty * Scale
    BY MaximaNotZero, Products
  <2>2. WeightShares + WeightLoyalty \in Nat
    BY MaximaNotZero
  <2>3. QED
    BY <2>1, <2>2, MaximaNotZero, Products
<1>10. p \in Nat /\ q \in Nat /\ p <= q /\ p <= weight * Scale
    BY <1>6, <1>7, <1>8, <1>9
<1>11. weight \in Nat
    BY MaximaNotZero
<1> HIDE DEF p, q, weight
<1>12. p \div Scale \in Nat /\ p \div Scale <= q \div Scale
    BY <1>10, MaximaNotZero, QuotientGrows
<1>13. p \div Scale <= weight
  <2>1. (p \div Scale) * Scale <= p
    BY <1>10, MaximaNotZero, Quotient
  <2>2. weight * Scale \in Nat /\ (p \div Scale) * Scale \in Nat
    BY <1>11, <1>12, MaximaNotZero, Products
  <2>3. (p \div Scale) * Scale <= weight * Scale
    BY <1>10, <2>1, <2>2
  <2>4. QED
    BY <1>11, <1>12, <2>3, MaximaNotZero, Products
<1>14. QED
    BY <1>4, <1>12, <1>13 DEF weight

\* The hypothesis of the theorems about EpochEnd holds when PoCI is what the
\* code computes, with the same bond for every bonded miner.
THEOREM CodeContributionsAreNat ==
    ASSUME NEW bond \in Nat,
           \A shares, loyalty \in Nat, bonded \in BOOLEAN :
                PoCI(shares, loyalty, bonded)
                    = CalculatePoCI(shares, loyalty, IF bonded THEN bond ELSE 0)
    PROVE  ContributionsAreNat
<1>1. ASSUME NEW shares \in Nat, NEW loyalty \in Nat, NEW bonded \in BOOLEAN
      PROVE  PoCI(shares, loyalty, bonded) \in Nat
  <2> DEFINE b == IF bonded THEN bond ELSE 0
  <2>1. b \in Nat /\ shares <= shares /\ loyalty <= loyalty /\ b <= b
    OBVIOUS
  <2> HIDE DEF b
  <2>2. CalculatePoCI(shares, loyalty, b) \in Nat
    BY <2>1, ContributionIsFair
  <2>3. PoCI(shares, loyalty, bonded) = CalculatePoCI(shares, loyalty, b)
    BY DEF b
  <2>4. QED
    BY <2>2, <2>3
<1>2. QED
    BY <1>1 DEF ContributionsAreNat
=============================================================================

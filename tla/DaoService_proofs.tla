------------------------- MODULE DaoService_proofs --------------------------
(***************************************************************************)
(* What the DAO service tells its members and counts in its tables agrees  *)
(* with what the contract has, for any number of members, deals, files,    *)
(* batches and transactions on their way.                                  *)
(*                                                                         *)
(* The tables know what was done on the chain only once the scanner has    *)
(* recorded it, and members act on answers of any age.  So the inductive   *)
(* invariant speaks of the queue between the two: what the contract has of *)
(* a member is what the tables have of it or the queue holds, no batch     *)
(* twice; and whatever a member was told stays right, because what it      *)
(* rests on (a vote by hash, an announcement, its record) is never undone. *)
(* That the number of signed files tells which batches are signed needs    *)
(* the batches to add up to the files: the lemmas on sums and lists.       *)
(***************************************************************************)
EXTENDS DaoService, FilswanOracleV2_proofs

-----------------------------------------------------------------------------
(* The files of a deal and the batches they come in.                       *)

\* A batch of a deal's files, their number, and the number of those in the first i.
Batch(d, i) == GetSourceFileUploadsByCarFileId(d, i)
Files(d) == Cardinality(CarFiles[d])
UpTo(d, i) == IF BatchSizeMax * i < Files(d) THEN BatchSizeMax * i ELSE Files(d)

\* There is exactly one file for every position, in the order of the ids.
LEMMA OrderedFiles ==
  ASSUME NEW d \in Keys
  PROVE  /\ Files(d) \in Nat \ {0}
         /\ Ordered[d] \in Seq(CarFiles[d]) /\ Len(Ordered[d]) = Files(d)
         /\ IsInjective(Ordered[d])
<1> DEFINE S == CarFiles[d]
           n == Cardinality(S)
           Below(x) == {y \in S : y <= x}
           rank == [x \in S |-> Cardinality(Below(x))]
<1>1. S \subseteq Nat /\ IsFiniteSet(S) /\ S # {}
  BY DaoAssumption
<1>2. n \in Nat /\ n # 0
  BY <1>1, FS_CardinalityType, FS_EmptySet
<1>3. \A x \in S : IsFiniteSet(Below(x)) /\ Cardinality(Below(x)) \in Nat
  BY <1>1, FS_Subset, FS_CardinalityType
<1>4. ASSUME NEW x \in S, NEW y \in S, x < y PROVE rank[x] < rank[y]
  <2>1. Below(x) \in SUBSET Below(y) /\ y \in Below(y) /\ y \notin Below(x)
    BY <1>1, <1>4
  <2>2. /\ Cardinality(Below(x)) <= Cardinality(Below(y))
        /\ Cardinality(Below(x)) # Cardinality(Below(y))
    <3> HIDE DEF Below
    <3> QED BY <1>3, <2>1, FS_Subset
  <2> HIDE DEF Below
  <2> QED
    BY <1>3, <2>2
<1>5. rank \in [S -> 1..n]
  <2> SUFFICES ASSUME NEW x \in S PROVE Cardinality(Below(x)) \in 1..n
    OBVIOUS
  <2>1. Below(x) \in SUBSET S /\ x \in Below(x)
    BY <1>1
  <2>2. Cardinality(Below(x)) <= n /\ Cardinality(Below(x)) # 0
    <3> HIDE DEF Below, S
    <3> QED BY <1>1, <1>3, <2>1, FS_Subset, FS_EmptySet
  <2> HIDE DEF Below
  <2> QED
    BY <1>2, <1>3, <2>2
<1>6. rank \in Injection(S, 1..n)
  <2> HIDE DEF rank
  <2>1. ASSUME NEW x \in S, NEW y \in S, rank[x] = rank[y] PROVE x = y
    <3>1. rank[x] \in Int /\ rank[y] \in Int /\ x \in Int /\ y \in Int
      BY <1>1, <1>5
    <3> QED
      BY <1>4, <2>1, <3>1
  <2> QED
    BY <1>5, <2>1 DEF Injection, IsInjective
<1>7. rank \in Surjection(S, 1..n)
  <2>1. IsFiniteSet(1..n) /\ Cardinality(1..n) = n
    BY <1>2, FS_Interval
  <2> HIDE DEF rank, S
  <2> QED
    BY <1>6, <2>1, FS_Injection
<1>8. \A i \in 1..n : \E x \in S : rank[x] = i
  BY <1>7 DEF Surjection
<1> HIDE DEF rank, n
<1> DEFINE f == [i \in 1..n |-> CHOOSE x \in S : rank[x] = i]
<1>9. \A i \in 1..n : f[i] \in S /\ rank[f[i]] = i
  BY <1>8
<1> HIDE DEF f
<1>10. \A i, j \in 1..n : i < j => f[i] < f[j]
  <2> SUFFICES ASSUME NEW i \in 1..n, NEW j \in 1..n, i < j PROVE f[i] < f[j]
    OBVIOUS
  <2>1. f[i] \in Int /\ f[j] \in Int /\ f[i] \in S /\ f[j] \in S
    BY <1>1, <1>9
  <2>2. CASE f[j] < f[i]
    <3>1. rank[f[j]] < rank[f[i]]
      BY <1>4, <2>1, <2>2
    <3> QED
      BY <1>9, <3>1
  <2>3. CASE f[j] = f[i]
    BY <1>9, <2>3
  <2> QED
    BY <2>1, <2>2, <2>3
<1>11. f \in [1..n -> S] /\ DOMAIN f = 1..n
  BY <1>9 DEF f
<1> DEFINE Sorted(g) == g \in [1..n -> S] /\ \A i, j \in DOMAIN g : i < j => g[i] < g[j]
<1>12. Ordered[d] = CHOOSE g \in [1..n -> S] : \A i, j \in DOMAIN g : i < j => g[i] < g[j]
  BY DEF Ordered, n
<1>13. Sorted(Ordered[d])
  <2>1. \E g \in [1..n -> S] : \A i, j \in DOMAIN g : i < j => g[i] < g[j]
    BY <1>10, <1>11
  <2> QED
    BY <1>12, <2>1
<1>14. Ordered[d] \in Seq(S) /\ Len(Ordered[d]) = n
  BY <1>2, <1>13
<1>15. IsInjective(Ordered[d])
  <2> SUFFICES ASSUME NEW i \in 1..n, NEW j \in 1..n, Ordered[d][i] = Ordered[d][j]
               PROVE  i = j
    BY <1>13 DEF IsInjective
  <2>1. i < j => Ordered[d][i] < Ordered[d][j]
    BY <1>13
  <2>2. j < i => Ordered[d][j] < Ordered[d][i]
    BY <1>13
  <2>3. Ordered[d][i] \in Int /\ i \in Int /\ j \in Int
    BY <1>1, <1>2, <1>13
  <2> QED
    BY <2>1, <2>2, <2>3
<1> QED
  BY <1>2, <1>14, <1>15 DEF Files, n

\* The number of batches is the least that holds all files, and it is announced.
LEMMA BatchCounts ==
  ASSUME NEW d \in Keys
  PROVE  /\ BatchCount(d) \in 1..MaxBatch
         /\ \A i \in Nat : i < BatchCount(d) <=> BatchSizeMax * i < Files(d)
<1> DEFINE b == BatchSizeMax
           n == Files(d)
           c == BatchCount(d)
<1>1. n \in Nat /\ n # 0 /\ b \in Nat /\ b # 0 /\ MaxBatch \in Nat /\ n <= b * MaxBatch
  BY OrderedFiles, OracleAssumption, DaoAssumption, BatchesAssumption DEF Files
<1>2. c = (n + b - 1) \div b
  BY DEF BatchCount, Files
<1> HIDE DEF n, b, c
<1>3. c \in Int /\ b * c <= n + b - 1 /\ n + b - 1 < b * c + b
  BY <1>1, <1>2
<1>4. ASSUME NEW i \in Nat, i < c PROVE b * i < n
  <2>1. b * (i + 1) <= b * c
    <3>1. PICK k \in Nat : c = (i + 1) + k
      <4>1. c - (i + 1) \in Nat /\ c = (i + 1) + (c - (i + 1))
        BY <1>3, <1>4
      <4> QED
        BY <4>1
    <3>2. b * c = b * (i + 1) + b * k /\ b * k \in Nat /\ b * (i + 1) \in Nat
      BY <1>1, <3>1
    <3> QED
      BY <3>2
  <2>2. b * (i + 1) = b * i + b /\ b * i \in Nat /\ b * c \in Int
    BY <1>1, <1>3
  <2> QED
    BY <1>1, <1>3, <2>1, <2>2
<1>5. ASSUME NEW i \in Nat, c <= i PROVE ~(b * i < n)
  <2>1. PICK k \in Nat : i = c + k
    <3>1. i - c \in Nat /\ i = c + (i - c)
      BY <1>3, <1>5
    <3> QED
      BY <3>1
  <2>2. b * i = b * c + b * k /\ b * k \in Nat /\ b * c \in Int
    BY <1>1, <1>3, <2>1
  <2> QED
    BY <1>1, <1>3, <2>2
<1>6. \A i \in Nat : i < c <=> b * i < n
  BY <1>3, <1>4, <1>5
<1>7. 0 < c
  <2>1. b * 0 = 0
    BY <1>1
  <2> QED
    BY <1>1, <1>3, <1>6, <2>1
<1>8. ~(MaxBatch < c)
  <2>1. b * MaxBatch \in Nat
    BY <1>1
  <2> QED
    BY <1>1, <1>6, <2>1
<1>9. c \in 1..MaxBatch
  BY <1>1, <1>3, <1>7, <1>8
<1> QED
  BY <1>6, <1>9 DEF b, n, c

\* The first batches are cut from the list one after the other.
LEMMA UpToFacts ==
  ASSUME NEW d \in Keys, NEW i \in Nat
  PROVE  /\ UpTo(d, i) \in 0..Files(d) /\ UpTo(d, i) <= UpTo(d, i + 1)
         /\ UpTo(d, 0) = 0
         /\ i < BatchCount(d) => UpTo(d, i) = BatchSizeMax * i /\ UpTo(d, i) < UpTo(d, i + 1)
         /\ BatchCount(d) <= i => UpTo(d, i) = Files(d)
<1> DEFINE b == BatchSizeMax
           n == Files(d)
<1>1. n \in Nat /\ n # 0 /\ b \in Nat /\ b # 0
  BY OrderedFiles, DaoAssumption DEF Files
<1>2. BatchCount(d) \in Nat /\ (i < BatchCount(d) <=> b * i < n)
  BY BatchCounts
<1>3. b * i \in Nat /\ b * (i + 1) = b * i + b /\ b * 0 = 0
  BY <1>1
<1> QED
  BY <1>1, <1>2, <1>3 DEF UpTo

\* What the query answers for a batch.
LEMMA BatchFacts ==
  ASSUME NEW d \in Keys, NEW i \in Nat
  PROVE  /\ Batch(d, i) \in Seq(CarFiles[d])
         /\ Batch(d, i) = SubSeq(Ordered[d], UpTo(d, i) + 1, UpTo(d, i + 1))
         /\ Len(Batch(d, i)) = UpTo(d, i + 1) - UpTo(d, i)
<1> DEFINE b == BatchSizeMax
           n == Files(d)
<1>1. /\ n \in Nat /\ b \in Nat
      /\ Ordered[d] \in Seq(CarFiles[d]) /\ Len(Ordered[d]) = n
      /\ \A j \in 1..n : Ordered[d][j] \in CarFiles[d]
  BY OrderedFiles, DaoAssumption DEF Files
<1>2. /\ UpTo(d, i) \in Nat /\ UpTo(d, i + 1) \in Nat
      /\ UpTo(d, i + 1) <= n /\ UpTo(d, i) <= UpTo(d, i + 1)
  <2>1. i + 1 \in Nat
    OBVIOUS
  <2>2. UpTo(d, i) \in 0..n /\ UpTo(d, i) <= UpTo(d, i + 1)
    BY UpToFacts
  <2>3. UpTo(d, i + 1) \in 0..n
    BY <2>1, UpToFacts
  <2> QED
    BY <1>1, <2>2, <2>3
<1>3. UpTo(d, i + 1) = IF b * (i + 1) < n THEN b * (i + 1) ELSE n
  BY DEF UpTo
<1>4. Batch(d, i) = SubSeq(Ordered[d], b * i + 1, UpTo(d, i + 1))
  BY <1>1, <1>3 DEF Batch, GetSourceFileUploadsByCarFileId
<1>5. Batch(d, i) = SubSeq(Ordered[d], UpTo(d, i) + 1, UpTo(d, i + 1))
  <2>1. CASE b * i < n
    BY <1>4, <2>1 DEF UpTo
  <2>2. CASE ~(b * i < n)
    <3>1. b * i \in Nat /\ UpTo(d, i) = n /\ UpTo(d, i + 1) = n
      BY <1>1, <1>2, <2>2 DEF UpTo
    <3>2. Batch(d, i) = <<>>
      BY <1>1, <1>4, <2>2, <3>1, SubSeqEmpty
    <3>3. SubSeq(Ordered[d], n + 1, n) = <<>>
      BY <1>1, SubSeqEmpty
    <3> QED
      BY <3>1, <3>2, <3>3
  <2> QED
    BY <2>1, <2>2
<1>6. \A j \in UpTo(d, i) + 1..UpTo(d, i + 1) : Ordered[d][j] \in CarFiles[d]
  BY <1>1, <1>2
<1> DEFINE from == UpTo(d, i) + 1
           to == UpTo(d, i + 1)
<1>7. from \in Int /\ to \in Int /\ \A j \in from..to : Ordered[d][j] \in CarFiles[d]
  BY <1>2, <1>6
<1>8. Len(Batch(d, i)) = to - from + 1 /\ Batch(d, i) \in Seq(CarFiles[d])
  <2>1. Batch(d, i) = SubSeq(Ordered[d], from, to)
    BY <1>5
  <2>2. from <= to + 1
    BY <1>2
  <2> HIDE DEF from, to
  <2>3. /\ SubSeq(Ordered[d], from, to) \in Seq(CarFiles[d])
        /\ Len(SubSeq(Ordered[d], from, to)) = IF from <= to THEN to - from + 1 ELSE 0
    <3> DEFINE s == Ordered[d]
               S == CarFiles[d]
    <3>1. \A j \in from..to : s[j] \in S
      BY <1>7
    <3> HIDE DEF s, S
    <3>2. /\ SubSeq(s, from, to) \in Seq(S)
          /\ Len(SubSeq(s, from, to)) = IF from <= to THEN to - from + 1 ELSE 0
      BY <1>7, <3>1, SubSeqProperties
    <3> QED
      BY <3>2 DEF s, S
  <2> QED
    BY <1>7, <2>1, <2>2, <2>3
<1> QED
  BY <1>2, <1>5, <1>8

\* The batches of a deal, joined as sign joins them, are the deal's files.
LEMMA BatchesAddUp ==
  ASSUME NEW d \in Keys, NEW batches \in [Batches -> BatchLists \cup {<<>>}],
         \A i \in Batches : batches[i] = Batch(d, i)
  PROVE  CidList(batches) = Ordered[d]
<1> DEFINE q == [i \in 1..MaxBatch |-> batches[i - 1]]
           S == CarFiles[d]
<1>1. MaxBatch \in Nat \ {0} /\ Len(q) = MaxBatch /\ \A i \in 1..MaxBatch : i - 1 \in Batches /\ i - 1 \in Nat
  BY OracleAssumption DEF Batches
<1>2. \A i \in 1..MaxBatch : q[i] = Batch(d, i - 1)
  BY <1>1
<1>3. CidList(batches) = Dedupe(FlattenSeq(q))
  BY DEF CidList, CidLists, Dedupe
<1> HIDE DEF q
<1>4. PICK g : IsJoined(g, q, MaxBatch) /\ FlattenSeq(q) = g[MaxBatch]
  BY <1>1, FlattenSteps
<1> DEFINE Good(i) == g[i] = SubSeq(Ordered[d], 1, UpTo(d, i))
           Bad == {i \in 1..MaxBatch : ~Good(i)}
<1>5. ASSUME NEW i \in Bad PROVE \E m \in Bad : m < i
  <2>1. CASE i = 1
    <3>1. 1 \in 1..MaxBatch /\ 0 + 1 = 1 /\ 1 - 1 = 0
      BY <1>1
    <3>2. Batch(d, 0) = SubSeq(Ordered[d], UpTo(d, 0) + 1, UpTo(d, 0 + 1)) /\ UpTo(d, 0) = 0
      BY BatchFacts, UpToFacts
    <3>3. Good(1)
      BY <1>2, <1>4, <3>1, <3>2 DEF IsJoined
    <3> QED
      BY <2>1, <3>3
  <2>2. CASE i # 1
    <3>1. i \in 2..MaxBatch /\ i - 1 \in 1..MaxBatch /\ i - 1 < i /\ i - 1 \in Nat /\ (i - 1) + 1 = i
      BY <1>1, <2>2
    <3>2. SUFFICES ASSUME Good(i - 1) PROVE Good(i)
      BY <3>1
    <3>3. q[i] = SubSeq(Ordered[d], UpTo(d, i - 1) + 1, UpTo(d, i))
      BY <1>2, <3>1, BatchFacts
    <3>4. g[i] = SubSeq(Ordered[d], 1, UpTo(d, i - 1)) \o SubSeq(Ordered[d], UpTo(d, i - 1) + 1, UpTo(d, i))
      BY <1>4, <3>1, <3>2, <3>3 DEF IsJoined
    <3>5. /\ UpTo(d, i - 1) \in Nat /\ UpTo(d, i) \in Nat
          /\ UpTo(d, i - 1) <= UpTo(d, i) /\ UpTo(d, i) <= Files(d)
      BY <3>1, UpToFacts, OrderedFiles
    <3>6. Ordered[d] \in Seq(S) /\ Len(Ordered[d]) = Files(d) /\ Files(d) \in Nat
      BY OrderedFiles
    <3>7. /\ UpTo(d, i - 1) \in 0..Len(Ordered[d]) /\ UpTo(d, i) \in UpTo(d, i - 1)..Len(Ordered[d])
      BY <3>5, <3>6
    <3>8. PICK one \in 1..Len(Ordered[d]) + 1 : one = 1
      BY <3>6
    <3>9. UpTo(d, i - 1) \in one - 1..Len(Ordered[d])
      BY <3>7, <3>8
    <3> HIDE DEF S
    <3>10. SubSeq(Ordered[d], one, UpTo(d, i - 1)) \o SubSeq(Ordered[d], UpTo(d, i - 1) + 1, UpTo(d, i))
             = SubSeq(Ordered[d], one, UpTo(d, i))
      BY <3>6, <3>7, <3>9, ConcatAdjacentSubSeq
    <3> QED
      BY <3>4, <3>8, <3>10
  <2> QED
    BY <2>1, <2>2
<1>6. Bad = {}
  <2>1. Bad \in SUBSET Nat
    OBVIOUS
  <2> HIDE DEF Bad
  <2> QED
    BY <1>5, <2>1, NaturalInduction
<1>7. UpTo(d, MaxBatch) = Files(d)
  <2>1. MaxBatch \in Nat /\ BatchCount(d) <= MaxBatch
    BY <1>1, BatchCounts
  <2> QED
    BY <2>1, UpToFacts
<1>8. FlattenSeq(q) = SubSeq(Ordered[d], 1, Files(d))
  <2>1. Good(MaxBatch)
    BY <1>1, <1>6
  <2> QED
    BY <1>4, <1>7, <2>1
<1>9. FlattenSeq(q) = Ordered[d]
  BY <1>8, OrderedFiles, SubSeqFull
<1> QED
  BY <1>3, <1>9, OrderedFiles, DedupeSame

-----------------------------------------------------------------------------
\* The numbers of files of a deal's batches.
Lens(d) == [i \in 0..(BatchCount(d) - 1) |-> Len(Batch(d, i))]
AllBatches(d) == 0..(BatchCount(d) - 1)

\* Every batch has files.
LEMMA LensType ==
  ASSUME NEW d \in Keys
  PROVE  /\ \A i \in AllBatches(d) : Lens(d)[i] \in Nat \ {0}
         /\ \A i \in AllBatches(d) : i \in Batches /\ i \in Nat /\ Lens(d)[i] = UpTo(d, i + 1) - UpTo(d, i)
         /\ IsFiniteSet(AllBatches(d))
<1>1. BatchCount(d) \in Nat /\ BatchCount(d) <= MaxBatch /\ MaxBatch \in Nat
  BY BatchCounts, OracleAssumption
<1>2. ASSUME NEW i \in AllBatches(d)
      PROVE  i \in Batches /\ i \in Nat /\ Lens(d)[i] = UpTo(d, i + 1) - UpTo(d, i) /\ Lens(d)[i] \in Nat \ {0}
  <2>1. i \in Batches /\ i \in Nat /\ i < BatchCount(d) /\ i + 1 \in Nat
    BY <1>1 DEF AllBatches, Batches
  <2>2. UpTo(d, i) < UpTo(d, i + 1) /\ UpTo(d, i) \in Nat /\ UpTo(d, i + 1) \in Nat
    BY <2>1, UpToFacts, OrderedFiles
  <2>3. Lens(d)[i] = UpTo(d, i + 1) - UpTo(d, i)
    BY <2>1, BatchFacts DEF Lens, AllBatches
  <2> QED
    BY <2>1, <2>2, <2>3
<1>3. IsFiniteSet(AllBatches(d))
  BY <1>1, FS_Interval DEF AllBatches
<1> QED
  BY <1>2, <1>3

\* Together the batches have all the files.
LEMMA LensAddUp ==
  ASSUME NEW d \in Keys
  PROVE  SumFunctionOnSet(Lens(d), AllBatches(d)) = Files(d)
<1> DEFINE c == BatchCount(d)
           Total(k) == SumFunctionOnSet(Lens(d), 0..(k - 1))
           Bad == {k \in 0..c : Total(k) # UpTo(d, k)}
<1>1. c \in Nat
  BY BatchCounts
<1>2. ASSUME NEW k \in Bad PROVE \E m \in Bad : m < k
  <2>1. CASE k = 0
    <3>1. 0..(0 - 1) = {}
      OBVIOUS
    <3> QED
      BY <2>1, <3>1, SumEmpty, UpToFacts
  <2>2. CASE k # 0
    <3>1. k - 1 \in 0..c /\ k - 1 < k /\ k - 1 \in AllBatches(d) /\ k - 1 \in Nat /\ (k - 1) + 1 = k
      BY <1>1, <2>2 DEF AllBatches
    <3>2. SUFFICES ASSUME Total(k - 1) = UpTo(d, k - 1) PROVE Total(k) = UpTo(d, k)
      BY <3>1
    <3> DEFINE S == 0..(k - 1)
    <3>3. /\ k - 1 \in S /\ S \ {k - 1} = 0..((k - 1) - 1) /\ S \subseteq AllBatches(d)
      BY <1>1, <3>1 DEF AllBatches
    <3>4. IsFiniteSet(S) /\ \A x \in S : Lens(d)[x] \in Int
      BY <3>3, LensType, FS_Subset
    <3> HIDE DEF S
    <3>5. SumFunctionOnSet(Lens(d), S) = Lens(d)[k - 1] + SumFunctionOnSet(Lens(d), S \ {k - 1})
      BY <3>3, <3>4, SumRemove
    <3>6. Lens(d)[k - 1] = UpTo(d, k) - UpTo(d, k - 1)
      BY <3>1, LensType
    <3>7. UpTo(d, k) \in Int /\ UpTo(d, k - 1) \in Int
      BY <3>1, UpToFacts, OrderedFiles
    <3>8. Total(k) = Lens(d)[k - 1] + Total(k - 1)
      BY <3>3, <3>5 DEF S
    <3> HIDE DEF Total
    <3> QED
      BY <3>2, <3>6, <3>7, <3>8
  <2> QED
    BY <2>1, <2>2
<1>3. Bad = {}
  <2>1. Bad \in SUBSET Nat
    OBVIOUS
  <2> HIDE DEF Bad
  <2> QED
    BY <1>2, <2>1, NaturalInduction
<1>4. Total(c) = UpTo(d, c) /\ UpTo(d, c) = Files(d)
  <2>1. c \in 0..c
    BY <1>1
  <2>2. UpTo(d, c) = Files(d)
    BY <1>1, UpToFacts
  <2> QED
    BY <1>3, <2>1, <2>2
<1> QED
  BY <1>4 DEF AllBatches

\* Some batches have at most all the files, and all only if they are all batches.
LEMMA SomeLens ==
  ASSUME NEW d \in Keys, NEW T \in SUBSET AllBatches(d)
  PROVE  /\ SumFunctionOnSet(Lens(d), T) \in 0..Files(d)
         /\ SumFunctionOnSet(Lens(d), T) = Files(d) => T = AllBatches(d)
<1> DEFINE S == AllBatches(d)
           f == Lens(d)
           h == [i \in S |-> IF i \in T THEN 0 ELSE f[i]]
<1>1. IsFiniteSet(S) /\ IsFiniteSet(T) /\ \A i \in S : f[i] \in Nat /\ f[i] \in Int /\ f[i] # 0
  BY LensType, FS_Subset
<1>2. SumFunctionOnSet(f, S) = Files(d) /\ Files(d) \in Nat
  BY LensAddUp, OrderedFiles
<1>3. PICK one \in Int : one = 1
  OBVIOUS
<1>4. (\A i \in T : h[i] = f[i] - one * f[i]) /\ (\A i \in S \ T : h[i] = f[i])
  BY <1>1, <1>3
<1>5. \A i \in S : h[i] \in Nat
  BY <1>1
<1>6. \A i \in S \ T : h[i] # 0
  BY <1>1
<1> HIDE DEF h, f, S
<1>7. SumFunctionOnSet(h, S) = SumFunctionOnSet(f, S) - one * SumFunctionOnSet(f, T)
  <2>1. T \in SUBSET S
    BY DEF S
  <2> QED
    BY <1>1, <1>4, <2>1, SumTake
<1>8. SumFunctionOnSet(h, S) \in Nat
  BY <1>1, <1>5, SumNat
<1>9. SumFunctionOnSet(f, T) \in Nat
  <2>1. \A i \in T : f[i] \in Nat
    BY <1>1 DEF S
  <2> QED
    BY <1>1, <2>1, SumNat
<1>10. ASSUME SumFunctionOnSet(f, T) = Files(d), NEW i \in S \ T PROVE FALSE
  <2>1. h[i] =< SumFunctionOnSet(h, S)
    BY <1>1, <1>5, SumTermAtMost
  <2>2. h[i] \in Nat /\ h[i] # 0
    BY <1>5, <1>6
  <2> QED
    BY <1>2, <1>3, <1>7, <1>10, <2>1, <2>2
<1>11. SumFunctionOnSet(f, T) \in 0..Files(d)
  BY <1>2, <1>3, <1>7, <1>8, <1>9
<1> QED
  BY <1>10, <1>11 DEF f, S

-----------------------------------------------------------------------------
(* The inductive invariant.                                                *)

\* The one ballot there is for a deal: the files of its car, for the one recipient.
Ballot(d) == [key |-> d, recipient |-> Recipient, list |-> Ordered[d]]

\* Members all of whose batches the contract has, and members who voted without.
Signers(d) == {m \in Members : txInfo[d][m].flag /\ txInfo[d][m].signStatus = {}}
VotedByHash(d, m) == <<Ballot(d), m>> \in userVoted /\ m \notin Signers(d)

\* A record of the contract has the batches it no longer waits for, from a member who
\* announced after another one had voted by hash.
InfoOK(d, m) ==
  LET info == txInfo[d][m]
  IN  /\ info.flag =>
           /\ info.recipient = Recipient /\ info.batch = BatchCount(d)
           /\ info.signStatus \subseteq AllBatches(d)
           /\ \E h \in Members : VotedByHash(d, h)
           /\ \A i \in Batches \ info.signStatus : info.batchCidList[i] = Batch(d, i)
      /\ ~info.flag => info.batchCidList = [i \in Batches |-> <<>>]

\* All votes are for the one ballot, and with enough votes it is published.
BallotsOK(d) ==
  /\ cidListMap[d] \in {<<>>, Ordered[d]}
  /\ cidListMap[d] = <<>> /\ Signers(d) # {} => Cardinality(Signers(d)) + 1 < threshold

ChainInv ==
  /\ OracleInv
  /\ \A v \in userVoted : v[1] = Ballot(v[1].key)
  /\ \A d \in Keys : BallotsOK(d)
  /\ \A d \in Keys, m \in Members : InfoOK(d, m)

\* The batches the tables have a signature of.
Counted(d, m) ==
  {i \in AllBatches(d) :
     \E s \in SignedBy(d, m) : s.batchNo = i /\ ~s.byHash /\ s.status = "Success"}

\* A row of dao_pre_sign counts the files of the batches the tables have, and the
\* contract has those and the ones on their way to the tables.
RowOK(d, m) ==
  LET row == preSign[d][m]
  IN  /\ row.status = "Success" =>
           /\ txInfo[d][m].flag
           /\ row.batchCount = BatchCount(d) /\ row.total = Files(d)
           /\ row.signed = SumFunctionOnSet(Lens(d), Counted(d, m))
      /\ row.status # "Success" => row.signed = 0 /\ Counted(d, m) = {}
      /\ txInfo[d][m].flag =>
           /\ row.status = "Success" \/ Announcing(d, m)
           /\ \A i \in AllBatches(d) :
                i \notin txInfo[d][m].signStatus <=> i \in Counted(d, m) \/ Waiting(d, m, i)

\* What a member was told stays right, however late it acts on it.
OfferOK(m, o) ==
  /\ o \in Offer
  /\ o.kind = "preSign" =>
       o.batch = BatchCount(o.deal) /\ \E h \in Members : VotedByHash(o.deal, h)
  /\ o.kind = "sign" =>
       /\ o.batch \in AllBatches(o.deal) /\ o.list = Batch(o.deal, o.batch)
       /\ preSign[o.deal][m].status = "Success"
  /\ o.kind = "signHash" => o.batch = NoBatch /\ o.list = Ordered[o.deal]

TxOK(tx) ==
  /\ tx \in Tx /\ OfferOK(tx.from, tx.offer)
  /\ tx.status = "Success" =>
       /\ tx.offer.kind = "preSign" => txInfo[tx.offer.deal][tx.from].flag
       /\ tx.offer.kind = "sign" => tx.offer.batch \notin Counted(tx.offer.deal, tx.from)
       /\ tx.offer.kind = "signHash" => VotedByHash(tx.offer.deal, tx.from)

SignatureOK(s) ==
  s \in SignatureRow /\ (s.byHash /\ s.status = "Success" => VotedByHash(s.deal, s.signer))

\* No batch is on its way twice.
NoneTwice ==
  \A j, k \in DOMAIN unscanned : \A d \in Keys, m \in Members, i \in Batches :
    IsBatch(unscanned[j], d, m, i) /\ IsBatch(unscanned[k], d, m, i) => j = k

TableInv ==
  /\ dealStatus \in [Keys -> {"Created", "Active", "Success"}]
  /\ preSign \in [Keys -> [Members -> PreSignRow]]
  /\ offers \in [Members -> SUBSET Offer]
  /\ failed \in 0..MaxFailed
  /\ unscanned \in Seq(Tx)
  /\ \A d \in Keys, m \in Members : RowOK(d, m)
  /\ \A s \in signature : SignatureOK(s)
  /\ \A m \in Members : \A o \in offers[m] : OfferOK(m, o)
  /\ \A tx \in Queued : TxOK(tx)
  /\ NoneTwice

DaoInv == ChainInv /\ TableInv

-----------------------------------------------------------------------------
(* The contract: every vote is for the deal's ballot.                      *)

\* The batches of a deal are lists the contract is given, and its files one it knows.
LEMMA DealLists ==
  ASSUME NEW d \in Keys
  PROVE  /\ \A i \in AllBatches(d) : i \in Batches /\ Batch(d, i) \in BatchLists
         /\ \A i \in Batches \ AllBatches(d) : Batch(d, i) = <<>>
         /\ Ordered[d] \in Lists /\ Ordered[d] # <<>>
         /\ Ballot(d) \in VoteKeys
<1>1. ASSUME NEW i \in AllBatches(d) PROVE i \in Batches /\ Batch(d, i) \in BatchLists
  <2>1. i \in Batches /\ Lens(d)[i] \in Nat \ {0}
    BY LensType
  <2>2. Len(Batch(d, i)) # 0
    BY <2>1 DEF Lens, AllBatches
  <2>3. Batch(d, i) \in BatchLists \cup {<<>>}
    BY <2>1, BatchesAssumption DEF Batch
  <2> QED
    BY <2>1, <2>2, <2>3
<1>2. ASSUME NEW i \in Batches \ AllBatches(d) PROVE Batch(d, i) = <<>>
  <2>1. i \in Nat /\ i + 1 \in Nat /\ BatchCount(d) <= i /\ BatchCount(d) <= i + 1
    BY <1>2, BatchCounts, OracleAssumption DEF AllBatches, Batches
  <2>2. UpTo(d, i) = Files(d) /\ UpTo(d, i + 1) = Files(d) /\ Files(d) \in Nat
    BY <2>1, UpToFacts, OrderedFiles
  <2>3. Batch(d, i) \in Seq(CarFiles[d]) /\ Len(Batch(d, i)) = 0
    BY <2>1, <2>2, BatchFacts
  <2> QED
    BY <2>3, EmptySeq
<1>3. Ordered[d] \in Lists
  <2> DEFINE all == [i \in Batches |-> Batch(d, i)]
  <2>1. all \in [Batches -> BatchLists \cup {<<>>}] /\ \A i \in Batches : all[i] = Batch(d, i)
    BY BatchesAssumption DEF Batch
  <2> HIDE DEF all
  <2>2. CidList(all) = Ordered[d]
    BY <2>1, BatchesAddUp
  <2> QED
    BY <2>1, <2>2, ListsAssumption
<1>4. Ordered[d] # <<>>
  BY OrderedFiles
<1> QED
  BY <1>1, <1>2, <1>3, <1>4, DaoAssumption DEF Ballot, VoteKeys

\* What is true of the contract and stays true: votes by hash and announcements.
ChainKept ==
  /\ \A d \in Keys, h \in Members : VotedByHash(d, h) => VotedByHash(d, h)'
  /\ \A d \in Keys, m \in Members : txInfo[d][m].flag => txInfo'[d][m].flag

\* Members with all batches signed have voted for the deal's ballot.
LEMMA SignersVoted ==
  ASSUME ChainInv, NEW d \in Keys, NEW m \in Signers(d)
  PROVE  <<Ballot(d), m>> \in userVoted
<1>1. m \in Members /\ txInfo[d][m].flag /\ txInfo[d][m].signStatus = {}
  BY DEF Signers
<1> DEFINE vk == [key |-> d, recipient |-> txInfo[d][m].recipient,
                  list |-> CidList(txInfo[d][m].batchCidList)]
<1>2. <<vk, m>> \in userVoted
  BY <1>1 DEF ChainInv, OracleInv, SignedIsVoted
<1>3. <<vk, m>>[1] = vk /\ vk.key = d
  OBVIOUS
<1>4. vk = Ballot(d)
  BY <1>2, <1>3 DEF ChainInv
<1> QED
  BY <1>2, <1>4

\* As long as the records and the votes stay, so does what is known of them.
LEMMA ChainSame ==
  ASSUME ChainInv, OracleInv', UNCHANGED <<threshold, txInfo, ballotBox>>
  PROVE  ChainInv' /\ ChainKept
<1> USE DEF ballotBox
<1>1. \A d \in Keys : Signers(d)' = Signers(d)
  BY DEF Signers
<1>2. \A d \in Keys, m \in Members : VotedByHash(d, m)' <=> VotedByHash(d, m)
  BY <1>1 DEF VotedByHash, Ballot
<1>3. \A d \in Keys : BallotsOK(d)'
  BY <1>1 DEF BallotsOK, ChainInv
<1>4. \A d \in Keys, m \in Members : InfoOK(d, m)'
  BY <1>2 DEF InfoOK, ChainInv
<1>5. \A v \in userVoted' : v[1] = Ballot(v[1].key)
  BY DEF ChainInv
<1> QED
  BY <1>2, <1>3, <1>4, <1>5 DEF ChainInv, ChainKept, Ballot

\* An announcement, after a vote by hash.
LEMMA ChainPreSign ==
  ASSUME ChainInv, NEW m \in Members, NEW d \in Keys,
         \E h \in Members : VotedByHash(d, h), PreSign(m, d, Recipient, BatchCount(d))
  PROVE  ChainInv' /\ ChainKept /\ OracleNext
<1> DEFINE info == [txInfo[d][m] EXCEPT !.flag = TRUE, !.recipient = Recipient,
                      !.batch = BatchCount(d), !.signStatus = 0..(BatchCount(d) - 1)]
<1>1. BatchCount(d) \in 1..MaxBatch /\ Recipient \in Recipients
  BY BatchCounts, DaoAssumption
<1>2. OracleInv' /\ OracleNext
  BY <1>1, PreSignInv DEF ChainInv, OracleNext
<1>3. txInfo \in [Keys -> [Members -> TxOracleInfo]] /\ txInfo[d][m] \in TxOracleInfo
  BY DEF ChainInv, OracleInv, OracleTypeOK
<1>4. /\ txInfo' = [txInfo EXCEPT ![d][m] = info]
      /\ ~txInfo[d][m].flag
      /\ UNCHANGED <<admin, ballotBox>>
  BY DEF PreSign
<1>5. /\ info.flag = TRUE /\ info.recipient = Recipient /\ info.batch = BatchCount(d)
      /\ info.signStatus = AllBatches(d) /\ info.signStatus # {}
      /\ info.batchCidList = txInfo[d][m].batchCidList
  <2>1. 0 \in AllBatches(d)
    BY <1>1 DEF AllBatches
  <2>2. /\ info.flag = TRUE /\ info.recipient = Recipient /\ info.batch = BatchCount(d)
        /\ info.signStatus = 0..(BatchCount(d) - 1)
        /\ info.batchCidList = txInfo[d][m].batchCidList
    BY <1>3 DEF TxOracleInfo
  <2> QED
    BY <2>1, <2>2 DEF AllBatches
<1>6. /\ txInfo'[d][m] = info
      /\ \A e \in Keys, n \in Members : e # d \/ n # m => txInfo'[e][n] = txInfo[e][n]
  BY <1>3, <1>4
<1> HIDE DEF info
<1>7. \A e \in Keys : Signers(e)' = Signers(e)
  <2> SUFFICES ASSUME NEW e \in Keys, NEW n \in Members
               PROVE  n \in Signers(e)' <=> n \in Signers(e)
    BY DEF Signers
  <2>1. CASE e = d /\ n = m
    BY <1>4, <1>5, <1>6, <2>1 DEF Signers
  <2>2. CASE e # d \/ n # m
    BY <1>6, <2>2 DEF Signers
  <2> QED
    BY <2>1, <2>2
<1>8. UNCHANGED <<userVoted, cidListMap, threshold>>
  BY <1>4 DEF ballotBox, admin
<1>9. \A e \in Keys, h \in Members : VotedByHash(e, h)' <=> VotedByHash(e, h)
  BY <1>7, <1>8 DEF VotedByHash, Ballot
<1>10. \A e \in Keys : BallotsOK(e)'
  BY <1>7, <1>8 DEF BallotsOK, ChainInv
<1>11. ASSUME NEW e \in Keys, NEW n \in Members PROVE InfoOK(e, n)'
  <2>1. CASE e = d /\ n = m
    <3>1. \A i \in Batches \ AllBatches(d) : info.batchCidList[i] = Batch(d, i)
      <4> SUFFICES ASSUME NEW i \in Batches \ AllBatches(d) PROVE info.batchCidList[i] = Batch(d, i)
        OBVIOUS
      <4>1. txInfo[d][m].batchCidList = [j \in Batches |-> <<>>]
        BY <1>4 DEF ChainInv, InfoOK
      <4> QED
        BY <1>5, <4>1, DealLists
    <3>2. \E h \in Members : VotedByHash(d, h)'
      BY <1>9
    <3> QED
      BY <1>5, <1>6, <2>1, <3>1, <3>2 DEF InfoOK
  <2>2. CASE e # d \/ n # m
    BY <1>6, <1>9, <2>2 DEF InfoOK, ChainInv
  <2> QED
    BY <2>1, <2>2
<1>12. \A v \in userVoted' : v[1] = Ballot(v[1].key)
  BY <1>8 DEF ChainInv
<1>13. \A e \in Keys, n \in Members : txInfo[e][n].flag => txInfo'[e][n].flag
  BY <1>5, <1>6
<1> QED
  BY <1>2, <1>9, <1>10, <1>11, <1>12, <1>13 DEF ChainInv, ChainKept, Ballot

\* One more than some members are at least as many.
LEMMA OneMore ==
  ASSUME NEW S \in SUBSET Members, NEW h \in Members \ S, NEW V \in SUBSET Members,
         S \subseteq V, h \in V
  PROVE  Cardinality(S) + 1 <= Cardinality(V) /\ Cardinality(S) \in Nat /\ Cardinality(V) \in Nat
<1>1. IsFiniteSet(S) /\ IsFiniteSet(V)
  BY FS_Subset, OracleAssumption
<1>2. Cardinality(S \cup {h}) = Cardinality(S) + 1 /\ IsFiniteSet(S \cup {h})
  BY <1>1, FS_AddElement
<1>3. S \cup {h} \in SUBSET V
  OBVIOUS
<1>4. Cardinality(S \cup {h}) <= Cardinality(V)
  BY <1>1, <1>3, FS_Subset
<1> QED
  BY <1>1, <1>2, <1>4, FS_CardinalityType

\* A vote for the ballot of a deal.
LEMMA BallotCast ==
  ASSUME ChainInv, NEW m \in Members, NEW d \in Keys, NEW known \in {<<>>, Ordered[d]},
         NEW mayPublish, CastVote(m, Ballot(d), known, mayPublish)
  PROVE  /\ \A v \in userVoted' : v[1] = Ballot(v[1].key)
         /\ userVoted' = userVoted \cup {<<Ballot(d), m>>} /\ <<Ballot(d), m>> \notin userVoted
         /\ \A e \in Keys : cidListMap'[e] \in {<<>>, Ordered[e]}
         /\ \A e \in Keys : cidListMap'[e] = <<>> => cidListMap[e] = <<>>
         /\ mayPublish /\ known # <<>> /\ filink /\ cidListMap'[d] = <<>>
              => ~(txVoteMap'[Ballot(d)] >= threshold)
<1> DEFINE vk == Ballot(d)
<1>1. vk \in VoteKeys /\ vk.key = d /\ vk.list = Ordered[d] /\ Ordered[d] # <<>>
  BY DealLists DEF Ballot
<1>2. /\ <<vk, m>> \notin userVoted
      /\ userVoted' = userVoted \cup {<<vk, m>>}
      /\ \/ UNCHANGED cidListMap /\ ~(mayPublish /\ txVoteMap'[vk] >= threshold /\ filink /\ known # <<>>)
         \/ cidListMap' = [cidListMap EXCEPT ![vk.key] = known] /\ known # <<>>
  BY DEF CastVote
<1>3. vk = Ballot(vk.key)
  BY <1>1
<1> HIDE DEF vk
<1>4. \A v \in userVoted' : v[1] = Ballot(v[1].key)
  <2> SUFFICES ASSUME NEW v \in userVoted' PROVE v[1] = Ballot(v[1].key)
    OBVIOUS
  <2>1. CASE v \in userVoted
    BY <2>1 DEF ChainInv
  <2>2. CASE v = <<vk, m>>
    BY <1>3, <2>2
  <2> QED
    BY <1>2, <2>1, <2>2
<1>5. /\ cidListMap \in [Keys -> Lists]
      /\ \A e \in Keys : cidListMap[e] \in {<<>>, Ordered[e]}
  BY DEF ChainInv, BallotsOK, OracleInv, OracleTypeOK
<1>6. ASSUME NEW e \in Keys
      PROVE  /\ cidListMap'[e] \in {<<>>, Ordered[e]}
             /\ cidListMap'[e] = <<>> => cidListMap[e] = <<>>
  BY <1>1, <1>2, <1>5
<1>7. mayPublish /\ known # <<>> /\ filink /\ cidListMap'[d] = <<>> => ~(txVoteMap'[vk] >= threshold)
  BY <1>1, <1>2, <1>5
<1> QED
  BY <1>2, <1>4, <1>6, <1>7 DEF vk

\* A vote by hash.
LEMMA ChainSignHash ==
  ASSUME ChainInv, NEW m \in Members, NEW d \in Keys, SignHash(m, Ballot(d))
  PROVE  ChainInv' /\ ChainKept /\ OracleNext /\ VotedByHash(d, m)'
<1>1. Ballot(d) \in VoteKeys /\ Ballot(d).key = d /\ Ballot(d).list = Ordered[d]
  BY DealLists DEF Ballot
<1>2. OracleInv' /\ OracleNext
  BY <1>1, SignHashInv DEF ChainInv, OracleNext
<1> DEFINE known == voteKeyCidList[Ballot(d)]
           may == txInfo[Ballot(d).key][m].signStatus = {}
<1>3. CastVote(m, Ballot(d), known, may) /\ UNCHANGED <<admin, txInfo, voteKeyCidList>>
  BY DEF SignHash
<1>4. known \in {<<>>, Ordered[d]}
  BY <1>1 DEF ChainInv, OracleInv, KnownListsAreTheirs
<1> HIDE DEF known, may
<1>5. /\ \A v \in userVoted' : v[1] = Ballot(v[1].key)
      /\ userVoted' = userVoted \cup {<<Ballot(d), m>>} /\ <<Ballot(d), m>> \notin userVoted
      /\ \A e \in Keys : cidListMap'[e] \in {<<>>, Ordered[e]}
      /\ \A e \in Keys : cidListMap'[e] = <<>> => cidListMap[e] = <<>>
  BY <1>3, <1>4, BallotCast
<1>6. \A e \in Keys : Signers(e)' = Signers(e)
  BY <1>3 DEF Signers
<1>7. \A e \in Keys, h \in Members : VotedByHash(e, h) => VotedByHash(e, h)'
  BY <1>5, <1>6 DEF VotedByHash, Ballot
<1>8. m \notin Signers(d)
  BY <1>5, SignersVoted
<1>9. VotedByHash(d, m)'
  BY <1>5, <1>6, <1>8 DEF VotedByHash, Ballot
<1>10. \A e \in Keys : BallotsOK(e)'
  BY <1>3, <1>5, <1>6 DEF BallotsOK, ChainInv, admin
<1>11. \A e \in Keys, n \in Members : InfoOK(e, n)'
  BY <1>3, <1>7 DEF InfoOK, ChainInv
<1>12. \A e \in Keys, n \in Members : txInfo[e][n].flag => txInfo'[e][n].flag
  BY <1>3
<1> QED
  BY <1>2, <1>5, <1>7, <1>9, <1>10, <1>11, <1>12 DEF ChainInv, ChainKept, Ballot

\* A batch, and with the last one the vote for the deal's ballot.
LEMMA ChainSign ==
  ASSUME ChainInv, filink, NEW m \in Members, NEW d \in Keys, NEW i \in AllBatches(d),
         Sign(m, d, Batch(d, i), i)
  PROVE  /\ ChainInv' /\ ChainKept /\ OracleNext
         /\ txInfo[d][m].flag /\ i \in txInfo[d][m].signStatus
         /\ txInfo'[d][m].signStatus = txInfo[d][m].signStatus \ {i}
         /\ \A e \in Keys, n \in Members : e # d \/ n # m => txInfo'[e][n] = txInfo[e][n]
<1> DEFINE info == [txInfo[d][m] EXCEPT !.signStatus = @ \ {i}, !.batchCidList[i] = Batch(d, i)]
           list == CidList(info.batchCidList)
           vk == [key |-> d, recipient |-> info.recipient, list |-> list]
<1>1. i \in Batches /\ Batch(d, i) \in BatchLists
  BY DealLists
<1>2. OracleInv' /\ OracleNext
  BY <1>1, SignInv DEF ChainInv, OracleNext
<1>3. /\ txInfo \in [Keys -> [Members -> TxOracleInfo]] /\ txInfo[d][m] \in TxOracleInfo
      /\ InfoOK(d, m)
  BY DEF ChainInv, OracleInv, OracleTypeOK
<1>4. /\ txInfo[d][m].flag /\ i \in txInfo[d][m].signStatus
      /\ txInfo' = [txInfo EXCEPT ![d][m] = info]
      /\ IF info.signStatus = {} THEN CastVote(m, vk, list, TRUE) ELSE UNCHANGED ballotBox
      /\ UNCHANGED admin
  BY DEF Sign
<1>5. /\ info.flag /\ info.recipient = Recipient /\ info.batch = BatchCount(d)
      /\ info.signStatus = txInfo[d][m].signStatus \ {i}
      /\ info.signStatus \subseteq AllBatches(d)
      /\ info.batchCidList \in [Batches -> BatchLists \cup {<<>>}]
      /\ \A j \in Batches \ info.signStatus : info.batchCidList[j] = Batch(d, j)
  <2>1. /\ info.flag = txInfo[d][m].flag /\ info.recipient = txInfo[d][m].recipient
        /\ info.batch = txInfo[d][m].batch
        /\ info.signStatus = txInfo[d][m].signStatus \ {i}
        /\ info.batchCidList = [txInfo[d][m].batchCidList EXCEPT ![i] = Batch(d, i)]
    BY <1>3 DEF TxOracleInfo
  <2>2. txInfo[d][m].batchCidList \in [Batches -> BatchLists \cup {<<>>}]
    BY <1>3 DEF TxOracleInfo
  <2> HIDE DEF info
  <2>3. info.batchCidList \in [Batches -> BatchLists \cup {<<>>}]
    BY <1>1, <2>1, <2>2
  <2>4. ASSUME NEW j \in Batches \ info.signStatus PROVE info.batchCidList[j] = Batch(d, j)
    <3>1. CASE j = i
      BY <2>1, <2>2, <3>1
    <3>2. CASE j # i
      <4>1. j \in Batches \ txInfo[d][m].signStatus
        BY <2>1, <3>2
      <4>2. txInfo[d][m].batchCidList[j] = Batch(d, j)
        BY <1>3, <1>4, <4>1 DEF InfoOK
      <4> QED
        BY <2>1, <2>2, <3>2, <4>2
    <3> QED
      BY <3>1, <3>2
  <2> QED
    BY <1>3, <1>4, <2>1, <2>3, <2>4 DEF InfoOK
<1>6. /\ txInfo'[d][m] = info
      /\ \A e \in Keys, n \in Members : e # d \/ n # m => txInfo'[e][n] = txInfo[e][n]
  BY <1>3, <1>4
<1>7. info.signStatus = {} => vk = Ballot(d) /\ list = Ordered[d]
  <2> SUFFICES ASSUME info.signStatus = {} PROVE vk = Ballot(d) /\ list = Ordered[d]
    OBVIOUS
  <2>1. \A j \in Batches : info.batchCidList[j] = Batch(d, j)
    BY <1>5
  <2>2. info.batchCidList \in [Batches -> BatchLists \cup {<<>>}] /\ info.recipient = Recipient
    BY <1>5
  <2> HIDE DEF info
  <2>3. CidList(info.batchCidList) = Ordered[d]
    BY <2>1, <2>2, BatchesAddUp
  <2> QED
    BY <2>2, <2>3 DEF Ballot
<1> HIDE DEF info, list, vk
<1>8. Signers(d)' = IF info.signStatus = {} THEN Signers(d) \cup {m} ELSE Signers(d)
  <2> SUFFICES ASSUME NEW n \in Members
               PROVE  n \in Signers(d)' <=> n \in IF info.signStatus = {} THEN Signers(d) \cup {m}
                                                  ELSE Signers(d)
    BY DEF Signers
  <2>1. CASE n = m
    BY <1>4, <1>5, <1>6, <2>1 DEF Signers
  <2>2. CASE n # m
    BY <1>6, <2>2 DEF Signers
  <2> QED
    BY <2>1, <2>2
<1>9. \A e \in Keys \ {d} : Signers(e)' = Signers(e)
  BY <1>6 DEF Signers
<1>10. PICK h \in Members : VotedByHash(d, h)
  BY <1>3, <1>4 DEF InfoOK
<1>11. UNCHANGED threshold
  BY <1>4 DEF admin
<1>12. /\ \A v \in userVoted' : v[1] = Ballot(v[1].key)
       /\ \A e \in Keys, n \in Members : VotedByHash(e, n) => VotedByHash(e, n)'
       /\ \A e \in Keys : BallotsOK(e)'
  <2>1. CASE info.signStatus # {}
    <3>1. UNCHANGED <<userVoted, cidListMap>>
      BY <1>4, <2>1 DEF ballotBox
    <3>2. \A e \in Keys : Signers(e)' = Signers(e)
      BY <1>8, <1>9, <2>1
    <3>3. \A v \in userVoted' : v[1] = Ballot(v[1].key)
      BY <3>1 DEF ChainInv
    <3>4. \A e \in Keys, n \in Members : VotedByHash(e, n) => VotedByHash(e, n)'
      BY <3>1, <3>2 DEF VotedByHash, Ballot
    <3>5. \A e \in Keys : BallotsOK(e)'
      BY <1>11, <3>1, <3>2 DEF BallotsOK, ChainInv
    <3> QED
      BY <3>3, <3>4, <3>5
  <2>2. CASE info.signStatus = {}
    <3>1. CastVote(m, Ballot(d), Ordered[d], TRUE)
      BY <1>4, <1>7, <2>2
    <3>2. /\ \A v \in userVoted' : v[1] = Ballot(v[1].key)
          /\ userVoted' = userVoted \cup {<<Ballot(d), m>>} /\ <<Ballot(d), m>> \notin userVoted
          /\ \A e \in Keys : cidListMap'[e] \in {<<>>, Ordered[e]}
          /\ \A e \in Keys : cidListMap'[e] = <<>> => cidListMap[e] = <<>>
          /\ Ordered[d] # <<>> /\ filink /\ cidListMap'[d] = <<>>
               => ~(txVoteMap'[Ballot(d)] >= threshold)
      <4>1. \A known \in {<<>>, Ordered[d]} : \A mayPublish :
              CastVote(m, Ballot(d), known, mayPublish) =>
                /\ \A v \in userVoted' : v[1] = Ballot(v[1].key)
                /\ userVoted' = userVoted \cup {<<Ballot(d), m>>} /\ <<Ballot(d), m>> \notin userVoted
                /\ \A e \in Keys : cidListMap'[e] \in {<<>>, Ordered[e]}
                /\ \A e \in Keys : cidListMap'[e] = <<>> => cidListMap[e] = <<>>
                /\ mayPublish /\ known # <<>> /\ filink /\ cidListMap'[d] = <<>>
                     => ~(txVoteMap'[Ballot(d)] >= threshold)
        BY BallotCast
      <4> QED
        BY <3>1, <4>1
    <3>3. Signers(d)' = Signers(d) \cup {m}
      BY <1>8, <2>2
    <3>4. ASSUME NEW e \in Keys, NEW n \in Members, VotedByHash(e, n) PROVE VotedByHash(e, n)'
      <4>1. <<Ballot(e), n>> \in userVoted /\ n \notin Signers(e)
        BY <3>4 DEF VotedByHash
      <4>2. n \notin Signers(e)'
        <5>1. CASE e = d
          BY <3>2, <3>3, <4>1, <5>1
        <5>2. CASE e # d
          BY <1>9, <4>1, <5>2
        <5> QED
          BY <5>1, <5>2
      <4> QED
        BY <3>2, <4>1, <4>2 DEF VotedByHash, Ballot
    <3>5. ASSUME cidListMap'[d] = <<>> PROVE Cardinality(Signers(d)') + 1 < threshold
      <4> DEFINE V == {n \in Members : <<Ballot(d), n>> \in userVoted'}
      <4>1. ~(txVoteMap'[Ballot(d)] >= threshold)
        BY <3>2, <3>5, DealLists
      <4>2. txVoteMap'[Ballot(d)] = Cardinality(V)
        BY <1>2, DealLists DEF OracleInv, VotesAreVoters
      <4>3. Signers(d)' \in SUBSET Members /\ h \in Members \ Signers(d)'
        BY <1>10, <3>4 DEF VotedByHash, Signers
      <4>4. Signers(d)' \subseteq V /\ h \in V /\ V \in SUBSET Members
        BY <1>10, <3>2, <3>3, SignersVoted DEF Signers, VotedByHash
      <4> HIDE DEF V
      <4>5. /\ Cardinality(Signers(d)') + 1 <= Cardinality(V)
            /\ Cardinality(Signers(d)') \in Nat /\ Cardinality(V) \in Nat
        BY <4>3, <4>4, OneMore
      <4>6. threshold \in Nat
        BY OracleAssumption DEF ChainInv, OracleInv, OracleTypeOK
      <4> QED
        BY <4>1, <4>2, <4>5, <4>6
    <3>6. ASSUME NEW e \in Keys PROVE BallotsOK(e)'
      <4>1. CASE e = d
        BY <1>11, <3>2, <3>5, <4>1 DEF BallotsOK
      <4>2. CASE e # d
        BY <1>9, <1>11, <3>2, <4>2 DEF BallotsOK, ChainInv
      <4> QED
        BY <4>1, <4>2
    <3> QED
      BY <3>2, <3>4, <3>6
  <2> QED
    BY <2>1, <2>2
<1>13. ASSUME NEW e \in Keys, NEW n \in Members PROVE InfoOK(e, n)'
  <2>1. CASE e = d /\ n = m
    <3>1. VotedByHash(d, h)'
      BY <1>10, <1>12
    <3> QED
      BY <1>5, <1>6, <2>1, <3>1 DEF InfoOK
  <2>2. CASE e # d \/ n # m
    <3>1. InfoOK(e, n) /\ txInfo'[e][n] = txInfo[e][n]
      BY <1>6, <2>2 DEF ChainInv
    <3> QED
      BY <1>12, <3>1 DEF InfoOK
  <2> QED
    BY <2>1, <2>2
<1>14. \A e \in Keys, n \in Members : txInfo[e][n].flag => txInfo'[e][n].flag
  BY <1>5, <1>6
<1> QED
  BY <1>2, <1>4, <1>5, <1>6, <1>12, <1>13, <1>14 DEF ChainInv, ChainKept, Ballot

-----------------------------------------------------------------------------
(* The tables and the queue: frames, answers, and the queue itself.        *)

\* No announcement is taken out of the tables.
RowsStay ==
  \A d \in Keys, m \in Members :
    preSign[d][m].status = "Success" => preSign'[d][m].status = "Success"

\* What was right to tell a member stays right.
LEMMA OfferKept ==
  ASSUME ChainKept, RowsStay, NEW m \in Members, NEW o, OfferOK(m, o)
  PROVE  OfferOK(m, o)'
<1>1. o \in Offer /\ o.deal \in Keys
  BY DEF OfferOK, Offer
<1>2. (\E h \in Members : VotedByHash(o.deal, h)) => \E h \in Members : VotedByHash(o.deal, h)'
  BY <1>1 DEF ChainKept
<1> QED
  BY <1>1, <1>2 DEF OfferOK, RowsStay

\* A transaction stays what it is, as long as its batch has not been counted.
LEMMA TxKept ==
  ASSUME ChainKept, RowsStay, NEW tx, TxOK(tx),
         tx.status = "Success" /\ tx.offer.kind = "sign"
           => tx.offer.batch \notin Counted(tx.offer.deal, tx.from)'
  PROVE  TxOK(tx)'
<1>1. tx \in Tx /\ tx.from \in Members /\ tx.offer \in Offer /\ tx.offer.deal \in Keys
  BY DEF TxOK, Tx, Offer
<1>2. OfferOK(tx.from, tx.offer)'
  BY <1>1, OfferKept DEF TxOK
<1> QED
  BY <1>1, <1>2 DEF TxOK, ChainKept

\* A row goes on saying what was done on the chain.
LEMMA SignatureKept ==
  ASSUME ChainKept, NEW s, SignatureOK(s)
  PROVE  SignatureOK(s)'
<1>1. s \in SignatureRow /\ s.deal \in Keys /\ s.signer \in Members
  BY DEF SignatureOK, SignatureRow
<1> QED
  BY <1>1 DEF SignatureOK, ChainKept

\* Without a new signature no batch is counted.
LEMMA CountedSame ==
  ASSUME UNCHANGED signature
  PROVE  \A d \in Keys, m \in Members : Counted(d, m)' = Counted(d, m)
BY DEF Counted, SignedBy

\* Nothing happens on the chain.
LEMMA ChainIdle ==
  ASSUME ChainInv, UNCHANGED oracleVars
  PROVE  ChainInv' /\ ChainKept
<1>1. OracleInv'
  BY OracleStepInv DEF ChainInv
<1> QED
  BY <1>1, ChainSame DEF oracleVars, admin

\* A step that changes neither the chain nor the queue nor the rows.
LEMMA TableIdle ==
  ASSUME TableInv, ChainKept, UNCHANGED <<preSign, signature, unscanned, failed, txInfo>>,
         dealStatus' \in [Keys -> {"Created", "Active", "Success"}],
         offers' \in [Members -> SUBSET Offer],
         \A m \in Members : \A o \in offers'[m] : OfferOK(m, o)
  PROVE  TableInv'
<1>1. RowsStay
  BY DEF RowsStay
<1>2. \A d \in Keys, m \in Members : Counted(d, m)' = Counted(d, m)
  BY CountedSame
<1>3. \A d \in Keys, m \in Members : RowOK(d, m)'
  BY <1>2 DEF RowOK, Announcing, Waiting, Queued, TableInv
<1>4. ASSUME NEW s \in signature' PROVE SignatureOK(s)'
  BY SignatureKept DEF TableInv
<1>5. ASSUME NEW m \in Members, NEW o \in offers'[m] PROVE OfferOK(m, o)'
  BY <1>1, OfferKept
<1>6. ASSUME NEW tx \in Queued' PROVE TxOK(tx)'
  <2>1. TxOK(tx)
    BY DEF Queued, TableInv
  <2>2. tx.from \in Members /\ tx.offer.deal \in Keys
    BY <2>1 DEF TxOK, Tx, Offer
  <2>3. Counted(tx.offer.deal, tx.from)' = Counted(tx.offer.deal, tx.from)
    BY <1>2, <2>2
  <2> QED
    BY <1>1, <2>1, <2>3, TxKept DEF TxOK
<1>7. NoneTwice'
  BY DEF NoneTwice, TableInv
<1> QED
  BY <1>3, <1>4, <1>5, <1>6, <1>7 DEF TableInv

\* An answer of the service.
LEMMA ToldInv ==
  ASSUME DaoInv, NEW m \in Members, NEW kind, NEW answer,
         \A o \in answer : OfferOK(m, o), Told(m, kind, answer)
  PROVE  DaoInv'
<1>1. /\ offers' = [offers EXCEPT ![m] = {o \in offers[m] : o.kind # kind} \cup answer]
      /\ UNCHANGED <<daoRows, failed, unscanned, oracleVars>>
  BY DEF Told
<1>2. ChainInv' /\ ChainKept
  BY <1>1, ChainIdle DEF DaoInv
<1>3. offers \in [Members -> SUBSET Offer] /\ \A n \in Members : \A o \in offers[n] : OfferOK(n, o)
  BY DEF DaoInv, TableInv
<1>4. \A o \in answer : o \in Offer
  BY DEF OfferOK
<1>5. offers' \in [Members -> SUBSET Offer]
  BY <1>1, <1>3, <1>4
<1>6. \A n \in Members : \A o \in offers'[n] : OfferOK(n, o)
  BY <1>1, <1>3
<1>7. TableInv'
  BY <1>1, <1>2, <1>5, <1>6, TableIdle DEF DaoInv, TableInv, daoRows, oracleVars
<1> QED
  BY <1>2, <1>7 DEF DaoInv

\* Deals to announce have been signed by hash.
LEMMA AskPreSignInv ==
  ASSUME DaoInv, NEW m \in Members, AskPreSign(m)
  PROVE  DaoInv'
<1> DEFINE answer == {[kind |-> "preSign", deal |-> d, batch |-> BatchCount(d), list |-> <<>>] :
                        d \in GetDeals2PreSign(m)}
<1>1. ASSUME NEW o \in answer PROVE OfferOK(m, o)
  <2>1. PICK d \in GetDeals2PreSign(m) :
          o = [kind |-> "preSign", deal |-> d, batch |-> BatchCount(d), list |-> <<>>]
    OBVIOUS
  <2>2. d \in Keys /\ \E s \in signature : s.deal = d /\ s.status = "Success" /\ s.byHash
    BY DEF GetDeals2PreSign
  <2>3. \E h \in Members : VotedByHash(d, h)
    BY <2>2 DEF DaoInv, TableInv, SignatureOK, SignatureRow
  <2>4. BatchCount(d) \in 0..MaxBatch /\ <<>> \in Lists
    BY <2>2, BatchCounts, ListsAssumption
  <2>5. o \in Offer
    BY <2>1, <2>2, <2>4 DEF Offer
  <2> QED
    BY <2>1, <2>3, <2>5 DEF OfferOK
<1>2. Told(m, "preSign", answer)
  BY DEF AskPreSign
<1> HIDE DEF answer
<1> QED
  BY <1>1, <1>2, ToldInv

\* To sign by hash, the whole list.
LEMMA AskSignHashInv ==
  ASSUME DaoInv, NEW m \in Members, AskSignHash(m)
  PROVE  DaoInv'
<1> DEFINE answer == {[kind |-> "signHash", deal |-> d, batch |-> NoBatch, list |-> Ordered[d]] :
                        d \in GetDeals2SignHash(m)}
<1>1. ASSUME NEW o \in answer PROVE OfferOK(m, o)
  <2>1. PICK d \in GetDeals2SignHash(m) :
          o = [kind |-> "signHash", deal |-> d, batch |-> NoBatch, list |-> Ordered[d]]
    OBVIOUS
  <2>2. d \in Keys
    BY DEF GetDeals2SignHash
  <2>3. Ordered[d] \in Lists
    BY <2>2, DealLists
  <2>4. o \in Offer
    BY <2>1, <2>2, <2>3 DEF Offer
  <2> QED
    BY <2>1, <2>4 DEF OfferOK
<1>2. Told(m, "signHash", answer)
  BY DEF AskSignHash
<1> HIDE DEF answer
<1> QED
  BY <1>1, <1>2, ToldInv

\* To sign, batches of announced deals.
LEMMA AskSignInv ==
  ASSUME DaoInv, NEW m \in Members, AskSign(m)
  PROVE  DaoInv'
<1> DEFINE answer == UNION {BatchOffers(d, m) : d \in GetDeals2Sign(m)}
<1>1. ASSUME NEW o \in answer PROVE OfferOK(m, o)
  <2>1. PICK d \in GetDeals2Sign(m) : o \in BatchOffers(d, m)
    OBVIOUS
  <2>2. d \in Keys /\ preSign[d][m].status = "Success"
    BY DEF GetDeals2Sign
  <2>3. preSign[d][m].batchCount = BatchCount(d)
    BY <2>2 DEF DaoInv, TableInv, RowOK
  <2>4. PICK i \in AllBatches(d) :
          o = [kind |-> "sign", deal |-> d, batch |-> i, list |-> Batch(d, i)]
    BY <2>1, <2>3 DEF BatchOffers, OpenBatches, AllBatches, Batch
  <2>5. Batch(d, i) \in BatchLists /\ i \in Batches
    BY <2>2, DealLists
  <2>6. i \in 0..MaxBatch
    BY <2>5, OracleAssumption DEF Batches
  <2>7. o \in Offer
    BY <2>2, <2>4, <2>5, <2>6 DEF Offer
  <2> QED
    BY <2>2, <2>4, <2>7 DEF OfferOK
<1>2. Told(m, "sign", answer)
  BY DEF AskSign
<1> HIDE DEF answer
<1> QED
  BY <1>1, <1>2, ToldInv

\* A transaction more for the scanner.
LEMMA QueueGrows ==
  ASSUME TableInv, NEW tx \in Tx, unscanned' = Append(unscanned, tx),
         \A d \in Keys, m \in Members, i \in Batches : IsBatch(tx, d, m, i) => ~Waiting(d, m, i)
  PROVE  /\ unscanned' \in Seq(Tx) /\ Queued' = Queued \cup {tx}
         /\ NoneTwice'
<1> DEFINE n == Len(unscanned)
<1>1. unscanned \in Seq(Tx) /\ n \in Nat /\ DOMAIN unscanned = 1..n
  BY LenProperties DEF TableInv
<1>2. /\ unscanned' \in Seq(Tx) /\ DOMAIN unscanned' = 1..(n + 1)
      /\ \A k \in 1..n : unscanned'[k] = unscanned[k]
      /\ unscanned'[n + 1] = tx
  BY <1>1, AppendProperties, LenProperties
<1>3. DOMAIN unscanned' = DOMAIN unscanned \cup {n + 1}
  BY <1>1, <1>2
<1> HIDE DEF n
<1>4. Queued' = Queued \cup {tx}
  BY <1>1, <1>2, <1>3 DEF Queued
<1>5. NoneTwice'
  <2> SUFFICES ASSUME NEW j \in DOMAIN unscanned', NEW k \in DOMAIN unscanned',
                      NEW d \in Keys, NEW m \in Members, NEW i \in Batches,
                      IsBatch(unscanned'[j], d, m, i), IsBatch(unscanned'[k], d, m, i)
               PROVE  j = k
    BY DEF NoneTwice
  <2>1. \A l \in DOMAIN unscanned : ~IsBatch(tx, d, m, i) \/ ~IsBatch(unscanned[l], d, m, i)
    BY DEF Waiting, Queued
  <2>2. CASE j \in DOMAIN unscanned /\ k \in DOMAIN unscanned
    BY <1>1, <1>2, <2>2 DEF TableInv, NoneTwice
  <2>3. CASE j = n + 1 /\ k \in DOMAIN unscanned
    BY <1>1, <1>2, <2>1, <2>3
  <2>4. CASE j \in DOMAIN unscanned /\ k = n + 1
    BY <1>1, <1>2, <2>1, <2>4
  <2>5. CASE j = n + 1 /\ k = n + 1
    BY <2>5
  <2> QED
    BY <1>3, <2>2, <2>3, <2>4, <2>5
<1> QED
  BY <1>2, <1>4, <1>5

\* A transaction less.
LEMMA QueueShrinks ==
  ASSUME TableInv, unscanned # <<>>, unscanned' = Tail(unscanned)
  PROVE  /\ unscanned' \in Seq(Tx) /\ Head(unscanned) \in Queued
         /\ Queued = Queued' \cup {Head(unscanned)}
         /\ NoneTwice'
         /\ \A d \in Keys, m \in Members, i \in Batches : \A tx \in Queued' :
              ~IsBatch(Head(unscanned), d, m, i) \/ ~IsBatch(tx, d, m, i)
<1> DEFINE n == Len(unscanned)
<1>1. unscanned \in Seq(Tx) /\ n \in Nat /\ n # 0 /\ DOMAIN unscanned = 1..n
  BY LenProperties, EmptySeq DEF TableInv
<1>2. /\ unscanned' \in Seq(Tx) /\ DOMAIN unscanned' = 1..(n - 1)
      /\ \A k \in 1..(n - 1) : unscanned'[k] = unscanned[k + 1]
      /\ Head(unscanned) = unscanned[1]
  BY <1>1, HeadTailProperties, LenProperties
<1>3. /\ 1 \in 1..n /\ \A k \in 1..(n - 1) : k + 1 \in 1..n /\ k + 1 # 1
      /\ \A k \in 1..n : k # 1 => k - 1 \in 1..(n - 1) /\ (k - 1) + 1 = k
  BY <1>1
<1> HIDE DEF n
<1>4. Queued' \subseteq Queued /\ Head(unscanned) \in Queued
  BY <1>1, <1>2, <1>3 DEF Queued
<1>5. ASSUME NEW tx \in Queued PROVE tx \in Queued' \cup {Head(unscanned)}
  <2>1. PICK k \in 1..n : tx = unscanned[k]
    BY <1>1 DEF Queued
  <2>2. CASE k = 1
    BY <1>2, <2>1, <2>2
  <2>3. CASE k # 1
    <3>1. unscanned'[k - 1] = tx /\ k - 1 \in DOMAIN unscanned'
      BY <1>2, <1>3, <2>1, <2>3
    <3> QED
      BY <3>1 DEF Queued
  <2> QED
    BY <2>2, <2>3
<1>6. \A j, k \in 1..n : \A d \in Keys, m \in Members, i \in Batches :
        IsBatch(unscanned[j], d, m, i) /\ IsBatch(unscanned[k], d, m, i) => j = k
  BY <1>1 DEF TableInv, NoneTwice
<1>7. NoneTwice'
  <2> SUFFICES ASSUME NEW j \in DOMAIN unscanned', NEW k \in DOMAIN unscanned',
                      NEW d \in Keys, NEW m \in Members, NEW i \in Batches,
                      IsBatch(unscanned'[j], d, m, i), IsBatch(unscanned'[k], d, m, i)
               PROVE  j = k
    BY DEF NoneTwice
  <2>1. j \in 1..(n - 1) /\ k \in 1..(n - 1) /\ j + 1 \in 1..n /\ k + 1 \in 1..n
    BY <1>2, <1>3
  <2>2. IsBatch(unscanned[j + 1], d, m, i) /\ IsBatch(unscanned[k + 1], d, m, i)
    BY <1>2, <2>1
  <2>3. j + 1 = k + 1
    BY <1>6, <2>1, <2>2
  <2> QED
    BY <1>1, <2>1, <2>3
<1>8. ASSUME NEW d \in Keys, NEW m \in Members, NEW i \in Batches, NEW tx \in Queued',
             IsBatch(Head(unscanned), d, m, i), IsBatch(tx, d, m, i)
      PROVE  FALSE
  <2>1. PICK k \in 1..(n - 1) : tx = unscanned'[k]
    BY <1>2 DEF Queued
  <2>2. IsBatch(unscanned[1], d, m, i) /\ IsBatch(unscanned[k + 1], d, m, i)
    BY <1>2, <1>8, <2>1
  <2> QED
    BY <1>3, <1>6, <2>2
<1> QED
  BY <1>2, <1>4, <1>5, <1>7, <1>8

\* A transaction is sent: what remains is that the rows agree with the contract.
LEMMA SentInv ==
  ASSUME DaoInv, ChainInv', ChainKept, NEW m \in Members, NEW o, NEW status \in {"Success", "Failed"},
         MayCall(m, o), Sent(m, o, status), failed' \in 0..MaxFailed,
         status = "Success" =>
           /\ o.kind = "preSign" => txInfo'[o.deal][m].flag
           /\ o.kind = "sign" => /\ o.batch \notin Counted(o.deal, m)
                                 /\ ~Waiting(o.deal, m, o.batch)
           /\ o.kind = "signHash" => VotedByHash(o.deal, m)',
         \A d \in Keys, n \in Members :
           LET tx == [from |-> m, offer |-> o, status |-> status]
           IN  /\ txInfo'[d][n].flag => txInfo[d][n].flag \/ IsPreSign(tx, d, n)
               /\ txInfo'[d][n].flag => \A i \in AllBatches(d) :
                    i \notin txInfo'[d][n].signStatus
                      <=> i \in Counted(d, n) \/ Waiting(d, n, i) \/ IsBatch(tx, d, n, i)
  PROVE  DaoInv'
<1> DEFINE tx == [from |-> m, offer |-> o, status |-> status]
<1>0. TableInv /\ ChainInv
  BY DEF DaoInv
<1>1. o \in offers[m] /\ OfferOK(m, o) /\ o \in Offer
  BY <1>0 DEF MayCall, TableInv, OfferOK
<1>2. /\ offers' = [offers EXCEPT ![m] = offers[m] \ {o}]
      /\ UNCHANGED <<dealStatus, preSign, signature>>
      /\ unscanned' = Append(unscanned, tx)
  BY DEF MayCall, Sent, daoRows
<1>3. tx \in Tx /\ tx.from = m /\ tx.offer = o /\ tx.status = status
  BY <1>1 DEF Tx
<1>4. \A d \in Keys, n \in Members, i \in Batches : IsBatch(tx, d, n, i) => ~Waiting(d, n, i)
  BY <1>3 DEF IsBatch
<1> HIDE DEF tx
<1>5. /\ unscanned' \in Seq(Tx) /\ Queued' = Queued \cup {tx} /\ NoneTwice'
  BY <1>0, <1>2, <1>3, <1>4, QueueGrows
<1>6. RowsStay /\ \A d \in Keys, n \in Members : Counted(d, n)' = Counted(d, n)
  BY <1>2, CountedSame DEF RowsStay
<1>7. \A d \in Keys, n \in Members :
        /\ Announcing(d, n)' <=> Announcing(d, n) \/ IsPreSign(tx, d, n)
        /\ \A i \in Batches : Waiting(d, n, i)' <=> Waiting(d, n, i) \/ IsBatch(tx, d, n, i)
  BY <1>5 DEF Announcing, Waiting
<1>8. ASSUME NEW d \in Keys, NEW n \in Members PROVE RowOK(d, n)'
  <2>1. /\ RowOK(d, n) /\ preSign'[d][n] = preSign[d][n]
        /\ txInfo[d][n].flag => txInfo'[d][n].flag
    BY <1>0, <1>2 DEF TableInv, ChainKept
  <2>2. /\ txInfo'[d][n].flag => txInfo[d][n].flag \/ IsPreSign(tx, d, n)
        /\ txInfo'[d][n].flag => \A i \in AllBatches(d) :
             i \notin txInfo'[d][n].signStatus
               <=> i \in Counted(d, n) \/ Waiting(d, n, i) \/ IsBatch(tx, d, n, i)
    BY DEF tx
  <2>3. txInfo'[d][n].flag => preSign'[d][n].status = "Success" \/ Announcing(d, n)'
    BY <1>7, <2>1, <2>2 DEF RowOK
  <2>4. txInfo'[d][n].flag => \A i \in AllBatches(d) :
          i \notin txInfo'[d][n].signStatus <=> i \in Counted(d, n)' \/ Waiting(d, n, i)'
    <3>1. \A i \in AllBatches(d) : i \in Batches
      BY LensType
    <3> QED
      BY <1>6, <1>7, <2>2, <3>1
  <2>5. Counted(d, n)' = Counted(d, n)
    BY <1>6
  <2> QED
    BY <2>1, <2>3, <2>4, <2>5 DEF RowOK
<1>9. ASSUME NEW s \in signature' PROVE SignatureOK(s)'
  BY <1>0, <1>2, SignatureKept DEF TableInv
<1>10. ASSUME NEW n \in Members, NEW p \in offers'[n] PROVE OfferOK(n, p)'
  <2>1. p \in offers[n]
    BY <1>0, <1>2 DEF TableInv
  <2>2. OfferOK(n, p)
    BY <1>0, <2>1 DEF TableInv
  <2> QED
    BY <1>6, <2>2, OfferKept
<1>11. ASSUME NEW t \in Queued' PROVE TxOK(t)'
  <2>1. CASE t \in Queued
    <3>1. TxOK(t)
      BY <1>0, <2>1 DEF TableInv
    <3>2. t.from \in Members /\ t.offer.deal \in Keys
      BY <3>1 DEF TxOK, Tx, Offer
    <3>3. Counted(t.offer.deal, t.from)' = Counted(t.offer.deal, t.from)
      BY <1>6, <3>2
    <3> QED
      BY <1>6, <3>1, <3>3, TxKept DEF TxOK
  <2>2. ASSUME t = tx PROVE TxOK(t)'
    <3>1. t \in Tx /\ t.from = m /\ t.offer = o /\ t.status = status /\ o.deal \in Keys
      BY <1>1, <1>3, <2>2 DEF Offer
    <3>2. OfferOK(m, o)'
      BY <1>1, <1>6, OfferKept
    <3>3. Counted(o.deal, m)' = Counted(o.deal, m)
      BY <1>6, <3>1
    <3>4. t.status = "Success" =>
            /\ t.offer.kind = "preSign" => txInfo'[t.offer.deal][t.from].flag
            /\ t.offer.kind = "sign" => t.offer.batch \notin Counted(t.offer.deal, t.from)'
            /\ t.offer.kind = "signHash" => VotedByHash(t.offer.deal, t.from)'
      BY <3>1, <3>3
    <3> QED
      BY <3>1, <3>2, <3>4 DEF TxOK
  <2> QED
    BY <1>5, <2>1, <2>2
<1>12. offers' \in [Members -> SUBSET Offer]
  BY <1>0, <1>2 DEF TableInv
<1> QED
  BY <1>0, <1>2, <1>5, <1>8, <1>9, <1>10, <1>11, <1>12 DEF DaoInv, TableInv

-----------------------------------------------------------------------------
(* Calls, taken and reverted.                                              *)

\* A call that reverts leaves the contract alone.
LEMMA RevertedInv ==
  ASSUME DaoInv, NEW m \in Members, NEW o, Reverted(m, o)
  PROVE  DaoInv' /\ UNCHANGED oracleVars
<1>1. /\ failed < MaxFailed /\ failed' = failed + 1 /\ failed \in 0..MaxFailed
      /\ MayCall(m, o) /\ Sent(m, o, "Failed") /\ UNCHANGED oracleVars
  BY DEF Reverted, DaoInv, TableInv
<1>2. ChainInv' /\ ChainKept /\ UNCHANGED txInfo
  BY <1>1, ChainIdle DEF DaoInv, oracleVars
<1>3. failed' \in 0..MaxFailed
  BY <1>1, DaoAssumption
<1>4. ASSUME NEW d \in Keys, NEW n \in Members
      PROVE  LET tx == [from |-> m, offer |-> o, status |-> "Failed"]
             IN  /\ txInfo'[d][n].flag => txInfo[d][n].flag \/ IsPreSign(tx, d, n)
                 /\ txInfo'[d][n].flag => \A i \in AllBatches(d) :
                      i \notin txInfo'[d][n].signStatus
                        <=> i \in Counted(d, n) \/ Waiting(d, n, i) \/ IsBatch(tx, d, n, i)
  BY <1>2 DEF DaoInv, TableInv, RowOK, IsBatch
<1>5. PICK status \in {"Success", "Failed"} : status = "Failed"
  OBVIOUS
<1> QED
  BY <1>1, <1>2, <1>3, <1>4, <1>5, SentInv

\* preSign, of a deal that somebody has signed by hash.
LEMMA TakenPreSignInv ==
  ASSUME DaoInv, NEW m \in Members, NEW o, Taken(m, o), o.kind = "preSign"
  PROVE  DaoInv' /\ OracleNext
<1> DEFINE d == o.deal
           tx == [from |-> m, offer |-> o, status |-> "Success"]
<1>1. ChainInv /\ TableInv /\ MayCall(m, o) /\ Sent(m, o, "Success") /\ UNCHANGED failed
  BY DEF Taken, DaoInv
<1>2. OfferOK(m, o) /\ d \in Keys
  BY <1>1 DEF MayCall, TableInv, OfferOK, Offer
<1>3. PreSign(m, d, Recipient, BatchCount(d)) /\ \E h \in Members : VotedByHash(d, h)
  BY <1>2 DEF OfferOK, Taken, Call
<1>4. ChainInv' /\ ChainKept /\ OracleNext
  BY <1>1, <1>2, <1>3, ChainPreSign
<1>5. txInfo \in [Keys -> [Members -> TxOracleInfo]] /\ txInfo[d][m] \in TxOracleInfo
  BY <1>1, <1>2 DEF ChainInv, OracleInv, OracleTypeOK
<1>6. /\ ~txInfo[d][m].flag
      /\ txInfo'[d][m].flag /\ txInfo'[d][m].signStatus = AllBatches(d)
      /\ \A e \in Keys, n \in Members : e # d \/ n # m => txInfo'[e][n] = txInfo[e][n]
  <2> DEFINE info == [txInfo[d][m] EXCEPT !.flag = TRUE, !.recipient = Recipient,
                        !.batch = BatchCount(d), !.signStatus = 0..(BatchCount(d) - 1)]
  <2>1. info.flag = TRUE /\ info.signStatus = AllBatches(d)
    BY <1>5 DEF TxOracleInfo, AllBatches
  <2>2. ~txInfo[d][m].flag /\ txInfo' = [txInfo EXCEPT ![d][m] = info]
    BY <1>3 DEF PreSign
  <2> HIDE DEF info
  <2> QED
    BY <1>2, <1>5, <2>1, <2>2
<1>7. preSign[d][m].status # "Success" /\ Counted(d, m) = {}
  BY <1>1, <1>2, <1>6 DEF TableInv, RowOK
<1>8. \A i : ~Waiting(d, m, i)
  BY <1>1, <1>7 DEF Waiting, TableInv, TxOK, OfferOK, IsBatch
<1>9. \A e \in Keys, n \in Members : \A i : ~IsBatch(tx, e, n, i)
  BY DEF IsBatch
<1>10. IsPreSign(tx, d, m)
  BY DEF IsPreSign
<1> HIDE DEF tx, d
<1>11. ASSUME NEW e \in Keys, NEW n \in Members
       PROVE  /\ txInfo'[e][n].flag => txInfo[e][n].flag \/ IsPreSign(tx, e, n)
              /\ txInfo'[e][n].flag => \A i \in AllBatches(e) :
                   i \notin txInfo'[e][n].signStatus
                     <=> i \in Counted(e, n) \/ Waiting(e, n, i) \/ IsBatch(tx, e, n, i)
  <2>1. CASE e = d /\ n = m
    BY <1>6, <1>7, <1>8, <1>9, <1>10, <2>1
  <2>2. CASE e # d \/ n # m
    BY <1>1, <1>6, <1>9, <2>2 DEF TableInv, RowOK
  <2> QED
    BY <2>1, <2>2
<1>12. failed' \in 0..MaxFailed
  BY <1>1 DEF TableInv
<1>13. txInfo'[o.deal][m].flag
  BY <1>6 DEF d
<1>14. PICK status \in {"Success", "Failed"} : status = "Success"
  OBVIOUS
<1> QED
  BY <1>1, <1>4, <1>11, <1>12, <1>13, <1>14, SentInv DEF tx

\* sign, of a batch that is neither recorded nor on its way.
LEMMA TakenSignInv ==
  ASSUME DaoInv, NEW m \in Members, NEW o, Taken(m, o), o.kind = "sign"
  PROVE  DaoInv' /\ OracleNext
<1> DEFINE d == o.deal
           b == o.batch
           tx == [from |-> m, offer |-> o, status |-> "Success"]
<1>1. ChainInv /\ TableInv /\ MayCall(m, o) /\ Sent(m, o, "Success") /\ UNCHANGED failed /\ filink
  BY DEF Taken, DaoInv, MayCall
<1>2. OfferOK(m, o) /\ d \in Keys
  BY <1>1 DEF MayCall, TableInv, OfferOK, Offer
<1>3. Sign(m, d, Batch(d, b), b) /\ b \in AllBatches(d)
  BY <1>2 DEF OfferOK, Taken, Call
<1>4. /\ ChainInv' /\ ChainKept /\ OracleNext
      /\ txInfo[d][m].flag /\ b \in txInfo[d][m].signStatus
      /\ txInfo'[d][m].signStatus = txInfo[d][m].signStatus \ {b}
      /\ \A e \in Keys, n \in Members : e # d \/ n # m => txInfo'[e][n] = txInfo[e][n]
  <2> HIDE DEF d, b
  <2> QED
    BY <1>1, <1>2, <1>3, ChainSign
<1>5. \A i \in AllBatches(d) :
        i \notin txInfo[d][m].signStatus <=> i \in Counted(d, m) \/ Waiting(d, m, i)
  BY <1>1, <1>2, <1>4 DEF TableInv, RowOK
<1>6. b \notin Counted(d, m) /\ ~Waiting(d, m, b)
  BY <1>3, <1>4, <1>5
<1>7. \A e \in Keys, n \in Members : \A i : IsBatch(tx, e, n, i) <=> e = d /\ n = m /\ i = b
  BY DEF IsBatch
<1> HIDE DEF tx, d, b
<1>8. ASSUME NEW e \in Keys, NEW n \in Members
      PROVE  /\ txInfo'[e][n].flag => txInfo[e][n].flag \/ IsPreSign(tx, e, n)
             /\ txInfo'[e][n].flag => \A i \in AllBatches(e) :
                  i \notin txInfo'[e][n].signStatus
                    <=> i \in Counted(e, n) \/ Waiting(e, n, i) \/ IsBatch(tx, e, n, i)
  <2>1. CASE e = d /\ n = m
    BY <1>4, <1>5, <1>7, <2>1
  <2>2. CASE e # d \/ n # m
    BY <1>1, <1>4, <1>7, <2>2 DEF TableInv, RowOK
  <2> QED
    BY <2>1, <2>2
<1>9. failed' \in 0..MaxFailed
  BY <1>1 DEF TableInv
<1>10. o.batch \notin Counted(o.deal, m) /\ ~Waiting(o.deal, m, o.batch)
  BY <1>6 DEF d, b
<1>11. PICK status \in {"Success", "Failed"} : status = "Success"
  OBVIOUS
<1> QED
  BY <1>1, <1>4, <1>8, <1>9, <1>10, <1>11, SentInv DEF tx

\* signHash.
LEMMA TakenSignHashInv ==
  ASSUME DaoInv, NEW m \in Members, NEW o, Taken(m, o), o.kind = "signHash"
  PROVE  DaoInv' /\ OracleNext
<1> DEFINE d == o.deal
           tx == [from |-> m, offer |-> o, status |-> "Success"]
<1>1. ChainInv /\ TableInv /\ MayCall(m, o) /\ Sent(m, o, "Success") /\ UNCHANGED failed
  BY DEF Taken, DaoInv
<1>2. OfferOK(m, o) /\ d \in Keys
  BY <1>1 DEF MayCall, TableInv, OfferOK, Offer
<1>3. SignHash(m, Ballot(d))
  BY <1>2 DEF OfferOK, Taken, Call, Ballot
<1>4. ChainInv' /\ ChainKept /\ OracleNext /\ VotedByHash(d, m)' /\ UNCHANGED txInfo
  <2>1. UNCHANGED txInfo
    BY <1>3 DEF SignHash
  <2> HIDE DEF d
  <2> QED
    BY <1>1, <1>2, <1>3, <2>1, ChainSignHash
<1>5. \A e \in Keys, n \in Members : \A i : ~IsBatch(tx, e, n, i)
  BY DEF IsBatch
<1>6. ASSUME NEW e \in Keys, NEW n \in Members
      PROVE  /\ txInfo'[e][n].flag => txInfo[e][n].flag \/ IsPreSign(tx, e, n)
             /\ txInfo'[e][n].flag => \A i \in AllBatches(e) :
                  i \notin txInfo'[e][n].signStatus
                    <=> i \in Counted(e, n) \/ Waiting(e, n, i) \/ IsBatch(tx, e, n, i)
  <2> HIDE DEF tx
  <2> QED
    BY <1>1, <1>4, <1>5 DEF TableInv, RowOK
<1>7. failed' \in 0..MaxFailed
  BY <1>1 DEF TableInv
<1>8. VotedByHash(o.deal, m)'
  BY <1>4
<1>9. PICK status \in {"Success", "Failed"} : status = "Success"
  OBVIOUS
<1> HIDE DEF tx, d
<1> QED
  BY <1>1, <1>4, <1>6, <1>7, <1>8, <1>9, SentInv DEF tx

-----------------------------------------------------------------------------
(* The scanner.                                                            *)

\* A transaction is recorded: what remains is that the rows it changes are right.
LEMMA RecordedInv ==
  ASSUME DaoInv, unscanned # <<>>, unscanned' = Tail(unscanned),
         UNCHANGED <<dealStatus, offers, failed, oracleVars>>, RowsStay,
         preSign' \in [Keys -> [Members -> PreSignRow]],
         \A d \in Keys, n \in Members : RowOK(d, n)',
         \A s \in signature' : s \in signature \/ SignatureOK(s),
         \A tx \in Queued' : tx.status = "Success" /\ tx.offer.kind = "sign"
           => tx.offer.batch \notin Counted(tx.offer.deal, tx.from)'
  PROVE  DaoInv'
<1>0. ChainInv /\ TableInv
  BY DEF DaoInv
<1>1. ChainInv' /\ ChainKept
  BY <1>0, ChainIdle
<1>2. unscanned' \in Seq(Tx) /\ Queued' \subseteq Queued /\ NoneTwice'
  BY <1>0, QueueShrinks
<1>3. ASSUME NEW s \in signature' PROVE SignatureOK(s)'
  BY <1>0, <1>1, SignatureKept DEF TableInv
<1>4. ASSUME NEW n \in Members, NEW p \in offers'[n] PROVE OfferOK(n, p)'
  <2>1. OfferOK(n, p)
    BY <1>0 DEF TableInv
  <2> QED
    BY <1>1, <2>1, OfferKept
<1>5. ASSUME NEW tx \in Queued' PROVE TxOK(tx)'
  <2>1. TxOK(tx)
    BY <1>0, <1>2 DEF TableInv
  <2>2. tx.status = "Success" /\ tx.offer.kind = "sign"
           => tx.offer.batch \notin Counted(tx.offer.deal, tx.from)'
    OBVIOUS
  <2> QED
    BY <1>1, <2>1, <2>2, TxKept
<1>6. TableInv'
  BY <1>0, <1>2, <1>3, <1>4, <1>5 DEF TableInv
<1> QED
  BY <1>1, <1>6 DEF DaoInv

\* A preSign is recorded, unless a successful one has been.
LEMMA RecordPreSignInv ==
  ASSUME DaoInv, unscanned # <<>>, Head(unscanned).offer.kind = "preSign", Record
  PROVE  DaoInv'
<1> DEFINE tx == Head(unscanned)
           d == tx.offer.deal
           m == tx.from
           row == [status |-> tx.status, batchCount |-> tx.offer.batch,
                   total |-> Cardinality(CarFiles[d]), signed |-> 0]
<1>0. ChainInv /\ TableInv
  BY DEF DaoInv
<1>1. /\ unscanned' = Tail(unscanned)
      /\ UNCHANGED <<dealStatus, offers, failed, oracleVars>>
      /\ RecordPreSign(d, m, tx)
  BY DEF Record
<1>2. /\ preSign' = IF preSign[d][m].status = "Success" THEN preSign
                    ELSE [preSign EXCEPT ![d][m] = row]
      /\ UNCHANGED signature
  BY <1>1 DEF RecordPreSign
<1>3. tx \in Queued /\ Queued = Queued' \cup {tx}
  BY <1>0, <1>1, QueueShrinks
<1>4. TxOK(tx)
  BY <1>0, <1>3 DEF TableInv
<1>5. /\ m \in Members /\ d \in Keys /\ tx.status \in {"Success", "Failed"}
      /\ tx.offer.kind = "preSign" /\ tx.offer.batch = BatchCount(d)
      /\ tx.status = "Success" => txInfo[d][m].flag
  BY <1>4 DEF TxOK, Tx, OfferOK, Offer
<1>6. \A e \in Keys, n \in Members : Counted(e, n)' = Counted(e, n)
  BY <1>2, CountedSame
<1>7. \A i, e, n : ~IsBatch(tx, e, n, i)
  BY <1>5 DEF IsBatch
<1>8. \A e, n : IsPreSign(tx, e, n) <=> e = d /\ n = m /\ tx.status = "Success"
  BY <1>5 DEF IsPreSign
<1>9. /\ row.status = tx.status /\ row.batchCount = BatchCount(d) /\ row.total = Files(d)
      /\ row.signed = 0 /\ row \in PreSignRow
  <2>1. BatchCount(d) \in 0..MaxBatch /\ Files(d) \in Nat /\ Files(d) = Cardinality(CarFiles[d])
    BY <1>5, BatchCounts, OrderedFiles DEF Files
  <2> QED
    BY <1>5, <2>1 DEF PreSignRow
<1> HIDE DEF tx, row
<1>10. /\ \A e \in Keys, n \in Members : \A i : Waiting(e, n, i)' <=> Waiting(e, n, i)
       /\ \A e \in Keys, n \in Members :
            Announcing(e, n) => Announcing(e, n)' \/ IsPreSign(tx, e, n)
  BY <1>3, <1>7 DEF Waiting, Announcing
<1>11. UNCHANGED txInfo
  BY <1>1 DEF oracleVars
<1> HIDE DEF d, m
<1>12. /\ preSign' \in [Keys -> [Members -> PreSignRow]]
       /\ preSign'[d][m] = IF preSign[d][m].status = "Success" THEN preSign[d][m] ELSE row
       /\ \A e \in Keys, n \in Members : e # d \/ n # m => preSign'[e][n] = preSign[e][n]
  BY <1>0, <1>2, <1>5, <1>9 DEF TableInv
<1>13. RowsStay
  BY <1>12 DEF RowsStay
<1>14. ASSUME NEW e \in Keys, NEW n \in Members PROVE RowOK(e, n)'
  <2>1. RowOK(e, n) /\ Counted(e, n)' = Counted(e, n)
    BY <1>0, <1>6 DEF TableInv
  <2>2. CASE preSign'[e][n] = preSign[e][n] /\ (e # d \/ n # m \/ preSign[e][n].status = "Success")
    <3>1. txInfo[e][n].flag => preSign[e][n].status = "Success" \/ Announcing(e, n)'
      BY <1>8, <1>10, <2>1, <2>2 DEF RowOK
    <3> QED
      BY <1>10, <1>11, <2>1, <2>2, <3>1 DEF RowOK
  <2>3. CASE e = d /\ n = m /\ preSign[e][n].status # "Success" /\ preSign'[e][n] = row
    <3>1. Counted(e, n) = {} /\ SumFunctionOnSet(Lens(e), {}) = 0
      BY <2>1, <2>3, SumEmpty DEF RowOK
    <3>2. txInfo[e][n].flag => row.status = "Success" \/ Announcing(e, n)'
      BY <1>8, <1>9, <1>10, <2>1, <2>3 DEF RowOK
    <3>3. row.status = "Success" => txInfo[e][n].flag
      BY <1>5, <1>9, <2>3
    <3> QED
      BY <1>9, <1>10, <1>11, <2>1, <2>3, <3>1, <3>2, <3>3 DEF RowOK
  <2> QED
    BY <1>12, <2>2, <2>3
<1>15. ASSUME NEW t \in Queued', t.status = "Success", t.offer.kind = "sign"
       PROVE  t.offer.batch \notin Counted(t.offer.deal, t.from)'
  <2>1. TxOK(t) /\ t.from \in Members /\ t.offer.deal \in Keys
    BY <1>0, <1>3 DEF TableInv, TxOK, Tx, Offer
  <2> QED
    BY <1>6, <1>15, <2>1 DEF TxOK
<1>16. \A s \in signature' : s \in signature
  BY <1>2
<1> QED
  BY <1>1, <1>12, <1>13, <1>14, <1>15, <1>16, RecordedInv

\* A batch counts with its first signature, anything else counts nothing.
LEMMA CountedGrows ==
  ASSUME NEW s, signature' = signature \cup {s}, NEW e \in Keys, NEW n \in Members
  PROVE  Counted(e, n)' = IF /\ s.deal = e /\ s.signer = n /\ s.batchNo \in AllBatches(e)
                             /\ ~s.byHash /\ s.status = "Success"
                          THEN Counted(e, n) \cup {s.batchNo} ELSE Counted(e, n)
<1> SUFFICES ASSUME NEW i \in AllBatches(e)
             PROVE  (\E t \in SignedBy(e, n)' : t.batchNo = i /\ ~t.byHash /\ t.status = "Success")
                      <=> \/ \E t \in SignedBy(e, n) : t.batchNo = i /\ ~t.byHash /\ t.status = "Success"
                          \/ s.deal = e /\ s.signer = n /\ i = s.batchNo /\ ~s.byHash /\ s.status = "Success"
  BY DEF Counted
<1> QED
  BY DEF SignedBy

\* A signature is recorded.
LEMMA RecordSignatureInv ==
  ASSUME DaoInv, unscanned # <<>>, Head(unscanned).offer.kind # "preSign", Record
  PROVE  DaoInv'
<1> DEFINE tx == Head(unscanned)
           d == tx.offer.deal
           m == tx.from
           b == tx.offer.batch
           hash == tx.offer.kind = "signHash"
           s == [deal |-> d, signer |-> m, batchNo |-> b, byHash |-> hash, status |-> tx.status]
           good == tx.offer.kind = "sign" /\ tx.status = "Success"
<1>0. ChainInv /\ TableInv
  BY DEF DaoInv
<1>1. /\ unscanned' = Tail(unscanned)
      /\ UNCHANGED <<dealStatus, offers, failed, oracleVars>>
      /\ RecordSignature(d, m, tx)
  BY DEF Record
<1>2. /\ signature' = signature \cup {s}
      /\ preSign' = IF good
                    THEN [preSign EXCEPT ![d][m] = [preSign[d][m] EXCEPT !.signed = @ + Len(tx.offer.list)]]
                    ELSE preSign
  <2>1. signature' = signature \cup {s}
    BY <1>1, Zenon DEF RecordSignature
  <2>2. CASE good
    BY <1>1, <2>1, <2>2 DEF RecordSignature
  <2>3. CASE ~good
    BY <1>1, <2>1, <2>3 DEF RecordSignature
  <2> QED
    BY <2>2, <2>3
<1>3. /\ tx \in Queued /\ Queued = Queued' \cup {tx}
      /\ \A e \in Keys, n \in Members, i \in Batches : \A t \in Queued' :
           ~IsBatch(tx, e, n, i) \/ ~IsBatch(t, e, n, i)
  BY <1>0, <1>1, QueueShrinks
<1>4. TxOK(tx)
  BY <1>0, <1>3 DEF TableInv
<1>5. /\ m \in Members /\ d \in Keys /\ tx.status \in {"Success", "Failed"}
      /\ tx.offer.kind \in {"sign", "signHash"} /\ hash \in BOOLEAN
      /\ hash => b = NoBatch
      /\ ~hash => b \in AllBatches(d) /\ tx.offer.list = Batch(d, b) /\ preSign[d][m].status = "Success"
  BY <1>4 DEF TxOK, Tx, OfferOK, Offer
<1>6. good => b \notin Counted(d, m)
  BY <1>4 DEF TxOK
<1>7. hash /\ tx.status = "Success" => VotedByHash(d, m)
  BY <1>4 DEF TxOK
<1>8. /\ \A i, e, n : IsBatch(tx, e, n, i) <=> e = d /\ n = m /\ i = b /\ good
      /\ \A e, n : ~IsPreSign(tx, e, n)
  BY <1>5 DEF IsBatch, IsPreSign
<1>9. SignatureOK(s)
  <2>1. b \in {NoBatch} \cup Batches
    BY <1>5, LensType
  <2>2. s \in SignatureRow
    BY <1>5, <2>1 DEF SignatureRow
  <2> QED
    BY <1>7, <2>2 DEF SignatureOK
<1>10. \A e \in Keys, n \in Members :
         Counted(e, n)' = IF e = d /\ n = m /\ good THEN Counted(e, n) \cup {b} ELSE Counted(e, n)
  <2>1. s.deal = d /\ s.signer = m /\ s.batchNo = b /\ (s.byHash <=> hash) /\ s.status = tx.status
    OBVIOUS
  <2>2. good <=> b \in AllBatches(d) /\ ~hash /\ tx.status = "Success"
    BY <1>5
  <2> HIDE DEF s, d, m, b, hash, good, tx
  <2>3. ASSUME NEW e \in Keys, NEW n \in Members
        PROVE  Counted(e, n)' = IF /\ s.deal = e /\ s.signer = n /\ s.batchNo \in AllBatches(e)
                                   /\ ~s.byHash /\ s.status = "Success"
                                THEN Counted(e, n) \cup {s.batchNo} ELSE Counted(e, n)
    BY <1>2, CountedGrows
  <2> QED
    BY <2>1, <2>2, <2>3
<1> HIDE DEF s, good, hash, tx
<1>11. UNCHANGED txInfo
  BY <1>1 DEF oracleVars
<1>12. \A e \in Keys, n \in Members :
         /\ Announcing(e, n)' <=> Announcing(e, n)
         /\ \A i \in Batches : Waiting(e, n, i) <=> Waiting(e, n, i)' \/ (e = d /\ n = m /\ i = b /\ good)
  BY <1>3, <1>8 DEF Announcing, Waiting
<1>13. \A e \in Keys : \A i \in AllBatches(e) : i \in Batches
  BY LensType
<1>14. /\ preSign \in [Keys -> [Members -> PreSignRow]]
       /\ \A e \in Keys, n \in Members : RowOK(e, n)
  BY <1>0 DEF TableInv
<1> DEFINE row == [preSign[d][m] EXCEPT !.signed = @ + Len(tx.offer.list)]
<1>15. /\ d \in Keys /\ m \in Members
       /\ good => b \in AllBatches(d) /\ preSign[d][m].status = "Success"
       /\ good => tx.offer.list = Batch(d, b) /\ Len(tx.offer.list) = Lens(d)[b] /\ Lens(d)[b] \in Nat
  <2>1. d \in Keys /\ m \in Members
    BY <1>5
  <2>2. good => b \in AllBatches(d) /\ preSign[d][m].status = "Success" /\ tx.offer.list = Batch(d, b)
    BY <1>5 DEF good, hash
  <2>3. good => Lens(d)[b] \in Nat /\ Lens(d)[b] = Len(Batch(d, b))
    <3> HIDE DEF d, b
    <3>1. \A i \in AllBatches(d) : Lens(d)[i] \in Nat /\ Lens(d)[i] = Len(Batch(d, i))
      BY <2>1, LensType DEF Lens, AllBatches
    <3> QED
      BY <2>2, <3>1
  <2> QED
    BY <2>1, <2>2, <2>3
<1> HIDE DEF d, m, b
<1>16. good => /\ row \in PreSignRow /\ row.status = "Success"
               /\ row.batchCount = preSign[d][m].batchCount /\ row.total = preSign[d][m].total
               /\ row.signed = preSign[d][m].signed + Lens(d)[b]
  <2> SUFFICES ASSUME good
               PROVE  /\ row \in PreSignRow /\ row.status = "Success"
                      /\ row.batchCount = preSign[d][m].batchCount
                      /\ row.total = preSign[d][m].total
                      /\ row.signed = preSign[d][m].signed + Lens(d)[b]
    OBVIOUS
  <2> DEFINE old == preSign[d][m]
             more == Len(tx.offer.list)
  <2>1. old \in PreSignRow /\ old.status = "Success" /\ more = Lens(d)[b] /\ more \in Nat
    BY <1>14, <1>15
  <2>2. row = [old EXCEPT !.signed = old.signed + more]
    OBVIOUS
  <2> HIDE DEF old, more, row
  <2>3. old.signed \in Nat /\ old.signed + more \in Nat
    BY <2>1 DEF PreSignRow
  <2>4. /\ row \in PreSignRow /\ row.status = old.status /\ row.batchCount = old.batchCount
        /\ row.total = old.total /\ row.signed = old.signed + more
    BY <2>1, <2>2, <2>3 DEF PreSignRow
  <2> QED
    BY <2>1, <2>4 DEF old
<1>17. preSign' = IF good THEN [preSign EXCEPT ![d][m] = row] ELSE preSign
  BY <1>2
<1> HIDE DEF row
<1>18. /\ preSign' \in [Keys -> [Members -> PreSignRow]]
       /\ good => preSign'[d][m] = row
       /\ \A e \in Keys, n \in Members : ~(e = d /\ n = m /\ good) => preSign'[e][n] = preSign[e][n]
  BY <1>14, <1>15, <1>16, <1>17
<1>19. RowsStay
  BY <1>16, <1>18 DEF RowsStay
<1>20. ASSUME NEW e \in Keys, NEW n \in Members PROVE RowOK(e, n)'
  <2>1. CASE ~(e = d /\ n = m /\ good)
    <3>1. preSign'[e][n] = preSign[e][n] /\ Counted(e, n)' = Counted(e, n)
      BY <1>10, <1>18, <2>1
    <3>2. \A i \in AllBatches(e) : Waiting(e, n, i)' <=> Waiting(e, n, i)
      BY <1>12, <1>13, <2>1
    <3> QED
      BY <1>11, <1>12, <1>14, <3>1, <3>2 DEF RowOK
  <2>2. CASE e = d /\ n = m /\ good
    <3>1. /\ preSign'[e][n] = row /\ Counted(e, n)' = Counted(e, n) \cup {b}
          /\ RowOK(e, n) /\ b \in AllBatches(e) /\ b \notin Counted(e, n)
      <4>1. preSign'[e][n] = row /\ b \in AllBatches(e) /\ b \notin Counted(e, n)
        BY <1>6, <1>15, <1>18, <2>2
      <4>2. Counted(e, n)' = Counted(e, n) \cup {b}
        BY <1>10, <2>2
      <4> QED
        BY <1>14, <4>1, <4>2
    <3>2. /\ preSign[e][n].status = "Success" /\ txInfo[e][n].flag
          /\ preSign[e][n].signed = SumFunctionOnSet(Lens(e), Counted(e, n))
          /\ preSign[e][n].batchCount = BatchCount(e) /\ preSign[e][n].total = Files(e)
      BY <1>15, <2>2, <3>1 DEF RowOK
    <3>3. SumFunctionOnSet(Lens(e), Counted(e, n) \cup {b})
            = Lens(e)[b] + SumFunctionOnSet(Lens(e), Counted(e, n))
      <4> DEFINE S == Counted(e, n) \cup {b}
                 f == Lens(e)
      <4>1. S \in SUBSET AllBatches(e) /\ b \in S /\ S \ {b} = Counted(e, n)
        BY <3>1 DEF Counted
      <4>2. IsFiniteSet(S)
        BY <4>1, LensType, FS_Subset
      <4>3. \A i \in AllBatches(e) : f[i] \in Int
        BY LensType
      <4> HIDE DEF S, f
      <4>4. SumFunctionOnSet(f, S) = f[b] + SumFunctionOnSet(f, S \ {b})
        BY <4>1, <4>2, <4>3, SumRemove
      <4> QED
        BY <4>1, <4>4 DEF S, f
    <3>4. SumFunctionOnSet(Lens(e), Counted(e, n)) \in Int /\ Lens(e)[b] \in Int
      <4>1. Counted(e, n) \in SUBSET AllBatches(e)
        BY DEF Counted
      <4> QED
        BY <1>15, <2>2, <4>1, SomeLens, OrderedFiles
    <3>5. row.signed = SumFunctionOnSet(Lens(e), Counted(e, n) \cup {b})
      BY <1>16, <2>2, <3>2, <3>3, <3>4
    <3>6. ASSUME NEW i \in AllBatches(e)
          PROVE  i \notin txInfo[e][n].signStatus <=> i \in Counted(e, n)' \/ Waiting(e, n, i)'
      <4>1. i \notin txInfo[e][n].signStatus <=> i \in Counted(e, n) \/ Waiting(e, n, i)
        BY <3>1, <3>2 DEF RowOK
      <4>2. i \in Batches
        BY <1>13
      <4>3. Waiting(e, n, i) <=> Waiting(e, n, i)' \/ i = b
        BY <1>12, <2>2, <4>2
      <4> QED
        BY <3>1, <4>1, <4>3
    <3>7. row.status = "Success" /\ row.batchCount = BatchCount(e) /\ row.total = Files(e)
      BY <1>16, <2>2, <3>2
    <3> QED
      BY <1>11, <3>1, <3>2, <3>5, <3>6, <3>7 DEF RowOK
  <2> QED
    BY <2>1, <2>2
<1>21. ASSUME NEW t \in Queued', t.status = "Success", t.offer.kind = "sign"
       PROVE  t.offer.batch \notin Counted(t.offer.deal, t.from)'
  <2>1. /\ TxOK(t) /\ t.from \in Members /\ t.offer.deal \in Keys
        /\ t.offer.batch \notin Counted(t.offer.deal, t.from)
    BY <1>0, <1>3, <1>21 DEF TableInv, TxOK, Tx, Offer
  <2>2. CASE t.offer.deal = d /\ t.from = m /\ t.offer.batch = b /\ good
    <3>1. IsBatch(t, d, m, b) /\ IsBatch(tx, d, m, b)
      BY <1>8, <1>21, <2>2 DEF IsBatch
    <3> QED
      BY <1>3, <1>13, <1>15, <2>2, <3>1
  <2> QED
    BY <1>10, <2>1, <2>2
<1>22. \A t \in signature' : t \in signature \/ SignatureOK(t)
  BY <1>2, <1>9
<1> QED
  BY <1>1, <1>18, <1>19, <1>20, <1>21, <1>22, RecordedInv

-----------------------------------------------------------------------------
(* The whole, and what follows.                                            *)

\* Nothing has been announced, signed or recorded at first.
LEMMA DaoInitInv == DaoInit => DaoInv
<1> SUFFICES ASSUME DaoInit PROVE DaoInv
  OBVIOUS
<1>1. OracleInv
  BY OracleInitInv DEF DaoInit
<1>2. /\ txInfo = [k \in Keys |-> [m \in Members |-> NoInfo]]
      /\ userVoted = {} /\ cidListMap = [k \in Keys |-> <<>>]
      /\ preSign = [d \in Keys |-> [m \in Members |-> NoPreSign]]
      /\ signature = {} /\ unscanned = <<>>
  BY DEF DaoInit, OracleInit
<1>3. ASSUME NEW d \in Keys, NEW m \in Members PROVE InfoOK(d, m)
  BY <1>2 DEF InfoOK, NoInfo
<1>4. ASSUME NEW d \in Keys PROVE BallotsOK(d)
  <2>1. Signers(d) = {}
    BY <1>2 DEF Signers, NoInfo
  <2> QED
    BY <1>2, <2>1 DEF BallotsOK
<1>5. ChainInv
  BY <1>1, <1>2, <1>3, <1>4 DEF ChainInv
<1>6. Queued = {} /\ NoneTwice
  <2>1. DOMAIN unscanned = {}
    BY <1>2
  <2> QED
    BY <2>1 DEF Queued, NoneTwice
<1>7. ASSUME NEW d \in Keys, NEW m \in Members PROVE RowOK(d, m)
  <2>1. Counted(d, m) = {}
    BY <1>2 DEF Counted, SignedBy
  <2> QED
    BY <1>2, <2>1 DEF RowOK, NoPreSign, NoInfo
<1>8. preSign \in [Keys -> [Members -> PreSignRow]]
  BY <1>2, OracleAssumption DEF NoPreSign, PreSignRow
<1>9. TableInv
  BY <1>2, <1>6, <1>7, <1>8, DaoAssumption DEF DaoInit, TableInv
<1> QED
  BY <1>5, <1>9 DEF DaoInv

\* Whatever happens, the invariant stays, and the contract's part is a call of its own
\* specification or none.
LEMMA DaoStepInv == DaoInv /\ [DaoNext]_daoVars => DaoInv' /\ [OracleNext]_oracleVars
<1> SUFFICES ASSUME DaoInv, [DaoNext]_daoVars PROVE DaoInv' /\ [OracleNext]_oracleVars
  OBVIOUS
<1>0. ChainInv /\ TableInv
  BY DEF DaoInv
<1>1. ASSUME NEW m \in Members, AskPreSign(m) \/ AskSignHash(m) \/ AskSign(m)
      PROVE  DaoInv' /\ UNCHANGED oracleVars
  <2>1. UNCHANGED oracleVars
    BY <1>1 DEF AskPreSign, AskSignHash, AskSign, Told
  <2> QED
    BY <1>1, <2>1, AskPreSignInv, AskSignHashInv, AskSignInv
<1>2. ASSUME NEW m \in Members, NEW o \in offers[m], Taken(m, o) PROVE DaoInv' /\ OracleNext
  <2>1. o.kind \in {"preSign", "sign", "signHash"}
    BY <1>0 DEF TableInv, Offer
  <2> QED
    BY <1>2, <2>1, TakenPreSignInv, TakenSignInv, TakenSignHashInv
<1>3. ASSUME NEW m \in Members, NEW o \in offers[m], Reverted(m, o)
      PROVE  DaoInv' /\ UNCHANGED oracleVars
  BY <1>3, RevertedInv
<1>4. CASE Deploy /\ UNCHANGED <<daoRows, offers, failed, unscanned>>
  <2>1. [OracleNext]_oracleVars /\ UNCHANGED <<threshold, txInfo, ballotBox>>
    BY <1>4 DEF Deploy, SetDAOUsers, SetFilinkOracle, OracleNext
  <2>2. OracleInv'
    BY <1>0, <2>1, OracleStepInv DEF ChainInv
  <2>3. ChainInv' /\ ChainKept
    BY <1>0, <2>1, <2>2, ChainSame
  <2>4. TableInv'
    BY <1>0, <1>4, <2>1, <2>3, TableIdle DEF TableInv, daoRows
  <2> QED
    BY <2>1, <2>3, <2>4 DEF DaoInv
<1>5. CASE Record
  <2>1. unscanned # <<>> /\ UNCHANGED oracleVars
    BY <1>5 DEF Record
  <2> QED
    BY <1>5, <2>1, RecordPreSignInv, RecordSignatureInv
<1>6. ASSUME UNCHANGED <<preSign, signature, offers, failed, unscanned, oracleVars>>,
             dealStatus' \in [Keys -> {"Created", "Active", "Success"}]
      PROVE  DaoInv'
  <2>1. ChainInv' /\ ChainKept
    BY <1>0, <1>6, ChainIdle
  <2>2. TableInv'
    BY <1>0, <1>6, <2>1, TableIdle DEF TableInv, oracleVars
  <2> QED
    BY <2>1, <2>2 DEF DaoInv
<1>7. ASSUME NEW d \in Keys, DealActivated(d) \/ Unlocked(d) PROVE DaoInv' /\ UNCHANGED oracleVars
  <2>1. dealStatus \in [Keys -> {"Created", "Active", "Success"}]
    BY <1>0 DEF TableInv
  <2> QED
    BY <1>6, <1>7, <2>1 DEF DealActivated, Unlocked
<1>8. CASE UNCHANGED daoVars
  <2>1. dealStatus' \in [Keys -> {"Created", "Active", "Success"}]
    BY <1>0, <1>8 DEF TableInv, daoVars, daoRows
  <2> QED
    BY <1>6, <1>8, <2>1 DEF daoVars, daoRows
<1> QED
  BY <1>1, <1>2, <1>3, <1>4, <1>5, <1>7, <1>8 DEF DaoNext, MemberStep

\* The inductive invariant holds in every reachable state.
THEOREM DaoInvariance == DaoSpec => []DaoInv
  BY DaoInitInv, DaoStepInv, PTL DEF DaoSpec

\* With its members fed by the service and its deals taken from the tables, the contract
\* does nothing it does not do by itself: what is proved of it holds here too.
THEOREM DaoKeepsToTheOracle == DaoSpec => OracleSpec
<1>1. DaoInit => OracleInit
  BY DEF DaoInit
<1>2. DaoInv /\ [DaoNext]_daoVars => [OracleNext]_oracleVars
  BY DaoStepInv
<1> QED
  BY <1>1, <1>2, DaoInvariance, PTL DEF DaoSpec, OracleSpec

\* The rows and the queue have the types the tables and the chain give them.
THEOREM DaoTypeCorrect == DaoSpec => []DaoTypeOK
<1>1. DaoInv => DaoTypeOK
  <2> SUFFICES ASSUME DaoInv PROVE DaoTypeOK
    OBVIOUS
  <2>1. TableInv
    BY DEF DaoInv
  <2>2. ASSUME NEW d \in Keys, NEW m \in Members PROVE preSign[d][m].signed <= preSign[d][m].total
    <3>1. RowOK(d, m) /\ preSign[d][m] \in PreSignRow
      BY <2>1 DEF TableInv
    <3>2. CASE preSign[d][m].status = "Success"
      <4>1. Counted(d, m) \in SUBSET AllBatches(d)
        BY DEF Counted
      <4>2. SumFunctionOnSet(Lens(d), Counted(d, m)) \in 0..Files(d) /\ Files(d) \in Nat
        BY <4>1, SomeLens, OrderedFiles
      <4> QED
        BY <3>1, <3>2, <4>2 DEF RowOK
    <3>3. CASE preSign[d][m].status # "Success"
      BY <3>1, <3>3 DEF RowOK, PreSignRow
    <3> QED
      BY <3>2, <3>3
  <2>3. \A s \in signature : s \in SignatureRow
    BY <2>1 DEF TableInv, SignatureOK
  <2>4. \A i \in DOMAIN unscanned : unscanned[i] \in Tx
    BY <2>1 DEF TableInv, TxOK, Queued
  <2> QED
    BY <2>1, <2>2, <2>3, <2>4 DEF DaoTypeOK, TableInv
<1> QED
  BY <1>1, DaoInvariance, PTL

\* All votes are for the files of the car, and nothing else is published.
THEOREM AllVotesAgree == DaoSpec => []VotesAgree
<1>1. DaoInv => VotesAgree
  <2> SUFFICES ASSUME DaoInv PROVE VotesAgree
    OBVIOUS
  <2>1. ASSUME NEW v \in userVoted PROVE v[1].list = Ordered[v[1].key]
    <3>1. v[1] = Ballot(v[1].key)
      BY DEF DaoInv, ChainInv
    <3>2. Ballot(v[1].key).list = Ordered[v[1].key]
      BY DEF Ballot
    <3> QED
      BY <3>1, <3>2
  <2>2. \A d \in Keys : cidListMap[d] \in {<<>>, Ordered[d]}
    BY DEF DaoInv, ChainInv, BallotsOK
  <2> QED
    BY <2>1, <2>2 DEF VotesAgree
<1> QED
  BY <1>1, DaoInvariance, PTL

\* A deal the tables count enough members for is one the contract would unlock.
THEOREM CountedIsUnlockable == DaoSpec => []UnlockIsAvailable
<1>1. DaoInv => UnlockIsAvailable
  <2> SUFFICES ASSUME DaoInv, NEW d \in GetDeals2Unlock PROVE IsCarPaymentAvailable(d, Recipient)
    BY DEF UnlockIsAvailable
  <2>0. ChainInv /\ TableInv /\ d \in Keys
    BY DEF DaoInv, GetDeals2Unlock
  <2> DEFINE F == {m \in Members : FullySigned(d, m)}
             V == {n \in Members : <<Ballot(d), n>> \in userVoted}
  <2>1. Cardinality(F) >= UnlockThreshold
    BY DEF GetDeals2Unlock
  <2>2. ASSUME NEW m \in F PROVE m \in Signers(d) /\ txInfo[d][m].flag
    <3>1. m \in Members /\ FullySigned(d, m) /\ RowOK(d, m)
      BY <2>0 DEF TableInv
    <3>2. /\ txInfo[d][m].flag
          /\ SumFunctionOnSet(Lens(d), Counted(d, m)) = Files(d)
      BY <3>1 DEF RowOK, FullySigned
    <3>3. Counted(d, m) \in SUBSET AllBatches(d)
      BY DEF Counted
    <3>4. Counted(d, m) = AllBatches(d)
      BY <2>0, <3>2, <3>3, SomeLens
    <3>5. \A i \in AllBatches(d) : i \notin txInfo[d][m].signStatus
      BY <3>1, <3>2, <3>4 DEF RowOK
    <3>6. txInfo[d][m].signStatus \subseteq AllBatches(d)
      BY <2>0, <3>1, <3>2 DEF ChainInv, InfoOK
    <3> QED
      BY <3>1, <3>2, <3>5, <3>6 DEF Signers
  <2>3. F \in SUBSET Signers(d) /\ Signers(d) \in SUBSET Members
    BY <2>2 DEF Signers
  <2>4. IsFiniteSet(Signers(d)) /\ IsFiniteSet(F) /\ Cardinality(F) <= Cardinality(Signers(d))
    BY <2>3, FS_Subset, OracleAssumption
  <2>5. Cardinality(F) \in Nat /\ Cardinality(Signers(d)) \in Nat
    BY <2>4, FS_CardinalityType
  <2>6. threshold \in Nat /\ threshold <= UnlockThreshold + 1 /\ UnlockThreshold \in Nat \ {0}
    BY <2>0, OracleAssumption, BatchesAssumption, DaoAssumption DEF ChainInv, OracleInv, OracleTypeOK
  <2>7. F # {}
    BY <2>1, <2>6, FS_EmptySet
  <2>8. PICK h \in Members : VotedByHash(d, h)
    BY <2>0, <2>2, <2>3, <2>7 DEF ChainInv, InfoOK
  <2>9. V \in SUBSET Members /\ Signers(d) \subseteq V /\ h \in V /\ h \in Members \ Signers(d)
    BY <2>0, <2>3, <2>8, SignersVoted DEF VotedByHash
  <2> HIDE DEF F, V
  <2>10. Cardinality(Signers(d)) + 1 <= Cardinality(V) /\ Cardinality(V) \in Nat
    BY <2>3, <2>9, OneMore
  <2>11. threshold <= Cardinality(V) /\ threshold <= Cardinality(Signers(d)) + 1
    BY <2>1, <2>4, <2>5, <2>6, <2>10
  <2>12. cidListMap[d] = Ordered[d]
    <3>1. Signers(d) # {}
      BY <2>3, <2>7
    <3>2. ~(Cardinality(Signers(d)) + 1 < threshold)
      BY <2>5, <2>6, <2>11
    <3> QED
      BY <2>0, <3>1, <3>2 DEF ChainInv, BallotsOK
  <2>13. txVoteMap[Ballot(d)] = Cardinality(V)
    BY <2>0, DealLists DEF ChainInv, OracleInv, VotesAreVoters, V
  <2> QED
    BY <2>6, <2>10, <2>11, <2>12, <2>13 DEF IsCarPaymentAvailable, Ballot
<1> QED
  BY <1>1, DaoInvariance, PTL

\* At any moment, with any transactions on their way to the tables, a member is asked
\* for the batches the contract waits for and for those on their way, but never again
\* for one a call has failed for: by the counts and signatures of the tables and the
\* records of the contract agreeing up to the queue between them.
THEOREM OpenBatchesAreTold == DaoSpec => []OpenBatchesAreOffered
<1>1. DaoInv => OpenBatchesAreOffered
  <2> SUFFICES ASSUME DaoInv, NEW m \in Members, NEW d \in Keys
               PROVE  LET offered == IF d \in GetDeals2Sign(m) THEN OpenBatches(d, m) ELSE {}
                      IN  IF preSign[d][m].status = "Success"
                          THEN offered = (txInfo[d][m].signStatus \cup WaitingBatches(d, m))
                                           \ FailedBatches(d, m)
                          ELSE offered = {} /\ (txInfo[d][m].flag => Announcing(d, m))
    BY DEF OpenBatchesAreOffered
  <2> DEFINE row == preSign[d][m]
             open == txInfo[d][m].signStatus
  <2>1. RowOK(d, m) /\ InfoOK(d, m) /\ row \in PreSignRow
    BY DEF DaoInv, TableInv, ChainInv
  <2>2. CASE row.status # "Success"
    <3>1. d \notin GetDeals2Sign(m)
      BY <2>2 DEF GetDeals2Sign
    <3>2. txInfo[d][m].flag => Announcing(d, m)
      BY <2>1, <2>2 DEF RowOK
    <3> QED
      BY <2>2, <3>1, <3>2
  <2>3. CASE row.status = "Success"
    <3>1. txInfo[d][m].flag /\ row.batchCount = BatchCount(d)
      BY <2>1, <2>3 DEF RowOK
    <3>2. \A i \in AllBatches(d) : i \in Counted(d, m) \/ i \in open \/ Waiting(d, m, i)
      BY <2>1, <3>1 DEF RowOK
    <3>3. ASSUME NEW i \in OpenBatches(d, m)
          PROVE  i \in (open \cup WaitingBatches(d, m)) \ FailedBatches(d, m)
      <4>1. i \in AllBatches(d) /\ i \notin Counted(d, m)
        BY <3>1 DEF OpenBatches, AllBatches, Counted
      <4>2. i \in Batches
        BY <4>1, DealLists
      <4>3. i \notin FailedBatches(d, m)
        BY DEF OpenBatches, FailedBatches
      <4> QED
        BY <3>2, <4>1, <4>2, <4>3 DEF WaitingBatches
    <3>4. ASSUME NEW i \in open \cup WaitingBatches(d, m)
          PROVE  i \in AllBatches(d) /\ i \notin Counted(d, m)
      <4>1. CASE i \in open
        BY <2>1, <3>1, <4>1 DEF RowOK, InfoOK
      <4>2. CASE i \in WaitingBatches(d, m)
        <5>1. PICK tx \in Queued : IsBatch(tx, d, m, i)
          BY <4>2 DEF WaitingBatches, Waiting
        <5>2. TxOK(tx)
          BY DEF DaoInv, TableInv
        <5> QED
          BY <5>1, <5>2 DEF TxOK, OfferOK, IsBatch
      <4> QED
        BY <4>1, <4>2
    <3>5. ASSUME NEW i \in (open \cup WaitingBatches(d, m)) \ FailedBatches(d, m)
          PROVE  d \in GetDeals2Sign(m) /\ i \in OpenBatches(d, m)
      <4>1. i \in AllBatches(d) /\ i \notin Counted(d, m)
        BY <3>4, <3>5
      <4>2. \A s \in SignedBy(d, m) : s.status \in {"Success", "Failed"}
        BY DEF SignedBy, DaoInv, TableInv, SignatureOK, SignatureRow
      <4>3. ~\E s \in SignedBy(d, m) : s.batchNo = i /\ ~s.byHash /\ s.status = "Failed"
        BY <3>5 DEF FailedBatches
      <4>4. ~\E s \in SignedBy(d, m) : s.batchNo = i /\ ~s.byHash
        BY <4>1, <4>2, <4>3 DEF Counted
      <4>5. i \in OpenBatches(d, m)
        BY <3>1, <4>1, <4>4 DEF OpenBatches, AllBatches
      <4>6. Counted(d, m) \in SUBSET AllBatches(d) /\ Counted(d, m) # AllBatches(d)
        BY <4>1 DEF Counted
      <4>7. /\ SumFunctionOnSet(Lens(d), Counted(d, m)) \in 0..Files(d)
            /\ SumFunctionOnSet(Lens(d), Counted(d, m)) # Files(d)
        BY <4>6, SomeLens
      <4>8. Files(d) \in Nat
        BY OrderedFiles
      <4>9. row.signed = SumFunctionOnSet(Lens(d), Counted(d, m)) /\ row.total = Files(d)
        BY <2>1, <2>3 DEF RowOK
      <4>10. row.signed < row.total
        BY <4>7, <4>8, <4>9
      <4> QED
        BY <2>3, <4>5, <4>10 DEF GetDeals2Sign
    <3>6. d \notin GetDeals2Sign(m) => (open \cup WaitingBatches(d, m)) \ FailedBatches(d, m) = {}
      BY <3>5
    <3>7. d \in GetDeals2Sign(m) =>
            OpenBatches(d, m) = (open \cup WaitingBatches(d, m)) \ FailedBatches(d, m)
      BY <3>3, <3>5
    <3> QED
      BY <2>3, <3>6, <3>7
  <2> QED
    BY <2>2, <2>3
<1> QED
  BY <1>1, DaoInvariance, PTL
=============================================================================

---------------------------- MODULE FoldTheorems ----------------------------
(***************************************************************************)
(* What the proofs need to know about sums over finite sets and about      *)
(* folds over lists.  The library defines them as recursive functions and  *)
(* its induction theorems take operators as parameters, which the provers  *)
(* used here cannot instantiate; so the first two lemmas state induction   *)
(* as the absence of a least counterexample, which has no such parameter.  *)
(* From them follow that the recursive functions exist and what they       *)
(* compute.                                                                *)
(***************************************************************************)
EXTENDS SequencesExt, FiniteSetTheorems, SequenceTheorems, TLAPS

\* Among the subsets of a finite set, a property whose every counterexample contains
\* a smaller one has none.
LEMMA FiniteSubsetInduction ==
  ASSUME NEW S, IsFiniteSet(S), NEW Bad \in SUBSET (SUBSET S),
         \A T \in Bad : \E U \in Bad : U \subseteq T /\ U # T
  PROVE  Bad = {}
<1>1. IsWellFoundedOn(StrictSubsetOrdering(S), SUBSET S)
  <2>1. FiniteSubsetsOf(S) = SUBSET S
    BY FS_FiniteSubsetsOfFinite
  <2> QED
    BY <2>1, FS_StrictSubsetOrderingWellFounded
<1>2. SUFFICES ASSUME Bad # {} PROVE FALSE
  OBVIOUS
<1>3. PICK T \in Bad : \A U \in Bad : ~(<<U, T>> \in StrictSubsetOrdering(S))
  BY <1>1, <1>2, WFMin
<1> QED
  BY <1>3 DEF StrictSubsetOrdering

\* Among the natural numbers, a property with no least counterexample has none.
LEMMA NaturalInduction ==
  ASSUME NEW Bad \in SUBSET Nat, \A n \in Bad : \E m \in Bad : m < n
  PROVE  Bad = {}
<1>1. SUFFICES ASSUME Bad # {} PROVE FALSE
  OBVIOUS
<1> DEFINE Segments == {0..n : n \in Bad}
<1>2. Segments # {}
  BY <1>1
<1>3. Segments \subseteq FiniteSubsetsOf(Nat)
  <2>1. ASSUME NEW n \in Bad PROVE 0..n \in FiniteSubsetsOf(Nat)
    <3>1. IsFiniteSet(0..n)
      BY FS_Interval
    <3>2. 0..n \subseteq Nat
      OBVIOUS
    <3> QED
      BY <3>1, <3>2 DEF FiniteSubsetsOf
  <2> QED
    BY <2>1
<1>4. PICK T \in Segments : \A U \in Segments : ~(<<U, T>> \in StrictSubsetOrdering(Nat))
  <2> HIDE DEF Segments
  <2> QED
    BY <1>2, <1>3, WFMin, FS_StrictSubsetOrderingWellFounded
<1>5. PICK n \in Bad : T = 0..n
  OBVIOUS
<1>6. PICK m \in Bad : m < n
  OBVIOUS
<1>7. 0..m \subseteq 0..n /\ n \in 0..n /\ n \notin 0..m
  BY <1>6
<1>8. 0..m \in Segments /\ 0..m \in SUBSET Nat /\ 0..n \in SUBSET Nat
  OBVIOUS
<1>9. ~(<<0..m, 0..n>> \in StrictSubsetOrdering(Nat))
  BY <1>4, <1>5, <1>8
<1> QED
  BY <1>7, <1>8, <1>9 DEF StrictSubsetOrdering

-----------------------------------------------------------------------------
\* The element that the library's folds take from a set.
Pick(s) == CHOOSE x \in s : TRUE

\* It is one of the set.
LEMMA PickIn == \A s : s # {} => Pick(s) \in s
BY DEF Pick

\* The equation by which the library defines the sum of f over the subsets of S.
IsSum(h, f, S) ==
  h = [s \in SUBSET S |-> IF s = {} THEN 0 ELSE f[Pick(s)] + h[s \ {Pick(s)}]]

\* Functions that satisfy the equation agree where both are defined.
LEMMA SumUnique ==
  ASSUME NEW f, NEW S, IsFiniteSet(S), NEW g, IsSum(g, f, S), NEW T, NEW h, IsSum(h, f, T),
         NEW U \in SUBSET S, U \subseteq T
  PROVE  g[U] = h[U]
<1> DEFINE Bad == {V \in SUBSET S : V \subseteq T /\ g[V] # h[V]}
<1>1. ASSUME NEW V \in Bad PROVE \E W \in Bad : W \subseteq V /\ W # V
  <2>1. V \in SUBSET S /\ V \in SUBSET T /\ g[V] # h[V]
    OBVIOUS
  <2>2. V # {}
    BY <2>1 DEF IsSum
  <2>3. g[V] = f[Pick(V)] + g[V \ {Pick(V)}] /\ h[V] = f[Pick(V)] + h[V \ {Pick(V)}]
    BY <2>1, <2>2 DEF IsSum
  <2>4. V \ {Pick(V)} \in Bad /\ V \ {Pick(V)} # V
    BY <2>1, <2>2, <2>3, PickIn
  <2> QED
    BY <2>4
<1>2. Bad = {}
  <2>1. Bad \in SUBSET (SUBSET S)
    OBVIOUS
  <2> HIDE DEF Bad
  <2> QED
    BY <1>1, <2>1, FiniteSubsetInduction
<1> QED
  BY <1>2

\* For a finite set there is such a function.
LEMMA SumExists ==
  ASSUME NEW f, NEW S, IsFiniteSet(S)
  PROVE  \E h : IsSum(h, f, S)
<1> DEFINE Bad == {T \in SUBSET S : ~\E h : IsSum(h, f, T)}
<1>1. ASSUME NEW T \in Bad PROVE \E U \in Bad : U \subseteq T /\ U # T
  <2>1. SUFFICES ASSUME \A U \in SUBSET T : U # T => \E h : IsSum(h, f, U) PROVE FALSE
    OBVIOUS
  <2> DEFINE G(U) == CHOOSE h : IsSum(h, f, U)
             H == [s \in SUBSET T |-> IF s = {} THEN 0 
                    ELSE f[Pick(s)] + G(s \ {Pick(s)})[s \ {Pick(s)}]]
  <2>2. ASSUME NEW U \in SUBSET T, U # T PROVE IsSum(G(U), f, U)
    BY <2>1, <2>2
  <2> HIDE DEF G
  <2>3. ASSUME NEW r \in SUBSET T, r # T PROVE H[r] = G(r)[r]
    <3>1. CASE r = {}
      <4>1. G(r)[r] = 0
        BY <2>2, <2>3, <3>1 DEF IsSum
      <4> QED
        BY <4>1, <3>1
    <3>2. CASE r # {}
      <4> DEFINE q == r \ {Pick(r)}
      <4>1. q \in SUBSET r /\ q \in SUBSET T /\ q # T /\ q \in SUBSET q
        BY <3>2, <2>3, PickIn
      <4>2. IsSum(G(r), f, r) /\ IsSum(G(q), f, q)
        BY <2>2, <2>3, <4>1
      <4>3. IsFiniteSet(r) 
        BY FS_Subset
      <4>4. G(r)[q] = G(q)[q]
        <5> HIDE DEF q
        <5> QED BY SumUnique, <4>1, <4>2, <4>3
      <4>5. G(r)[r] = f[Pick(r)] + G(r)[q]
        BY <4>2, <3>2 DEF IsSum
      <4> QED
        BY <4>4, <4>5, <3>2
    <3> QED
      BY <3>1, <3>2
  <2>4. ASSUME NEW s \in SUBSET T, s # {}
        PROVE  G(s \ {Pick(s)})[s \ {Pick(s)}] = H[s \ {Pick(s)}]
    BY <2>3, <2>4, PickIn
  <2>5. IsSum(H, f, T)
    <3>1. H = [s \in SUBSET T |-> IF s = {} THEN 0 ELSE f[Pick(s)] + H[s \ {Pick(s)}]]
      BY <2>4
    <3> QED
      <4> HIDE DEF H
      <4> QED BY <3>1 DEF IsSum
  <2> QED
    BY <2>5
<1>2. Bad = {}
  <2>1. Bad \in SUBSET (SUBSET S)
    OBVIOUS
  <2> HIDE DEF Bad
  <2> QED
    BY <1>1, <2>1, FiniteSubsetInduction
<1> QED
  BY <1>2

\* So the sum of the library is the value of one.
LEMMA SumIsSum ==
  ASSUME NEW f, NEW S, IsFiniteSet(S)
  PROVE  \E h : IsSum(h, f, S) /\ SumFunctionOnSet(f, S) = h[S]
<1>1. SumFunctionOnSet(f, S) = (CHOOSE h : IsSum(h, f, S))[S]
  BY DEF SumFunctionOnSet, FoldFunctionOnSet, MapThenFoldSet, IsSum, Pick
<1> QED
  BY <1>1, SumExists

-----------------------------------------------------------------------------
\* The sum over no elements is 0.
LEMMA SumEmpty ==
  ASSUME NEW f
  PROVE  SumFunctionOnSet(f, {}) = 0
<1>1. IsFiniteSet({})
  BY FS_EmptySet
<1>2. PICK h : IsSum(h, f, {}) /\ SumFunctionOnSet(f, {}) = h[{}]
  BY <1>1, SumIsSum
<1>3. {} \in SUBSET {}
  OBVIOUS
<1>4. h[{}] = 0
  BY <1>2, <1>3 DEF IsSum
<1> QED
  BY <1>2, <1>4

\* The sum is a term and the sum over the other elements, for the element that the
\* definition takes.
LEMMA SumPicked ==
  ASSUME NEW f, NEW S, IsFiniteSet(S), S # {}
  PROVE  SumFunctionOnSet(f, S) = f[Pick(S)] + SumFunctionOnSet(f, S \ {Pick(S)})
<1> DEFINE T == S \ {Pick(S)}
<1>1. PICK h : IsSum(h, f, S) /\ SumFunctionOnSet(f, S) = h[S]
  BY SumIsSum
<1>2. IsFiniteSet(T)
  BY FS_Subset
<1>3. PICK g : IsSum(g, f, T) /\ SumFunctionOnSet(f, T) = g[T]
  <2> HIDE DEF T
  <2> QED BY SumIsSum, <1>2
<1>4. h[T] = g[T]
  <2>1. T \in SUBSET S /\ T \in SUBSET T
    OBVIOUS
  <2> HIDE DEF T
  <2> QED BY <1>1, <1>3, <2>1, SumUnique
<1>5. h[S] = f[Pick(S)] + h[T]
  BY <1>1 DEF IsSum
<1> QED
  BY <1>1, <1>3, <1>4, <1>5

\* A sum of integers is an integer.
LEMMA SumInt ==
  ASSUME NEW f, NEW S, IsFiniteSet(S), \A x \in S : f[x] \in Int
  PROVE  SumFunctionOnSet(f, S) \in Int
<1> DEFINE Bad == {T \in SUBSET S : SumFunctionOnSet(f, T) \notin Int}
<1>1. ASSUME NEW T \in Bad PROVE \E U \in Bad : U \subseteq T /\ U # T
  <2>1. T # {}
    BY SumEmpty
  <2>2. IsFiniteSet(T) /\ Pick(T) \in T
    BY <2>1, FS_Subset, PickIn
  <2>3. SumFunctionOnSet(f, T) = f[Pick(T)] + SumFunctionOnSet(f, T \ {Pick(T)})
    BY <2>1, <2>2, SumPicked
  <2>4. T \ {Pick(T)} \in Bad
    BY <2>2, <2>3
  <2> QED
    BY <2>2, <2>4
<1>2. Bad = {}
  <2>1. Bad \in SUBSET (SUBSET S)
    OBVIOUS
  <2> HIDE DEF Bad
  <2> QED
    BY <1>1, <2>1, FiniteSubsetInduction
<1> QED
  BY <1>2

\* The sum is a term and the sum over the other elements, for any element.
LEMMA SumRemove ==
  ASSUME NEW f, NEW S, IsFiniteSet(S), \A x \in S : f[x] \in Int, NEW y \in S
  PROVE  SumFunctionOnSet(f, S) = f[y] + SumFunctionOnSet(f, S \ {y})
<1> DEFINE Total(T) == SumFunctionOnSet(f, T)
           Good(T, x) == Total(T) = f[x] + Total(T \ {x})
           Bad == {T \in SUBSET S : \E x \in T : ~Good(T, x)}
<1>1. ASSUME NEW T \in Bad PROVE \E U \in Bad : U \subseteq T /\ U # T
  <2>1. PICK x \in T : ~Good(T, x)
    OBVIOUS
  <2> DEFINE p == Pick(T)
  <2>2. IsFiniteSet(T) /\ p \in T
    BY FS_Subset, PickIn
  <2>3. Good(T, p)
    BY <2>2, SumPicked
  <2> HIDE DEF p
  <2>4. p # x
    BY <2>1, <2>3
  <2>5. SUFFICES ASSUME T \ {p} \notin Bad, T \ {x} \notin Bad PROVE FALSE
    BY <2>1, <2>2
  <2>6. Good(T \ {p}, x) /\ Good(T \ {x}, p)
    BY <2>1, <2>2, <2>4, <2>5
  <2>7. Total((T \ {p}) \ {x}) \in Int
    <3>1. IsFiniteSet((T \ {p}) \ {x}) /\ (T \ {p}) \ {x} \in SUBSET S
      BY <2>2, FS_Subset
    <3> QED
      BY <3>1, SumInt
  <2>8. (T \ {p}) \ {x} = (T \ {x}) \ {p}
    OBVIOUS
  <2>9. f[p] \in Int /\ f[x] \in Int
    BY <2>1, <2>2
  <2> DEFINE rest == Total((T \ {p}) \ {x})
  <2>10. Total(T) = f[p] + (f[x] + rest) /\ Total(T \ {x}) = f[p] + rest
    BY <2>3, <2>6, <2>8
  <2>11. rest \in Int
    BY <2>7
  <2> HIDE DEF rest, Total
  <2>12. Total(T) = f[x] + Total(T \ {x})
    BY <2>9, <2>10, <2>11
  <2> QED
    BY <2>1, <2>12
<1>2. Bad = {}
  <2>1. Bad \in SUBSET (SUBSET S)
    OBVIOUS
  <2> HIDE DEF Bad
  <2> QED
    BY <1>1, <2>1, FiniteSubsetInduction
<1> QED
  BY <1>2

\* A sum of natural numbers is one.
LEMMA SumNat ==
  ASSUME NEW f, NEW S, IsFiniteSet(S), \A x \in S : f[x] \in Nat
  PROVE  SumFunctionOnSet(f, S) \in Nat
<1> DEFINE Bad == {T \in SUBSET S : SumFunctionOnSet(f, T) \notin Nat}
<1>1. ASSUME NEW T \in Bad PROVE \E U \in Bad : U \subseteq T /\ U # T
  <2>1. T # {}
    BY SumEmpty
  <2>2. IsFiniteSet(T) /\ Pick(T) \in T
    BY <2>1, FS_Subset, PickIn
  <2>3. SumFunctionOnSet(f, T) = f[Pick(T)] + SumFunctionOnSet(f, T \ {Pick(T)})
    BY <2>1, <2>2, SumPicked
  <2>4. T \ {Pick(T)} \in Bad
    BY <2>2, <2>3
  <2> QED
    BY <2>2, <2>4
<1>2. Bad = {}
  <2>1. Bad \in SUBSET (SUBSET S)
    OBVIOUS
  <2> HIDE DEF Bad
  <2> QED
    BY <1>1, <2>1, FiniteSubsetInduction
<1> QED
  BY <1>2

\* No term of a sum of natural numbers exceeds it.
LEMMA SumTermAtMost ==
  ASSUME NEW f, NEW S, IsFiniteSet(S), \A x \in S : f[x] \in Nat, NEW y \in S
  PROVE  f[y] =< SumFunctionOnSet(f, S)
<1>1. SumFunctionOnSet(f, S \ {y}) \in Nat
  <2>1. IsFiniteSet(S \ {y})
    BY FS_Subset
  <2> QED
    BY <2>1, SumNat
<1>2. SumFunctionOnSet(f, S) = f[y] + SumFunctionOnSet(f, S \ {y})
  BY SumRemove
<1> QED
  BY <1>1, <1>2

\* A sum of natural numbers is at least the sum of some of them.
LEMMA SumSubset ==
  ASSUME NEW f, NEW S, IsFiniteSet(S), \A x \in S : f[x] \in Nat, NEW T \in SUBSET S
  PROVE  SumFunctionOnSet(f, T) =< SumFunctionOnSet(f, S)
<1> DEFINE Total(U) == SumFunctionOnSet(f, U)
           Bad == {U \in SUBSET S : T \subseteq U /\ ~(Total(T) =< Total(U))}
<1>1. ASSUME NEW U \in SUBSET S PROVE IsFiniteSet(U) /\ Total(U) \in Nat
  <2>1. IsFiniteSet(U)
    BY FS_Subset
  <2> QED
    BY <2>1, SumNat
<1>2. ASSUME NEW U \in Bad PROVE \E V \in Bad : V \subseteq U /\ V # U
  <2>1. U \in SUBSET S /\ T \subseteq U /\ ~(Total(T) =< Total(U))
    OBVIOUS
  <2>2. T # U
    BY <1>1, <2>1
  <2>3. PICK y \in U : y \notin T
    BY <2>1, <2>2
  <2>4. Total(U) = f[y] + Total(U \ {y})
    <3>1. IsFiniteSet(U) /\ \A x \in U : f[x] \in Int
      BY <1>1, <2>1
    <3> QED
      BY <3>1, SumRemove
  <2>5. U \ {y} \in SUBSET S /\ T \subseteq U \ {y} /\ U \ {y} \subseteq U /\ U \ {y} # U
    BY <2>1, <2>3
  <2>6. f[y] \in Nat /\ Total(U) \in Nat /\ Total(U \ {y}) \in Nat /\ Total(T) \in Nat
    BY <1>1, <2>1, <2>5
  <2> HIDE DEF Total
  <2>7. ~(Total(T) =< Total(U \ {y}))
    BY <2>1, <2>4, <2>6
  <2> QED
    BY <2>5, <2>7
<1>3. Bad = {}
  <2>1. Bad \in SUBSET (SUBSET S)
    OBVIOUS
  <2> HIDE DEF Bad
  <2> QED
    BY <1>2, <2>1, FiniteSubsetInduction
<1> QED
  BY <1>3

\* Taking c times g from every term in T takes c times the sum of g over T.
LEMMA SumTake ==
  ASSUME NEW S, IsFiniteSet(S), NEW T \in SUBSET S, NEW c \in Int,
         NEW f, NEW g, NEW h,
         \A x \in S : f[x] \in Int /\ g[x] \in Int,
         \A x \in T : h[x] = f[x] - c * g[x],
         \A x \in S \ T : h[x] = f[x]
  PROVE  SumFunctionOnSet(h, S) = SumFunctionOnSet(f, S) - c * SumFunctionOnSet(g, T)
<1> DEFINE Good(U) == SumFunctionOnSet(h, U) = SumFunctionOnSet(f, U) - c * SumFunctionOnSet(g, U \cap T)
           Bad == {U \in SUBSET S : ~Good(U)}
<1>1. ASSUME NEW U \in Bad PROVE \E V \in Bad : V \subseteq U /\ V # U
  <2>1. U # {}
    <3>1. {} \cap T = {} /\ 0 = 0 - c * 0
      OBVIOUS
    <3>2. Good({})
      BY <3>1, SumEmpty
    <3> QED
      BY <3>2
  <2>2. PICK p \in U : TRUE
    BY <2>1
  <2> DEFINE V == U \ {p}
             W == U \cap T
  <2>3. V \subseteq U /\ V # U /\ V \in SUBSET S /\ W \in SUBSET S /\ V \cap T \in SUBSET S
    BY <2>2
  <2>4. IsFiniteSet(U) /\ IsFiniteSet(V) /\ IsFiniteSet(W) /\ IsFiniteSet(V \cap T)
    BY <2>3, FS_Subset
  <2>5. SUFFICES ASSUME Good(V) PROVE Good(U)
    BY <2>3
  <2>6. \A x \in S : h[x] \in Int
    OBVIOUS
  <2>7. SumFunctionOnSet(h, U) = h[p] + SumFunctionOnSet(h, V)
    BY <2>2, <2>4, <2>6, SumRemove
  <2>8. SumFunctionOnSet(f, U) = f[p] + SumFunctionOnSet(f, V)
    BY <2>2, <2>4, SumRemove
  <2>9. /\ SumFunctionOnSet(h, V) \in Int /\ SumFunctionOnSet(f, V) \in Int
        /\ SumFunctionOnSet(g, V \cap T) \in Int
    <3> HIDE DEF V
    <3> QED BY <2>3, <2>4, <2>6, SumInt
  <2>10. CASE p \in T
    <3>1. V \cap T = W \ {p} /\ p \in W
      BY <2>2, <2>10
    <3>2. SumFunctionOnSet(g, W) = g[p] + SumFunctionOnSet(g, V \cap T)
      <4> HIDE DEF V, W
      <4>1. \A x \in W : g[x] \in Int
        BY <2>3
      <4> QED
        BY <3>1, <2>4, <4>1, SumRemove
    <3>3. h[p] = f[p] - c * g[p] /\ f[p] \in Int /\ g[p] \in Int
      BY <2>10, <2>2
    <3> DEFINE a == SumFunctionOnSet(h, V)
               b == SumFunctionOnSet(f, V)
               d == SumFunctionOnSet(g, V \cap T)
    <3>4. a = b - c * d /\ a \in Int /\ b \in Int /\ d \in Int
      BY <2>5, <2>9
    <3>5. (f[p] - c * g[p]) + (b - c * d) = (f[p] + b) - c * (g[p] + d)
      <4> HIDE DEF b, d
      <4> QED BY <3>3, <3>4
    <3> HIDE DEF V
    <3> QED
      BY <3>2, <3>3, <3>4, <3>5, <2>7, <2>8
  <2>11. CASE p \notin T
    <3>1. V \cap T = U \cap T
      BY <2>11
    <3>2. h[p] = f[p] /\ f[p] \in Int
      BY <2>11, <2>2
    <3> DEFINE a == SumFunctionOnSet(h, V)
               b == SumFunctionOnSet(f, V)
               d == c * SumFunctionOnSet(g, U \cap T)
    <3>3. a = b - d /\ a \in Int /\ b \in Int /\ d \in Int
      <4> HIDE DEF V
      <4>1. SumFunctionOnSet(g, U \cap T) \in Int
        BY <3>1, <2>9
      <4>2. a = b - d
        BY <3>1, <2>5
      <4> QED
        BY <4>1, <4>2, <2>9
    <3>4. SumFunctionOnSet(h, U) = h[p] + a /\ SumFunctionOnSet(f, U) = f[p] + b
      BY <2>7, <2>8
    <3> HIDE DEF a, b, d
    <3>5. SumFunctionOnSet(h, U) = SumFunctionOnSet(f, U) - d
      BY <3>2, <3>3, <3>4
    <3> QED
      BY <3>5 DEF d
  <2> QED
    BY <2>10, <2>11
<1>2. Bad = {}
  <2>1. Bad \in SUBSET (SUBSET S)
    OBVIOUS
  <2> HIDE DEF Bad
  <2> QED
    BY <1>1, <2>1, FiniteSubsetInduction
<1>3. S \cap T = T /\ S \in SUBSET S
  OBVIOUS
<1> QED
  BY <1>2, <1>3

\* A sum of zeros is 0.
LEMMA SumZero ==
  ASSUME NEW S, IsFiniteSet(S), NEW f, \A x \in S : f[x] = 0
  PROVE  SumFunctionOnSet(f, S) = 0
<1>1. PICK c \in Int : c = 1
  OBVIOUS
<1>2. \A x \in S : f[x] \in Int /\ f[x] = f[x] - c * f[x]
  BY <1>1
<1>3. S \in SUBSET S /\ \A x \in S \ S : f[x] = f[x]
  OBVIOUS
<1>4. SumFunctionOnSet(f, S) = SumFunctionOnSet(f, S) - c * SumFunctionOnSet(f, S)
  BY <1>2, <1>3, SumTake
<1>5. SumFunctionOnSet(f, S) \in Int
  BY <1>2, SumInt
<1> QED
  BY <1>1, <1>4, <1>5

\* The sum depends on the terms in the set only.
LEMMA SumSame ==
  ASSUME NEW S, IsFiniteSet(S), NEW f, NEW g,
         \A x \in S : f[x] \in Int, \A x \in S : g[x] = f[x]
  PROVE  SumFunctionOnSet(g, S) = SumFunctionOnSet(f, S)
<1>1. {} \in SUBSET S /\ SumFunctionOnSet(f, {}) = 0
  BY SumEmpty
<1>2. SumFunctionOnSet(g, S) = SumFunctionOnSet(f, S) - 0 * SumFunctionOnSet(f, {})
  <2>1. PICK c \in Int : c = 0
    OBVIOUS
  <2>2. PICK none \in SUBSET S : none = {}
    OBVIOUS
  <2>3. \A x \in none : g[x] = f[x] - c * f[x]
    BY <2>2
  <2>4. \A x \in S \ none : g[x] = f[x]
    OBVIOUS
  <2>5. SumFunctionOnSet(g, S) = SumFunctionOnSet(f, S) - c * SumFunctionOnSet(f, none)
    BY <2>3, <2>4, SumTake
  <2> QED
    BY <2>1, <2>2, <2>5
<1>3. SumFunctionOnSet(f, S) \in Int
  BY SumInt
<1> QED
  BY <1>1, <1>2, <1>3

\* Changing one term changes the sum by as much.
LEMMA SumChange ==
  ASSUME NEW S, IsFiniteSet(S), NEW f, NEW g, NEW y \in S,
         \A x \in S : f[x] \in Int, g[y] \in Int,
         \A x \in S \ {y} : g[x] = f[x]
  PROVE  SumFunctionOnSet(g, S) = SumFunctionOnSet(f, S) - f[y] + g[y]
<1> DEFINE T == S \ {y}
<1>1. IsFiniteSet(T)
  BY FS_Subset
<1>2. \A x \in S : g[x] \in Int
  OBVIOUS
<1>3. SumFunctionOnSet(f, S) = f[y] + SumFunctionOnSet(f, T)
  BY SumRemove
<1>4. SumFunctionOnSet(g, S) = g[y] + SumFunctionOnSet(g, T)
  BY <1>2, SumRemove
<1>5. \A x \in T : f[x] \in Int /\ g[x] = f[x]
  OBVIOUS
<1> HIDE DEF T
<1>6. SumFunctionOnSet(g, T) = SumFunctionOnSet(f, T) /\ SumFunctionOnSet(f, T) \in Int
  BY <1>1, <1>5, SumSame, SumInt
<1> QED
  BY <1>3, <1>4, <1>6

-----------------------------------------------------------------------------
\* Lists without repetition: an element is put at the end, unless it is in the list.
Put(list, x) == IF Contains(list, x) THEN list ELSE Append(list, x)
Dedupe(q) ==
  FoldLeft(LAMBDA list, x : IF Contains(list, x) THEN list ELSE Append(list, x), <<>>, q)

\* The equations by which the library defines the fold and FlattenSeq.
IsDedupe(h, q, S) ==
  h = [s \in SUBSET S |-> IF s = {} THEN <<>> ELSE Put(h[s \ {Max(s)}], q[Max(s)])]
IsFlatten(h, q, n) ==
  h = [i \in 1..n |-> IF i = 1 THEN q[i] ELSE h[i - 1] \o q[i]]

\* Among natural numbers up to n there is a largest.
LEMMA MaxIn ==
  ASSUME NEW n \in Nat, NEW s \in SUBSET (1..n), s # {}
  PROVE  Max(s) \in s /\ \A y \in s : Max(s) >= y
<1> DEFINE Bad == {k \in Nat : n - k \in s}
<1>1. PICK k \in Bad : \A m \in Bad : ~(m < k)
  <2>1. PICK x \in s : TRUE
    OBVIOUS
  <2>2. x \in 1..n /\ n - x \in Nat /\ n - (n - x) = x
    OBVIOUS
  <2>3. Bad # {}
    BY <2>1, <2>2
  <2>4. Bad \in SUBSET Nat
    OBVIOUS
  <2> HIDE DEF Bad
  <2> QED
    BY <2>3, <2>4, NaturalInduction
<1>2. \A y \in s : n - k >= y
  <2> SUFFICES ASSUME NEW y \in s PROVE n - k >= y
    OBVIOUS
  <2>1. y \in 1..n /\ n - y \in Nat /\ n - (n - y) = y
    OBVIOUS
  <2>2. n - y \in Bad
    BY <2>1
  <2>3. ~(n - y < k) /\ k \in Nat
    <3> HIDE DEF Bad
    <3>1. k \in Nat
      BY DEF Bad
    <3> QED
      BY <1>1, <2>2, <3>1
  <2> QED
    BY <2>1, <2>3
<1> QED
  BY <1>1, <1>2 DEF Max

\* The largest of the first numbers is the last.
LEMMA MaxOfInterval ==
  ASSUME NEW n \in Nat, NEW s \in SUBSET (1..n), n \in s
  PROVE  Max(s) = n
<1>1. Max(s) \in s /\ Max(s) >= n
  BY MaxIn
<1>2. Max(s) \in 1..n
  BY <1>1
<1> QED
  BY <1>1, <1>2

\* There is such a fold.
LEMMA DedupeExists ==
  ASSUME NEW q, NEW n \in Nat
  PROVE  \E h : IsDedupe(h, q, 1..n)
<1> DEFINE Bad == {k \in Nat : ~\E h : IsDedupe(h, q, 1..k)}
<1>1. ASSUME NEW k \in Bad PROVE \E m \in Bad : m < k
  <2>1. CASE k = 0
    <3> DEFINE h == [s \in {{}} |-> <<>>]
    <3>1. SUBSET (1..k) = {{}}
      BY <2>1
    <3>2. h = [s \in SUBSET (1..k) |-> IF s = {} THEN <<>>
                                       ELSE Put(h[s \ {Max(s)}], q[Max(s)])]
      BY <3>1
    <3>3. IsDedupe(h, q, 1..k)
      <4> HIDE DEF h
      <4> QED BY <3>2 DEF IsDedupe
    <3> QED
      BY <3>3
  <2>2. CASE k # 0
    <3>1. k - 1 \in Nat /\ k - 1 < k
      BY <2>2
    <3>2. SUFFICES ASSUME k - 1 \notin Bad PROVE FALSE
      BY <3>1
    <3>3. PICK h : IsDedupe(h, q, 1..(k - 1))
      BY <3>1, <3>2
    <3> DEFINE H == [s \in SUBSET (1..k) |-> IF k \in s THEN Put(h[s \ {k}], q[k]) ELSE h[s]]
    <3>4. ASSUME NEW s \in SUBSET (1..k)
          PROVE  H[s] = IF s = {} THEN <<>> ELSE Put(H[s \ {Max(s)}], q[Max(s)])
      <4>1. CASE k \in s
        <5>1. Max(s) = k
          BY <4>1, MaxOfInterval
        <5>2. s # {} /\ s \ {k} \in SUBSET (1..k) /\ k \notin s \ {k}
          BY <4>1
        <5> QED
          BY <4>1, <5>1, <5>2
      <4>2. CASE k \notin s
        <5>1. s \in SUBSET (1..(k - 1))
          BY <4>2
        <5>2. h[s] = IF s = {} THEN <<>> ELSE Put(h[s \ {Max(s)}], q[Max(s)])
          BY <3>3, <5>1 DEF IsDedupe
        <5>3. s \ {Max(s)} \in SUBSET (1..k) /\ k \notin s \ {Max(s)}
          BY <4>2
        <5> QED
          BY <4>2, <5>2, <5>3
      <4> QED
        BY <4>1, <4>2
    <3>5. IsDedupe(H, q, 1..k)
      <4>1. H = [s \in SUBSET (1..k) |-> H[s]]
        OBVIOUS
      <4> HIDE DEF H
      <4> QED
        BY <3>4, <4>1 DEF IsDedupe
    <3> QED
      BY <3>5
  <2> QED
    BY <2>1, <2>2
<1>2. Bad = {}
  <2>1. Bad \in SUBSET Nat
    OBVIOUS
  <2> HIDE DEF Bad
  <2> QED
    BY <1>1, <2>1, NaturalInduction
<1> QED
  BY <1>2

\* The fold, element after element.
LEMMA DedupeSteps ==
  ASSUME NEW S, NEW q \in Seq(S)
  PROVE  \E g : /\ g[0] = <<>>
                /\ \A i \in 1..Len(q) : g[i] = Put(g[i - 1], q[i])
                /\ Dedupe(q) = g[Len(q)]
<1> DEFINE n == Len(q)
<1>1. n \in Nat /\ DOMAIN q = 1..n
  BY LenProperties
<1>2. Dedupe(q) = (CHOOSE h : IsDedupe(h, q, DOMAIN q))[DOMAIN q]
  BY DEF Dedupe, FoldLeft, MapThenFoldSet, IsDedupe, Put
<1>3. PICK h : IsDedupe(h, q, 1..n) /\ Dedupe(q) = h[1..n]
  <2> HIDE DEF n
  <2> QED BY <1>1, <1>2, DedupeExists
<1> DEFINE g == [i \in 0..n |-> h[1..i]]
<1>4. g[0] = <<>>
  <2>1. 1..0 = {} /\ {} \in SUBSET (1..n) /\ 0 \in 0..n
    BY <1>1
  <2>2. h[{}] = <<>>
    BY <1>3, <2>1 DEF IsDedupe
  <2> QED
    BY <2>1, <2>2
<1>5. ASSUME NEW i \in 1..n PROVE g[i] = Put(g[i - 1], q[i])
  <2>1. i \in Nat /\ i \in 1..i /\ 1..i \in SUBSET (1..n) /\ (1..i) \ {i} = 1..(i - 1)
    BY <1>1
  <2>2. Max(1..i) = i
    BY <2>1, MaxOfInterval
  <2>3. h[1..i] = Put(h[(1..i) \ {i}], q[i])
    BY <1>3, <2>1, <2>2 DEF IsDedupe
  <2>4. i \in 0..n /\ i - 1 \in 0..n
    BY <1>1
  <2>5. g[i] = h[1..i] /\ g[i - 1] = h[1..(i - 1)]
    BY <2>4
  <2>6. (1..i) \ {i} = 1..(i - 1)
    BY <2>1
  <2> HIDE DEF g
  <2> QED
    BY <2>3, <2>5, <2>6
<1>6. Dedupe(q) = g[n]
  BY <1>1, <1>3
<1> HIDE DEF g, n
<1> QED
  BY <1>4, <1>5, <1>6 DEF n

\* No element is in the list twice.
LEMMA DedupeOnce ==
  ASSUME NEW S, NEW q \in Seq(S)
  PROVE  Dedupe(q) \in Seq(S) /\ IsInjective(Dedupe(q))
<1>1. PICK g : /\ g[0] = <<>>
               /\ \A i \in 1..Len(q) : g[i] = Put(g[i - 1], q[i])
               /\ Dedupe(q) = g[Len(q)]
  BY DedupeSteps
<1> DEFINE Good(i) == g[i] \in Seq(S) /\ IsInjective(g[i])
           Bad == {i \in 0..Len(q) : ~Good(i)}
<1>2. ASSUME NEW i \in Bad PROVE \E m \in Bad : m < i
  <2>0. Len(q) \in Nat
    BY LenProperties
  <2>1. CASE i = 0
    <3>1. <<>> \in Seq(S) /\ DOMAIN <<>> = {}
      OBVIOUS
    <3>2. Good(0)
      BY <1>1, <3>1 DEF IsInjective
    <3> QED
      BY <2>1, <3>2
  <2>2. CASE i # 0
    <3>1. i \in 1..Len(q) /\ i - 1 \in 0..Len(q) /\ i - 1 < i
      BY <2>0, <2>2
    <3>2. SUFFICES ASSUME Good(i - 1) PROVE Good(i)
      BY <3>1
    <3> DEFINE list == g[i - 1]
    <3>3. g[i] = Put(list, q[i]) /\ q[i] \in S /\ list \in Seq(S) /\ IsInjective(list)
      BY <1>1, <3>1, <3>2, ElementOfSeq
    <3> HIDE DEF list
    <3>4. CASE Contains(list, q[i])
      BY <3>3, <3>4 DEF Put
    <3>5. CASE ~Contains(list, q[i])
      <4> DEFINE new == Append(list, q[i])
      <4>1. /\ new \in Seq(S) /\ Len(new) = Len(list) + 1
            /\ \A j \in 1..Len(list) : new[j] = list[j]
            /\ new[Len(list) + 1] = q[i]
        BY <3>3, AppendProperties
      <4>2. /\ Len(list) \in Nat /\ DOMAIN list = 1..Len(list) /\ DOMAIN new = 1..(Len(list) + 1)
        BY <3>3, <4>1, LenProperties
      <4> HIDE DEF new
      <4>3. \A j \in 1..Len(list) : list[j] # q[i]
        BY <3>5 DEF Contains
      <4>4. IsInjective(new)
        BY <3>3, <4>1, <4>2, <4>3 DEF IsInjective
      <4> QED
        BY <3>3, <3>5, <4>1, <4>4 DEF Put, new
    <3> QED
      BY <3>4, <3>5
  <2> QED
    BY <2>1, <2>2
<1>3. Bad = {}
  <2>1. Bad \in SUBSET Nat
    OBVIOUS
  <2> HIDE DEF Bad
  <2> QED
    BY <1>2, <2>1, NaturalInduction
<1>4. Len(q) \in 0..Len(q)
  BY LenProperties
<1> QED
  BY <1>1, <1>3, <1>4

\* A list without repetition stays as it is.
LEMMA DedupeSame ==
  ASSUME NEW S, NEW q \in Seq(S), IsInjective(q)
  PROVE  Dedupe(q) = q
<1>1. PICK g : /\ g[0] = <<>>
               /\ \A i \in 1..Len(q) : g[i] = Put(g[i - 1], q[i])
               /\ Dedupe(q) = g[Len(q)]
  BY DedupeSteps
<1>0. Len(q) \in Nat /\ DOMAIN q = 1..Len(q) /\ \A i \in 1..Len(q) : q[i] \in S
  BY LenProperties, ElementOfSeq
<1> DEFINE Good(i) == g[i] = SubSeq(q, 1, i)
           Bad == {i \in 0..Len(q) : ~Good(i)}
<1>2. ASSUME NEW i \in Bad PROVE \E m \in Bad : m < i
  <2>1. CASE i = 0
    <3>1. SubSeq(q, 1, 0) = <<>>
      BY SubSeqEmpty
    <3> QED
      BY <1>1, <2>1, <3>1
  <2>2. CASE i # 0
    <3>1. i \in 1..Len(q) /\ i - 1 \in 0..Len(q) /\ i - 1 < i
      BY <1>0, <2>2
    <3>2. SUFFICES ASSUME Good(i - 1) PROVE Good(i)
      BY <3>1
    <3> DEFINE list == SubSeq(q, 1, i - 1)
    <3>3. g[i] = Put(list, q[i]) /\ q[i] \in S
      BY <1>0, <1>1, <3>1, <3>2
    <3>4. /\ list \in Seq(S) /\ Len(list) = i - 1
          /\ \A j \in 1..(i - 1) : list[j] = q[j]
      BY <1>0, <3>1
    <3> HIDE DEF list
    <3>5. ~Contains(list, q[i])
      BY <1>0, <3>1, <3>4 DEF Contains, IsInjective
    <3>6. SubSeq(q, 1, i) = Append(list, q[i])
      <4>1. /\ SubSeq(q, 1, i) \in Seq(S) /\ Len(SubSeq(q, 1, i)) = i
            /\ \A j \in 1..i : SubSeq(q, 1, i)[j] = q[j]
        BY <1>0, <3>1
      <4>2. /\ Append(list, q[i]) \in Seq(S) /\ Len(Append(list, q[i])) = i
            /\ \A j \in 1..i : Append(list, q[i])[j] = q[j]
        BY <1>0, <3>1, <3>3, <3>4, AppendProperties
      <4> QED
        BY <4>1, <4>2, SeqEqual
    <3> QED
      BY <3>3, <3>5, <3>6 DEF Put
  <2> QED
    BY <2>1, <2>2
<1>3. Bad = {}
  <2>1. Bad \in SUBSET Nat
    OBVIOUS
  <2> HIDE DEF Bad
  <2> QED
    BY <1>2, <2>1, NaturalInduction
<1>4. SubSeq(q, 1, Len(q)) = q
  BY SubSeqFull
<1>5. Good(Len(q))
  BY <1>0, <1>3
<1> QED
  BY <1>1, <1>4, <1>5

-----------------------------------------------------------------------------
\* g[i] joins the first i lists of q.
IsJoined(g, q, n) == g[1] = q[1] /\ \A i \in 2..n : g[i] = g[i - 1] \o q[i]

\* FlattenSeq joins them one by one.
LEMMA FlattenSteps ==
  ASSUME NEW n \in Nat \ {0}, NEW q, Len(q) = n
  PROVE  \E g : IsJoined(g, q, n) /\ FlattenSeq(q) = g[n]
<1> DEFINE Bad == {k \in Nat : ~\E h : IsFlatten(h, q, k)}
<1>1. ASSUME NEW k \in Bad PROVE \E m \in Bad : m < k
  <2>1. CASE k = 0
    <3> DEFINE h == [i \in {} |-> i]
    <3>1. 1..k = {}
      BY <2>1
    <3>2. h = [i \in 1..k |-> IF i = 1 THEN q[i] ELSE h[i - 1] \o q[i]]
      BY <3>1
    <3>3. IsFlatten(h, q, k)
      <4> HIDE DEF h
      <4> QED BY <3>2 DEF IsFlatten
    <3> QED
      BY <3>3
  <2>2. CASE k # 0
    <3>1. k - 1 \in Nat /\ k - 1 < k
      BY <2>2
    <3>2. SUFFICES ASSUME k - 1 \notin Bad PROVE FALSE
      BY <3>1
    <3>3. PICK h : IsFlatten(h, q, k - 1)
      BY <3>1, <3>2
    <3> DEFINE H == [i \in 1..k |-> IF i = k THEN (IF k = 1 THEN q[k] ELSE h[k - 1] \o q[k])
                                    ELSE h[i]]
    <3>4. ASSUME NEW i \in 1..k
          PROVE  H[i] = IF i = 1 THEN q[i] ELSE H[i - 1] \o q[i]
      <4>1. CASE i = k
        <5>1. i # 1 => i - 1 \in 1..k /\ i - 1 # k
          BY <2>2
        <5> QED
          BY <4>1, <5>1
      <4>2. CASE i # k
        <5>1. i \in 1..(k - 1) /\ (i # 1 => i - 1 \in 1..k /\ i - 1 # k)
          BY <4>2
        <5>2. h[i] = IF i = 1 THEN q[i] ELSE h[i - 1] \o q[i]
          BY <3>3, <5>1 DEF IsFlatten
        <5> QED
          BY <4>2, <5>1, <5>2
      <4> QED
        BY <4>1, <4>2
    <3>5. IsFlatten(H, q, k)
      <4>1. H = [i \in 1..k |-> H[i]]
        OBVIOUS
      <4> HIDE DEF H
      <4> QED
        BY <3>4, <4>1 DEF IsFlatten
    <3> QED
      BY <3>5
  <2> QED
    BY <2>1, <2>2
<1>2. Bad = {}
  <2>1. Bad \in SUBSET Nat
    OBVIOUS
  <2> HIDE DEF Bad
  <2> QED
    BY <1>1, <2>1, NaturalInduction
<1>3. FlattenSeq(q) = (CHOOSE h : IsFlatten(h, q, n))[n]
  BY DEF FlattenSeq, IsFlatten
<1>4. PICK h : IsFlatten(h, q, n) /\ FlattenSeq(q) = h[n]
  BY <1>2, <1>3
<1>5. \A i \in 1..n : h[i] = IF i = 1 THEN q[i] ELSE h[i - 1] \o q[i]
  BY <1>4 DEF IsFlatten
<1>6. h[1] = q[1] /\ \A i \in 2..n : h[i] = h[i - 1] \o q[i]
  <2>1. 1 \in 1..n /\ \A i \in 2..n : i \in 1..n /\ i # 1
    OBVIOUS
  <2> QED
    BY <1>5, <2>1, Zenon
<1> QED
  BY <1>4, <1>6 DEF IsJoined

\* Joined lists over a set are a list over it.
LEMMA FlattenType ==
  ASSUME NEW S, NEW n \in Nat \ {0}, NEW q, Len(q) = n, \A i \in 1..n : q[i] \in Seq(S)
  PROVE  FlattenSeq(q) \in Seq(S)
<1>1. PICK g : IsJoined(g, q, n) /\ FlattenSeq(q) = g[n]
  BY FlattenSteps
<1> DEFINE Bad == {i \in 1..n : g[i] \notin Seq(S)}
<1>2. ASSUME NEW i \in Bad PROVE \E m \in Bad : m < i
  <2>1. i # 1
    BY <1>1 DEF IsJoined
  <2>2. i \in 2..n /\ i - 1 \in 1..n /\ i - 1 < i
    BY <2>1
  <2>3. SUFFICES ASSUME g[i - 1] \in Seq(S) PROVE g[i] \in Seq(S)
    BY <2>2
  <2>4. g[i] = g[i - 1] \o q[i] /\ q[i] \in Seq(S)
    BY <1>1, <2>2 DEF IsJoined
  <2> QED
    BY <2>3, <2>4, ConcatProperties
<1>3. Bad = {}
  <2>1. Bad \in SUBSET Nat
    OBVIOUS
  <2> HIDE DEF Bad
  <2> QED
    BY <1>2, <2>1, NaturalInduction
<1> QED
  BY <1>1, <1>3
\* One more list at the end is joined to what the others make.
LEMMA FlattenAppend ==
  ASSUME NEW n \in Nat \ {0}, NEW q, Len(q) = n, NEW r, Len(r) = n + 1,
         \A i \in 1..n : r[i] = q[i]
  PROVE  FlattenSeq(r) = FlattenSeq(q) \o r[n + 1]
<1>1. PICK h : IsJoined(h, r, n + 1) /\ FlattenSeq(r) = h[n + 1]
  <2>1. n + 1 \in Nat \ {0}
    OBVIOUS
  <2> QED
    BY <2>1, FlattenSteps
<1>2. PICK g : IsJoined(g, q, n) /\ FlattenSeq(q) = g[n]
  BY FlattenSteps
<1> DEFINE Bad == {i \in 1..n : g[i] # h[i]}
<1>3. ASSUME NEW i \in Bad PROVE \E m \in Bad : m < i
  <2>1. i # 1
    BY <1>1, <1>2 DEF IsJoined
  <2>2. i \in 2..n /\ i \in 2..(n + 1) /\ i \in 1..n /\ i - 1 \in 1..n /\ i - 1 < i
    BY <2>1
  <2>3. SUFFICES ASSUME g[i - 1] = h[i - 1] PROVE g[i] = h[i]
    BY <2>2
  <2>4. g[i] = g[i - 1] \o q[i] /\ h[i] = h[i - 1] \o r[i] /\ r[i] = q[i]
    BY <1>1, <1>2, <2>2 DEF IsJoined
  <2> QED
    BY <2>3, <2>4
<1>4. Bad = {}
  <2>1. Bad \in SUBSET Nat
    OBVIOUS
  <2> HIDE DEF Bad
  <2> QED
    BY <1>3, <2>1, NaturalInduction
<1>5. g[n] = h[n]
  BY <1>4
<1>6. h[n + 1] = h[(n + 1) - 1] \o r[n + 1]
  <2>1. n + 1 \in 2..(n + 1)
    OBVIOUS
  <2> QED
    BY <1>1, <2>1 DEF IsJoined
<1>7. (n + 1) - 1 = n
  OBVIOUS
<1> QED
  BY <1>1, <1>2, <1>5, <1>6, <1>7
=============================================================================

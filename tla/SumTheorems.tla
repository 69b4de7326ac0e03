---------------------------- MODULE SumTheorems ----------------------------
(***************************************************************************)
(* Sums over finite sets, as the models take them (MapThenSumSet of the    *)
(* community modules).  The sum is a recursive function on the subsets of  *)
(* the set; what it computes is shown by the well-foundedness of the       *)
(* natural numbers and of the finite subsets, applied to the set of the    *)
(* counterexamples.                                                        *)
(***************************************************************************)
EXTENDS Integers, FiniteSets, FiniteSetsExt, FiniteSetTheorems, WellFoundedInduction, TLAPS

\* The sum of f[x] for the x in S.
Total(f, S) == MapThenSumSet(LAMBDA x : f[x], S)

\* The element that the fold takes next, and one unfolding of the recursion.
Pick(s) == CHOOSE x \in s : TRUE
Unfold(f, iter, s) == IF s = {} THEN 0 ELSE f[Pick(s)] + iter[s \ {Pick(s)}]
Solves(iter, f, D) == iter = [s \in D |-> Unfold(f, iter, s)]
Iter(f, S) == CHOOSE iter : Solves(iter, f, SUBSET S)

LEMMA TotalIsIter == ASSUME NEW f, NEW S PROVE Total(f, S) = Iter(f, S)[S]
BY DEF Total, Iter, Solves, Unfold, MapThenSumSet, MapThenFoldSet, Pick

LEMMA PickInSet == ASSUME NEW s, s # {} PROVE Pick(s) \in s
BY DEF Pick

\* A non-empty set of natural numbers has a least element.
LEMMA LeastNatural ==
    ASSUME NEW T \in SUBSET Nat, T # {}
    PROVE  \E n \in T : \A m \in T : n <= m
<1>1. PICK n \in T : \A m \in T : ~(<<m, n>> \in OpToRel(<, Nat))
  BY NatLessThanWellFounded, WFMin
<1>2. \A m \in T : ~(m < n)
  BY <1>1, Zenon DEF OpToRel
<1> QED BY <1>2

\* The small subsets of S, on which the recursion is solved step by step.
Upto(S, n) == {s \in SUBSET S : Cardinality(s) <= n}

LEMMA SmallerSubset ==
    ASSUME NEW S, IsFiniteSet(S), NEW s \in SUBSET S, s # {}
    PROVE  /\ s \ {Pick(s)} \in SUBSET S /\ Cardinality(s) \in Nat \ {0}
           /\ Cardinality(s \ {Pick(s)}) = Cardinality(s) - 1
<1>1. IsFiniteSet(s) /\ Pick(s) \in s
  BY FS_Subset, PickInSet
<1>2. Cardinality(s) \in Nat /\ Cardinality(s) # 0
  BY <1>1, FS_CardinalityType, FS_EmptySet
<1> QED BY <1>1, <1>2, FS_RemoveElement

LEMMA SolvedUpto ==
    ASSUME NEW f, NEW S, IsFiniteSet(S)
    PROVE  \A n \in Nat : \E iter : Solves(iter, f, Upto(S, n))
<1> DEFINE Bad == {m \in Nat : ~\E iter : Solves(iter, f, Upto(S, m))}
<1> SUFFICES ASSUME Bad # {} PROVE FALSE
  OBVIOUS
<1>1. PICK m \in Bad : \A k \in Bad : m <= k
  BY LeastNatural
<1>2. CASE m = 0
  <2> DEFINE zero == [s \in Upto(S, 0) |-> 0]
  <2>1. ASSUME NEW s \in Upto(S, 0) PROVE s = {}
    <3>1. s \in SUBSET S /\ Cardinality(s) <= 0
      BY DEF Upto
    <3>2. s # {} => Cardinality(s) \in Nat \ {0}
      BY <3>1, SmallerSubset, Zenon
    <3> QED BY <3>1, <3>2
  <2>2. zero = [s \in Upto(S, 0) |-> Unfold(f, zero, s)]
    BY <2>1 DEF Unfold
  <2> HIDE DEF zero
  <2> QED BY <1>1, <1>2, <2>2 DEF Solves
<1>3. CASE m # 0
  <2>1. m - 1 \in Nat /\ m - 1 \notin Bad
    BY <1>1, <1>3
  <2>2. PICK iter : Solves(iter, f, Upto(S, m - 1))
    BY <2>1
  <2> DEFINE next == [s \in Upto(S, m) |-> Unfold(f, iter, s)]
  <2>3. \A s \in Upto(S, m - 1) : s \in Upto(S, m)
    BY <2>1, FS_Subset, FS_CardinalityType DEF Upto
  <2>4. \A s \in Upto(S, m - 1) : next[s] = iter[s]
    BY <2>2, <2>3 DEF Solves
  <2>5. ASSUME NEW s \in Upto(S, m), s # {} PROVE s \ {Pick(s)} \in Upto(S, m - 1)
    BY <2>1, <2>5, SmallerSubset DEF Upto
  <2> HIDE DEF next
  <2>6. \A s \in Upto(S, m) : Unfold(f, next, s) = Unfold(f, iter, s)
    BY <2>4, <2>5 DEF Unfold
  <2>7. next = [s \in Upto(S, m) |-> Unfold(f, next, s)]
    BY <2>6 DEF next
  <2> QED BY <1>1, <2>7 DEF Solves
<1> QED BY <1>2, <1>3

\* The recursion of the fold has a solution, so the chosen one is.
LEMMA IterDef ==
    ASSUME NEW f, NEW S, IsFiniteSet(S)
    PROVE  \A s \in SUBSET S : Iter(f, S)[s] = Unfold(f, Iter(f, S), s)
<1>1. Cardinality(S) \in Nat /\ Upto(S, Cardinality(S)) = SUBSET S
  BY FS_CardinalityType, FS_Subset DEF Upto
<1>2. \E iter : Solves(iter, f, Upto(S, Cardinality(S)))
  BY <1>1, SolvedUpto, Zenon
<1>3. PICK iter : Solves(iter, f, SUBSET S)
  BY <1>1, <1>2
<1>4. Solves(Iter(f, S), f, SUBSET S)
  BY <1>3 DEF Iter
<1> QED BY <1>4 DEF Solves

\* Two solutions of the recursion agree on the subsets they share.
LEMMA SolutionsAgree ==
    ASSUME NEW f, NEW S, IsFiniteSet(S), NEW T \in SUBSET S, NEW s \in SUBSET T
    PROVE  Iter(f, S)[s] = Iter(f, T)[s]
<1> DEFINE Bad == {n \in Nat : \E t \in SUBSET T : /\ Cardinality(t) = n
                                                  /\ Iter(f, S)[t] # Iter(f, T)[t]}
<1>0. IsFiniteSet(T) /\ \A t \in SUBSET T : Cardinality(t) \in Nat /\ t \in SUBSET S
  BY FS_Subset, FS_CardinalityType
<1> SUFFICES ASSUME Bad # {} PROVE FALSE
  BY <1>0
<1>1. PICK n \in Bad : \A k \in Bad : n <= k
  BY LeastNatural
<1>2. PICK t \in SUBSET T : Cardinality(t) = n /\ Iter(f, S)[t] # Iter(f, T)[t]
  BY <1>1
<1>3. /\ Iter(f, S)[t] = Unfold(f, Iter(f, S), t)
      /\ Iter(f, T)[t] = Unfold(f, Iter(f, T), t)
  <2>1. t \in SUBSET S /\ t \in SUBSET T
    BY <1>0
  <2> HIDE DEF Bad
  <2> QED BY <1>0, <2>1, IterDef, Zenon
<1>4. t # {}
  BY <1>2, <1>3 DEF Unfold
<1>5. t \ {Pick(t)} \in SUBSET T /\ Cardinality(t \ {Pick(t)}) = n - 1 /\ n - 1 \in Nat
  BY <1>0, <1>2, <1>4, SmallerSubset
<1>6. Iter(f, S)[t \ {Pick(t)}] = Iter(f, T)[t \ {Pick(t)}]
  BY <1>1, <1>5
<1> QED BY <1>2, <1>3, <1>4, <1>6 DEF Unfold

\* What is picked first, and what is left, add up to the sum.
LEMMA TotalUnfolds ==
    ASSUME NEW f, NEW S, IsFiniteSet(S)
    PROVE  /\ Total(f, {}) = 0
           /\ S # {} => /\ Pick(S) \in S
                        /\ Total(f, S) = f[Pick(S)] + Total(f, S \ {Pick(S)})
<1>1. Total(f, {}) = 0
  <2>1. Iter(f, {})[{}] = Unfold(f, Iter(f, {}), {})
    BY IterDef, FS_EmptySet, Zenon
  <2> QED BY <2>1, TotalIsIter DEF Unfold
<1>2. ASSUME S # {}
      PROVE  Pick(S) \in S /\ Total(f, S) = f[Pick(S)] + Total(f, S \ {Pick(S)})
  <2>1. Iter(f, S)[S] = Unfold(f, Iter(f, S), S)
    BY IterDef, Zenon
  <2>2. Iter(f, S)[S \ {Pick(S)}] = Iter(f, S \ {Pick(S)})[S \ {Pick(S)}]
    BY SolutionsAgree
  <2> QED BY <1>2, <2>1, <2>2, TotalIsIter, PickInSet DEF Unfold
<1> QED BY <1>1, <1>2

-----------------------------------------------------------------------------
\* A sum of integers is an integer, one of natural numbers a natural number.
LEMMA TotalType ==
    ASSUME NEW f, NEW S, IsFiniteSet(S)
    PROVE  /\ (\A x \in S : f[x] \in Int) => Total(f, S) \in Int
           /\ (\A x \in S : f[x] \in Nat) => Total(f, S) \in Nat
<1> SUFFICES ASSUME NEW Typ \in {Int, Nat}, \A x \in S : f[x] \in Typ
             PROVE  Total(f, S) \in Typ
  OBVIOUS
<1>a. 0 \in Typ /\ \A m, n \in Typ : m + n \in Typ
  <2>1. CASE Typ = Int
    BY <2>1
  <2>2. CASE Typ = Nat
    BY <2>2
  <2> QED BY <2>1, <2>2
<1> DEFINE Bad == {n \in Nat : \E t \in SUBSET S : Cardinality(t) = n /\ Total(f, t) \notin Typ}
<1>0. \A t \in SUBSET S : Cardinality(t) \in Nat /\ IsFiniteSet(t)
  BY FS_Subset, FS_CardinalityType
<1> SUFFICES ASSUME Bad # {} PROVE FALSE
  BY <1>0
<1>1. PICK n \in Bad : \A k \in Bad : n <= k
  BY LeastNatural
<1>2. PICK t \in SUBSET S : Cardinality(t) = n /\ Total(f, t) \notin Typ
  BY <1>1
<1>3. t # {}
  BY <1>a, <1>0, <1>2, TotalUnfolds
<1>4. t \ {Pick(t)} \in SUBSET S /\ Cardinality(t \ {Pick(t)}) = n - 1 /\ n - 1 \in Nat
  BY <1>0, <1>2, <1>3, SmallerSubset
<1>5. Total(f, t \ {Pick(t)}) \in Typ
  BY <1>1, <1>4
<1>6. f[Pick(t)] \in Typ /\ Total(f, t) = f[Pick(t)] + Total(f, t \ {Pick(t)})
  BY <1>0, <1>2, <1>3, TotalUnfolds
<1> QED BY <1>a, <1>2, <1>5, <1>6

\* Any element can be taken out of a sum.
LEMMA TotalRemove ==
    ASSUME NEW f, NEW S, IsFiniteSet(S), \A x \in S : f[x] \in Int, NEW x \in S
    PROVE  Total(f, S) = f[x] + Total(f, S \ {x})
<1> DEFINE Splits(t, y) == Total(f, t) = f[y] + Total(f, t \ {y})
           Bad == {n \in Nat : \E t \in SUBSET S : /\ Cardinality(t) = n
                                                  /\ \E y \in t : ~Splits(t, y)}
<1>0. \A t \in SUBSET S : Cardinality(t) \in Nat /\ IsFiniteSet(t) /\ Total(f, t) \in Int
  BY FS_Subset, FS_CardinalityType, TotalType
<1> SUFFICES ASSUME Bad # {} PROVE FALSE
  BY <1>0
<1>1. PICK n \in Bad : \A k \in Bad : n <= k
  BY LeastNatural
<1>2. PICK t \in SUBSET S : Cardinality(t) = n /\ \E y \in t : ~Splits(t, y)
  BY <1>1
<1>3. PICK y \in t : ~Splits(t, y)
  BY <1>2
<1> DEFINE p == Pick(t)
<1>4. p \in t /\ Splits(t, p)
  BY <1>0, <1>3, TotalUnfolds
<1> HIDE DEF p
<1>5. ASSUME NEW z \in t
      PROVE  /\ t \ {z} \in SUBSET S /\ n - 1 \in Nat
             /\ \A u \in t \ {z} : Splits(t \ {z}, u)
  <2>1. IsFiniteSet(t) /\ Cardinality(t) = n /\ n \in Nat
    BY <1>0, <1>2
  <2>2. Cardinality(t \ {z}) = n - 1 /\ IsFiniteSet(t \ {z})
    BY <2>1, FS_RemoveElement
  <2>3. n - 1 \in Nat /\ n - 1 \notin Bad /\ t \ {z} \in SUBSET S
    BY <1>1, <2>1, <2>2, FS_CardinalityType
  <2> QED BY <2>2, <2>3
<1>6. p # y
  BY <1>3, <1>4
<1>7. Splits(t \ {p}, y) /\ Splits(t \ {y}, p)
  BY <1>3, <1>4, <1>5, <1>6
<1>8. (t \ {p}) \ {y} = (t \ {y}) \ {p}
  OBVIOUS
<1>9. Total(f, (t \ {p}) \ {y}) \in Int /\ f[p] \in Int /\ f[y] \in Int
  BY <1>0, <1>3, <1>4
<1>10. Total(f, t) = f[y] + Total(f, t \ {y})
  BY <1>4, <1>7, <1>8, <1>9
<1> QED BY <1>3, <1>10

\* The sum of one element, and of the same numbers twice.
LEMMA TotalSingleton ==
    ASSUME NEW f, NEW x, f[x] \in Int
    PROVE  Total(f, {x}) = f[x]
<1>1. Total(f, {x}) = f[x] + Total(f, {x} \ {x})
  BY FS_Singleton, TotalRemove
<1>2. Total(f, {x} \ {x}) = 0
  BY TotalUnfolds, FS_EmptySet
<1> QED BY <1>1, <1>2

LEMMA TotalCongruence ==
    ASSUME NEW f, NEW g, NEW S, \A x \in S : f[x] = g[x]
    PROVE  Total(f, S) = Total(g, S)
<1>1. ASSUME NEW iter
      PROVE  [s \in SUBSET S |-> Unfold(f, iter, s)] = [s \in SUBSET S |-> Unfold(g, iter, s)]
  BY PickInSet DEF Unfold
<1>2. \A iter : Solves(iter, f, SUBSET S) <=> Solves(iter, g, SUBSET S)
  BY <1>1 DEF Solves
<1>3. Iter(f, S) = Iter(g, S)
  BY <1>2, Zenon DEF Iter
<1> QED BY <1>3, TotalIsIter

\* One number that changes, changes the sum by as much.
LEMMA TotalChange ==
    ASSUME NEW f, NEW g, NEW S, IsFiniteSet(S), NEW x \in S,
           \A y \in S : f[y] \in Int /\ g[y] \in Int,
           \A y \in S \ {x} : f[y] = g[y]
    PROVE  Total(g, S) = Total(f, S) + (g[x] - f[x])
<1>1. Total(f, S) = f[x] + Total(f, S \ {x}) /\ Total(g, S) = g[x] + Total(g, S \ {x})
  BY TotalRemove
<1>2. Total(f, S \ {x}) = Total(g, S \ {x})
  BY TotalCongruence
<1>3. IsFiniteSet(S \ {x}) /\ Total(f, S \ {x}) \in Int
  BY TotalType, FS_Subset
<1> QED BY <1>1, <1>2, <1>3

\* A sum of natural numbers is zero exactly when all of them are.
LEMMA TotalZero ==
    ASSUME NEW f, NEW S, IsFiniteSet(S), \A x \in S : f[x] \in Nat
    PROVE  Total(f, S) = 0 => \A x \in S : f[x] = 0
<1> SUFFICES ASSUME Total(f, S) = 0, NEW x \in S PROVE f[x] = 0
  OBVIOUS
<1>1. IsFiniteSet(S \ {x}) /\ Total(f, S \ {x}) \in Nat /\ f[x] \in Nat
  BY TotalType, FS_Subset
<1>2. Total(f, S) = f[x] + Total(f, S \ {x})
  BY TotalRemove
<1> QED BY <1>1, <1>2

LEMMA TotalOfZeros ==
    ASSUME NEW f, NEW S, IsFiniteSet(S), \A x \in S : f[x] = 0
    PROVE  Total(f, S) = 0
<1> DEFINE Bad == {n \in Nat : \E t \in SUBSET S : Cardinality(t) = n /\ Total(f, t) # 0}
<1>0. \A t \in SUBSET S : Cardinality(t) \in Nat /\ IsFiniteSet(t)
  BY FS_Subset, FS_CardinalityType
<1> SUFFICES ASSUME Bad # {} PROVE FALSE
  BY <1>0
<1>1. PICK n \in Bad : \A k \in Bad : n <= k
  BY LeastNatural
<1>2. PICK t \in SUBSET S : Cardinality(t) = n /\ Total(f, t) # 0
  BY <1>1
<1>3. t # {} => /\ Pick(t) \in t /\ Total(f, t) = f[Pick(t)] + Total(f, t \ {Pick(t)})
  BY <1>0, TotalUnfolds
<1>4. t # {}
  BY <1>2, TotalUnfolds, FS_EmptySet
<1>5. /\ t \ {Pick(t)} \in SUBSET S
      /\ Cardinality(t \ {Pick(t)}) = n - 1 /\ n - 1 \in Nat
  BY <1>0, <1>2, <1>4, SmallerSubset
<1>6. n - 1 \notin Bad
  BY <1>1, <1>5
<1>7. Total(f, t \ {Pick(t)}) = 0
  BY <1>5, <1>6
<1> QED BY <1>2, <1>3, <1>4, <1>7
\* A sum is those of a part of the set and of the rest.
LEMMA TotalSplit ==
    ASSUME NEW f, NEW S, IsFiniteSet(S), \A x \in S : f[x] \in Int, NEW A \in SUBSET S
    PROVE  Total(f, S) = Total(f, A) + Total(f, S \ A)
<1> DEFINE Splits(t) == Total(f, S) = Total(f, t) + Total(f, S \ t)
           Bad == {n \in Nat : \E t \in SUBSET S : Cardinality(t) = n /\ ~Splits(t)}
<1>0. \A t \in SUBSET S : /\ Cardinality(t) \in Nat /\ IsFiniteSet(t) /\ IsFiniteSet(S \ t)
                          /\ Total(f, t) \in Int /\ Total(f, S \ t) \in Int
  BY FS_Subset, FS_CardinalityType, TotalType
<1> SUFFICES ASSUME Bad # {} PROVE FALSE
  BY <1>0
<1>1. PICK n \in Bad : \A k \in Bad : n <= k
  BY LeastNatural
<1>2. PICK t \in SUBSET S : Cardinality(t) = n /\ ~Splits(t)
  BY <1>1
<1>3. t # {}
  <2>1. Total(f, {}) = 0 /\ S \ {} = S
    BY TotalUnfolds, FS_EmptySet
  <2> QED BY <1>0, <1>2, <2>1
<1>4. PICK x \in t : TRUE
  BY <1>3
<1>5. t \ {x} \in SUBSET S /\ Cardinality(t \ {x}) = n - 1 /\ n - 1 \in Nat
  <2>1. IsFiniteSet(t) /\ Cardinality(t) = n /\ n \in Nat /\ t \in SUBSET S
    BY <1>0, <1>2
  <2>2. Cardinality(t \ {x}) = n - 1 /\ IsFiniteSet(t \ {x})
    BY <2>1, FS_RemoveElement
  <2> QED BY <2>1, <2>2, FS_CardinalityType
<1>6. Splits(t \ {x})
  <2>1. n - 1 \notin Bad
    BY <1>1, <1>5
  <2> QED BY <1>5, <2>1
<1>7. Total(f, t) = f[x] + Total(f, t \ {x})
  BY <1>0, <1>2, TotalRemove
<1>8. Total(f, S \ (t \ {x})) = f[x] + Total(f, S \ t)
  <2>1. x \in S \ (t \ {x}) /\ (S \ (t \ {x})) \ {x} = S \ t
    BY <1>2
  <2> QED BY <1>0, <1>5, <2>1, TotalRemove
<1>9. f[x] \in Int /\ Total(f, t \ {x}) \in Int /\ Total(f, S \ t) \in Int
  BY <1>0, <1>5
<1> QED BY <1>2, <1>6, <1>7, <1>8, <1>9

\* What is zero need not be summed.
LEMMA TotalWithoutZeros ==
    ASSUME NEW f, NEW S, IsFiniteSet(S), \A x \in S : f[x] \in Int, NEW A \in SUBSET S,
           \A x \in S \ A : f[x] = 0
    PROVE  Total(f, S) = Total(f, A)
<1>1. IsFiniteSet(S \ A) /\ IsFiniteSet(A) /\ Total(f, A) \in Int
  BY FS_Subset, TotalType
<1>2. Total(f, S \ A) = 0
  BY <1>1, TotalOfZeros
<1> QED BY <1>1, <1>2, TotalSplit

\* The sum of sums.
LEMMA TotalPlus ==
    ASSUME NEW f, NEW g, NEW h, NEW S, IsFiniteSet(S),
           \A x \in S : f[x] \in Int /\ g[x] \in Int /\ h[x] = f[x] + g[x]
    PROVE  Total(h, S) = Total(f, S) + Total(g, S)
<1> DEFINE Adds(t) == Total(h, t) = Total(f, t) + Total(g, t)
           Bad == {n \in Nat : \E t \in SUBSET S : Cardinality(t) = n /\ ~Adds(t)}
<1>0. \A t \in SUBSET S : /\ Cardinality(t) \in Nat /\ IsFiniteSet(t)
                          /\ Total(f, t) \in Int /\ Total(g, t) \in Int
  BY FS_Subset, FS_CardinalityType, TotalType
<1> SUFFICES ASSUME Bad # {} PROVE FALSE
  BY <1>0
<1>1. PICK n \in Bad : \A k \in Bad : n <= k
  BY LeastNatural
<1>2. PICK t \in SUBSET S : Cardinality(t) = n /\ ~Adds(t)
  BY <1>1
<1>3. t # {}
  <2>1. Total(f, {}) = 0 /\ Total(g, {}) = 0 /\ Total(h, {}) = 0
    BY TotalUnfolds, FS_EmptySet
  <2>2. Adds({})
    BY <2>1
  <2> QED BY <1>2, <2>2
<1>4. PICK x \in t : TRUE
  BY <1>3
<1>5. t \ {x} \in SUBSET S /\ Cardinality(t \ {x}) = n - 1 /\ n - 1 \in Nat
  <2>1. IsFiniteSet(t) /\ Cardinality(t) = n /\ n \in Nat /\ t \in SUBSET S
    BY <1>0, <1>2
  <2>2. Cardinality(t \ {x}) = n - 1 /\ IsFiniteSet(t \ {x})
    BY <2>1, FS_RemoveElement
  <2> QED BY <2>1, <2>2, FS_CardinalityType
<1>6. Adds(t \ {x})
  <2>1. n - 1 \notin Bad
    BY <1>1, <1>5
  <2> QED BY <1>5, <2>1
<1>7. /\ Total(f, t) = f[x] + Total(f, t \ {x}) /\ Total(g, t) = g[x] + Total(g, t \ {x})
      /\ Total(h, t) = h[x] + Total(h, t \ {x})
  BY <1>0, <1>2, TotalRemove
<1>8. /\ f[x] \in Int /\ g[x] \in Int /\ h[x] = f[x] + g[x]
      /\ Total(f, t \ {x}) \in Int /\ Total(g, t \ {x}) \in Int
  BY <1>0, <1>5
<1> QED BY <1>2, <1>6, <1>7, <1>8

\* A set summed bucket by bucket: key says which bucket an element is in.
Bucket(S, key, k) == {x \in S : key[x] = k}
BucketTotals(f, S, key, K) == [k \in K |-> Total(f, Bucket(S, key, k))]

LEMMA TotalByBuckets ==
    ASSUME NEW f, NEW S, IsFiniteSet(S), \A x \in S : f[x] \in Int,
           NEW K, IsFiniteSet(K), NEW key, \A x \in S : key[x] \in K
    PROVE  Total(f, S) = Total(BucketTotals(f, S, key, K), K)
<1> DEFINE Of(t) == {x \in S : key[x] \in t}
           F == BucketTotals(f, S, key, K)
           Agrees(t) == Total(f, Of(t)) = Total(F, t)
           Bad == {n \in Nat : \E t \in SUBSET K : Cardinality(t) = n /\ ~Agrees(t)}
<1>0. \A t \in SUBSET K : Cardinality(t) \in Nat /\ IsFiniteSet(t)
  BY FS_Subset, FS_CardinalityType
<1>a. \A s \in SUBSET S : IsFiniteSet(s) /\ Total(f, s) \in Int
  BY FS_Subset, TotalType
<1>b. \A k \in K : Bucket(S, key, k) \in SUBSET S
  BY DEF Bucket
<1>c. \A k \in K : F[k] = Total(f, Bucket(S, key, k)) /\ F[k] \in Int
  BY <1>a, <1>b DEF BucketTotals
<1>d. Of(K) = S
  OBVIOUS
<1> HIDE DEF F
<1> SUFFICES Agrees(K)
  BY <1>d DEF F
<1> SUFFICES ASSUME Bad # {} PROVE FALSE
  BY <1>0
<1>1. PICK n \in Bad : \A k \in Bad : n <= k
  BY LeastNatural
<1>2. PICK t \in SUBSET K : Cardinality(t) = n /\ ~Agrees(t)
  BY <1>1
<1>3. t # {}
  <2>1. Of({}) = {}
    OBVIOUS
  <2>2. Total(f, {}) = 0 /\ Total(F, {}) = 0
    BY TotalUnfolds, FS_EmptySet
  <2> QED BY <1>2, <2>1, <2>2
<1>4. PICK k \in t : TRUE
  BY <1>3
<1>5. t \ {k} \in SUBSET K /\ Cardinality(t \ {k}) = n - 1 /\ n - 1 \in Nat
  <2>1. IsFiniteSet(t) /\ Cardinality(t) = n /\ n \in Nat /\ t \in SUBSET K
    BY <1>0, <1>2
  <2>2. Cardinality(t \ {k}) = n - 1 /\ IsFiniteSet(t \ {k})
    BY <2>1, FS_RemoveElement
  <2> QED BY <2>1, <2>2, FS_CardinalityType
<1>6. Agrees(t \ {k})
  <2>1. n - 1 \notin Bad
    BY <1>1, <1>5
  <2> QED BY <1>5, <2>1
<1>7. Total(F, t) = F[k] + Total(F, t \ {k})
  BY <1>0, <1>2, <1>c, TotalRemove
<1>8. Total(f, Of(t)) = Total(f, Bucket(S, key, k)) + Total(f, Of(t \ {k}))
  <2>1. Of(t) \in SUBSET S /\ Bucket(S, key, k) \in SUBSET Of(t)
        /\ Of(t) \ Bucket(S, key, k) = Of(t \ {k})
    BY DEF Bucket
  <2> HIDE DEF Of
  <2>2. IsFiniteSet(Of(t)) /\ \A x \in Of(t) : f[x] \in Int
    BY <1>a, <2>1
  <2>3. Total(f, Of(t)) = Total(f, Bucket(S, key, k)) + Total(f, Of(t) \ Bucket(S, key, k))
    BY <2>1, <2>2, TotalSplit
  <2> QED BY <2>1, <2>3
<1>9. F[k] = Total(f, Bucket(S, key, k))
  BY <1>2, <1>c
<1> HIDE DEF Of
<1> QED BY <1>2, <1>6, <1>7, <1>8, <1>9

\* The values of a function on a finite set are finitely many.
LEMMA FiniteImage ==
    ASSUME NEW f, NEW S, IsFiniteSet(S)
    PROVE  IsFiniteSet({f[x] : x \in S})
<1> DEFINE T == {f[x] : x \in S}
           g == [x \in S |-> f[x]]
<1>1. g \in Surjection(S, T)
  BY DEF Surjection, Range
<1> QED BY <1>1, FS_Surjection

\* The second components of a function's pairs add up to its total.
Pairs(F, K) == {<<k, F[k]>> : k \in K}
Seconds(P) == [pair \in P |-> pair[2]]

LEMMA TotalOfPairs ==
    ASSUME NEW F, NEW K, IsFiniteSet(K), \A k \in K : F[k] \in Int
    PROVE  Total(Seconds(Pairs(F, K)), Pairs(F, K)) = Total(F, K)
<1> DEFINE P == Pairs(F, K)
           f == Seconds(P)
           key == [pair \in P |-> pair[1]]
<1>1. IsFiniteSet(P)
  <2> DEFINE pairOf == [k \in K |-> <<k, F[k]>>]
  <2>1. IsFiniteSet({pairOf[k] : k \in K})
    BY FiniteImage
  <2>2. {pairOf[k] : k \in K} = P
    BY DEF Pairs
  <2> QED BY <2>1, <2>2
<1>2. \A pair \in P : f[pair] \in Int /\ key[pair] \in K
  BY DEF Pairs, Seconds
<1>3. \A k \in K : Bucket(P, key, k) = {<<k, F[k]>>} /\ f[<<k, F[k]>>] = F[k]
  BY DEF Pairs, Seconds, Bucket
<1> HIDE DEF P, f, key
<1>4. \A k \in K : Total(f, Bucket(P, key, k)) = F[k]
  BY <1>3, TotalSingleton
<1>5. \A k \in K : BucketTotals(f, P, key, K)[k] = F[k]
  BY <1>4 DEF BucketTotals
<1>6. Total(BucketTotals(f, P, key, K), K) = Total(F, K)
  BY <1>5, TotalCongruence
<1>7. Total(f, P) = Total(F, K)
  BY <1>1, <1>2, <1>6, TotalByBuckets
<1> QED BY <1>7 DEF P, f

(***************************************************************************)
(* Folds with any step: the accumulator H[<<i, before>>] of the element i  *)
(* that is taken next.                                                     *)
(***************************************************************************)
FoldSolves(iter, H, base, next, D) ==
    iter = [s \in D |-> IF s = {} THEN base ELSE H[<<next[s], iter[s \ {next[s]}]>>]]

LEMMA SmallerWithout ==
    ASSUME NEW I, IsFiniteSet(I), NEW s \in SUBSET I, NEW i \in s
    PROVE  /\ s \ {i} \in SUBSET I /\ Cardinality(s) \in Nat \ {0}
           /\ Cardinality(s \ {i}) = Cardinality(s) - 1
<1>1. IsFiniteSet(s)
  BY FS_Subset
<1>2. Cardinality(s) \in Nat /\ Cardinality(s) # 0
  BY <1>1, FS_CardinalityType, FS_EmptySet
<1> QED BY <1>1, <1>2, FS_RemoveElement

\* The recursion of a fold has a solution, of the type its step keeps.
LEMMA FoldSolvedUpto ==
    ASSUME NEW I, IsFiniteSet(I), NEW Good, NEW base \in Good, NEW H \in [I \X Good -> Good],
           NEW next, \A s \in SUBSET I : s # {} => next[s] \in s
    PROVE  \A n \in Nat : \E iter \in [Upto(I, n) -> Good] :
             FoldSolves(iter, H, base, next, Upto(I, n))
<1> DEFINE Solved(m) == \E iter \in [Upto(I, m) -> Good] :
                           FoldSolves(iter, H, base, next, Upto(I, m))
           Bad == {m \in Nat : ~Solved(m)}
<1> SUFFICES ASSUME Bad # {} PROVE FALSE
  OBVIOUS
<1>1. PICK m \in Bad : \A k \in Bad : m <= k
  BY LeastNatural
<1>2. CASE m = 0
  <2> DEFINE first == [s \in Upto(I, 0) |-> base]
  <2>1. ASSUME NEW s \in Upto(I, 0) PROVE s = {}
    <3>1. s \in SUBSET I /\ Cardinality(s) <= 0
      BY DEF Upto
    <3>2. s # {} => Cardinality(s) \in Nat \ {0}
      BY <3>1, SmallerWithout
    <3> QED BY <3>1, <3>2
  <2>2. first \in [Upto(I, 0) -> Good] /\ FoldSolves(first, H, base, next, Upto(I, 0))
    BY <2>1 DEF FoldSolves
  <2> QED BY <1>1, <1>2, <2>2
<1>3. CASE m # 0
  <2>1. m - 1 \in Nat /\ m - 1 \notin Bad
    BY <1>1, <1>3
  <2>2. PICK iter \in [Upto(I, m - 1) -> Good] : FoldSolves(iter, H, base, next, Upto(I, m - 1))
    BY <2>1
  <2> DEFINE Then(it, s) == IF s = {} THEN base ELSE H[<<next[s], it[s \ {next[s]}]>>]
             more == [s \in Upto(I, m) |-> Then(iter, s)]
  <2>3. \A s \in Upto(I, m - 1) : s \in Upto(I, m)
    BY <2>1, FS_Subset, FS_CardinalityType DEF Upto
  <2>4. \A s \in Upto(I, m - 1) : more[s] = iter[s]
    BY <2>2, <2>3 DEF FoldSolves
  <2>5. ASSUME NEW s \in Upto(I, m), s # {}
        PROVE  next[s] \in I /\ s \ {next[s]} \in Upto(I, m - 1)
    BY <2>1, <2>5, SmallerWithout DEF Upto
  <2>6. more \in [Upto(I, m) -> Good]
    <3>1. ASSUME NEW s \in Upto(I, m) PROVE Then(iter, s) \in Good
      <4>1. CASE s = {}
        BY <4>1
      <4>2. CASE s # {}
        BY <2>5, <4>2
      <4> QED BY <4>1, <4>2
    <3> QED BY <3>1
  <2>7. ASSUME NEW s \in Upto(I, m) PROVE Then(more, s) = Then(iter, s)
    <3>1. s # {} => more[s \ {next[s]}] = iter[s \ {next[s]}]
      BY <2>4, <2>5
    <3> HIDE DEF more
    <3> QED BY <3>1
  <2>8. \A s \in Upto(I, m) : more[s] = Then(more, s)
    BY <2>7
  <2> HIDE DEF more
  <2>9. FoldSolves(more, H, base, next, Upto(I, m))
    BY <2>6, <2>8 DEF FoldSolves
  <2> QED BY <1>1, <2>6, <2>9
<1> QED BY <1>2, <1>3

LEMMA FoldSolved ==
    ASSUME NEW I, IsFiniteSet(I), NEW Good, NEW base \in Good, NEW H \in [I \X Good -> Good],
           NEW next, \A s \in SUBSET I : s # {} => next[s] \in s
    PROVE  \E iter \in [SUBSET I -> Good] : FoldSolves(iter, H, base, next, SUBSET I)
<1>1. Cardinality(I) \in Nat /\ Upto(I, Cardinality(I)) = SUBSET I
  BY FS_CardinalityType, FS_Subset DEF Upto
<1>2. \E iter \in [Upto(I, Cardinality(I)) -> Good] :
         FoldSolves(iter, H, base, next, Upto(I, Cardinality(I)))
  BY <1>1, FoldSolvedUpto
<1> QED BY <1>1, <1>2

\* Whatever each step of a fold keeps holds of its result.
LEMMA FoldStays ==
    ASSUME NEW I, IsFiniteSet(I), NEW next, \A s \in SUBSET I : s # {} => next[s] \in s,
           NEW Good, NEW iter, iter[{}] \in Good,
           \A s \in SUBSET I : s # {} /\ iter[s \ {next[s]}] \in Good => iter[s] \in Good
    PROVE  iter[I] \in Good
<1> DEFINE Bad == {n \in Nat : \E s \in SUBSET I : Cardinality(s) = n /\ iter[s] \notin Good}
<1>1. ASSUME NEW s \in SUBSET I, s # {}
      PROVE  /\ next[s] \in s /\ s \ {next[s]} \in SUBSET I /\ Cardinality(s) \in Nat \ {0}
             /\ Cardinality(s \ {next[s]}) = Cardinality(s) - 1
  <2>1. next[s] \in s
    BY <1>1
  <2>2. \A i \in s : /\ s \ {i} \in SUBSET I /\ Cardinality(s) \in Nat \ {0}
                     /\ Cardinality(s \ {i}) = Cardinality(s) - 1
    BY SmallerWithout
  <2> QED BY <2>1, <2>2
<1> SUFFICES ASSUME iter[I] \notin Good PROVE FALSE
  OBVIOUS
<1>2. Bad \in SUBSET Nat /\ Bad # {}
  BY FS_CardinalityType
<1>3. PICK n \in Bad : \A k \in Bad : n <= k
  <2> HIDE DEF Bad
  <2> QED BY <1>2, LeastNatural
<1>4. PICK s \in SUBSET I : Cardinality(s) = n /\ iter[s] \notin Good
  BY <1>3
<1>5. s # {}
  BY <1>4
<1>6. n \in Nat \ {0} /\ s \ {next[s]} \in SUBSET I /\ Cardinality(s \ {next[s]}) = n - 1
  BY <1>1, <1>4, <1>5
<1>7. n - 1 \notin Bad /\ n - 1 \in Nat
  BY <1>3, <1>6
<1>8. iter[s \ {next[s]}] \in Good
  BY <1>6, <1>7
<1> QED BY <1>4, <1>5, <1>8

\* The last position of a finite set of positions
LEMMA LastOf ==
    ASSUME NEW n \in Nat, NEW s \in SUBSET (1..n), s # {}
    PROVE  Max(s) \in s
<1> DEFINE T == {n - i : i \in s}
<1>1. T \in SUBSET Nat /\ T # {}
  OBVIOUS
<1>2. PICK m \in T : \A k \in T : m <= k
  BY <1>1, LeastNatural
<1>3. PICK i \in s : m = n - i
  BY <1>2
<1>4. ASSUME NEW j \in s PROVE i >= j
  <2>1. n - j \in T
    OBVIOUS
  <2>2. m <= n - j
    BY <1>2, <2>1
  <2> QED BY <1>3, <2>2
<1> QED BY <1>4, Zenon DEF Max
=============================================================================

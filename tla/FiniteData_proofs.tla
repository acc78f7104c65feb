--------------------------- MODULE FiniteData_proofs ---------------------------
(***************************************************************************)
(* Sums over finite sets, and finite sets put in order.  The budget of a   *)
(* campaign and the spend of its channels are sums that                    *)
(* FiniteSetsExt!MapThenSumSet computes by choosing one element after the  *)
(* other: such a recursion has a value, the order of the choices does not  *)
(* matter, and the sum changes with the set.  A loop that keeps some items *)
(* of a list, and a sort, are Subsequences!Picked and InOrder: their items *)
(* are those at the positions kept, each once, in the order of the list.   *)
(*                                                                         *)
(* Induction is by the smallest counterexample: the proper subsets of a    *)
(* finite set are a well-founded order.                                    *)
(***************************************************************************)
EXTENDS Subsequences, Integers, FiniteSets, FiniteSetTheorems, TLAPS

\* The element that the recursion takes next.
Some(T) == CHOOSE x \in T : TRUE

\* The recursion of MapThenSumSet: g gives the sum of f over each subset of S.
IsSum(g, f, S) ==
    g = [T \in SUBSET S |-> IF T = {} THEN 0 ELSE f[Some(T)] + g[T \ {Some(T)}]]

\* A nonempty collection of subsets of a finite set has a minimal member.
LEMMA SmallestSubset ==
  ASSUME NEW S, IsFiniteSet(S), NEW B, B \subseteq SUBSET S, B # {}
  PROVE  \E T \in B : \A U \in B : U \subseteq T => U = T
<1>1. IsWellFoundedOn(StrictSubsetOrdering(S), SUBSET S)
  BY FS_FiniteSubsetsOfFinite, FS_StrictSubsetOrderingWellFounded, Zenon
<1>2. PICK T \in B : \A U \in B : <<U, T>> \notin StrictSubsetOrdering(S)
  <2> HIDE DEF StrictSubsetOrdering
  <2>. QED
    BY <1>1, WFMin, Zenon
<1>3. ASSUME NEW U \in B, U \subseteq T PROVE U = T
  <2>1. <<U, T>> \in (SUBSET S) \X (SUBSET S)
    OBVIOUS
  <2>. QED
    BY <1>2, <1>3, <2>1 DEF StrictSubsetOrdering
<1>. QED
  BY <1>3

\* A nonempty set of natural numbers has a least one.
LEMMA LeastNumber ==
  ASSUME NEW B \in SUBSET Nat, B # {}
  PROVE  \E n \in B : \A m \in B : n <= m
<1>1. PICK top \in B : TRUE
  OBVIOUS
<1> DEFINE C == {0..n : n \in {k \in B : k <= top}}
<1>2. IsFiniteSet(0..top)
  BY <1>1, FS_Interval
<1>3. C \subseteq SUBSET (0..top) /\ C # {}
  BY <1>1
<1>4. PICK T \in C : \A U \in C : U \subseteq T => U = T
  <2> DEFINE S == 0..top
  <2>1. IsFiniteSet(S) /\ C \subseteq SUBSET S /\ C # {}
    BY <1>2, <1>3
  <2> HIDE DEF C, S
  <2>. QED
    BY <2>1, SmallestSubset
<1>5. PICK n \in B : n <= top /\ T = 0..n
  OBVIOUS
<1>6. ASSUME NEW m \in B, m < n PROVE FALSE
  <2>1. 0..m \in C
    BY <1>1, <1>5, <1>6
  <2>2. 0..m \subseteq T /\ n \in T /\ n \notin 0..m
    BY <1>5, <1>6
  <2>. QED
    BY <1>4, <2>1, <2>2
<1>. QED
  BY <1>5, <1>6

\* The element that is taken next is in the set.
LEMMA SomeIsIn == ASSUME NEW T, T # {} PROVE Some(T) \in T
  BY DEF Some

\* The recursion has a value.
LEMMA SumExists ==
  ASSUME NEW S, IsFiniteSet(S), NEW f
  PROVE  \E g : IsSum(g, f, S)
<1> DEFINE Body(g, T) == IF T = {} THEN 0 ELSE f[Some(T)] + g[T \ {Some(T)}]
           Upto(n) == {T \in SUBSET S : Cardinality(T) <= n}
           Has(n) == \E g : g = [T \in Upto(n) |-> Body(g, T)]
           Bad == {n \in Nat : ~Has(n)}
<1>1. \A T \in SUBSET S : IsFiniteSet(T) /\ Cardinality(T) \in Nat
  BY FS_Subset, FS_CardinalityType
<1>2. Has(0)
  <2>1. \A T \in Upto(0) : T = {}
    BY <1>1, FS_EmptySet
  <2> DEFINE g == [T \in Upto(0) |-> 0]
  <2>2. g = [T \in Upto(0) |-> Body(g, T)]
    BY <2>1
  <2>. QED
    BY <2>2
<1>3. ASSUME NEW n \in Nat, Has(n) PROVE Has(n + 1)
  <2>1. PICK g : g = [T \in Upto(n) |-> Body(g, T)]
    BY <1>3
  <2> DEFINE h == [T \in Upto(n + 1) |-> IF T \in Upto(n) THEN g[T] ELSE Body(g, T)]
  <2>2. ASSUME NEW T \in Upto(n + 1), T # {} PROVE T \ {Some(T)} \in Upto(n)
    <3>1. Some(T) \in T
      BY <2>2, SomeIsIn
    <3>2. Cardinality(T \ {Some(T)}) = Cardinality(T) - 1
      BY <1>1, <3>1, FS_RemoveElement
    <3>. QED
      BY <1>1, <3>2
  <2>3. ASSUME NEW T \in Upto(n)
        PROVE  T \in Upto(n + 1) /\ h[T] = g[T] /\ g[T] = Body(g, T)
    <3>1. T \in Upto(n + 1)
      BY <1>1
    <3> HIDE DEF Upto, Body
    <3>2. g[T] = Body(g, T)
      BY <2>1, Zenon
    <3>. QED
      BY <3>1, <3>2
  <2>4. ASSUME NEW T \in Upto(n + 1) PROVE h[T] = Body(h, T)
    <3>1. CASE T = {}
      <4>1. T \in Upto(n)
        BY <3>1, FS_EmptySet
      <4>. QED
        BY <2>3, <3>1, <4>1
    <3>2. CASE T # {}
      <4>1. h[T \ {Some(T)}] = g[T \ {Some(T)}]
        BY <2>2, <2>3, <3>2
      <4>2. h[T] = Body(g, T)
        BY <2>3
      <4>. QED
        BY <3>2, <4>1, <4>2
    <3>. QED
      BY <3>1, <3>2
  <2>5. h = [T \in Upto(n + 1) |-> Body(h, T)]
    BY <2>4
  <2>. QED
    BY <2>5
<1>4. Bad = {}
  <2>1. SUFFICES ASSUME Bad # {} PROVE FALSE
    OBVIOUS
  <2>2. PICK n \in Bad : \A m \in Bad : n <= m
    <3> HIDE DEF Has
    <3>. QED
      BY <2>1, LeastNumber
  <2>3. n # 0
    BY <1>2
  <2>4. n - 1 \in Nat /\ ~(n <= n - 1)
    BY <2>3
  <2>6. Has(n - 1)
    <3> HIDE DEF Has
    <3>. QED
      BY <2>2, <2>4
  <2>7. Has(n)
    <3> HIDE DEF Has
    <3>1. (n - 1) + 1 = n
      BY <2>4
    <3>. QED
      BY <1>3, <2>4, <2>6, <3>1
  <2>. QED
    BY <2>7
<1>5. Upto(Cardinality(S)) = SUBSET S
  BY <1>1, FS_Subset
<1>6. Has(Cardinality(S))
  BY <1>1, <1>4
<1>. QED
  BY <1>5, <1>6 DEF IsSum

--------------------------------------------------------------------------------
(* The sum of natural numbers.                                             *)

Naturals(f, S) == \A x \in S : f[x] \in Nat

\* The sum of a nonempty set starts with any of its elements: the order in which the
\* recursion takes them does not matter.
LEMMA SumStarts ==
  ASSUME NEW S, IsFiniteSet(S), NEW f, Naturals(f, S), NEW g, IsSum(g, f, S)
  PROVE  /\ g[{}] = 0
         /\ \A T \in SUBSET S : T # {} =>
               Some(T) \in T /\ g[T] = f[Some(T)] + g[T \ {Some(T)}]
<1>1. \A T \in SUBSET S : g[T] = IF T = {} THEN 0 ELSE f[Some(T)] + g[T \ {Some(T)}]
  BY DEF IsSum
<1>. QED
  BY <1>1, SomeIsIn

\* A sum of natural numbers is one.
LEMMA SumType ==
  ASSUME NEW S, IsFiniteSet(S), NEW f, Naturals(f, S), NEW g, IsSum(g, f, S)
  PROVE  \A T \in SUBSET S : g[T] \in Nat
<1>0. /\ g[{}] = 0
      /\ \A T \in SUBSET S : T # {} =>
            Some(T) \in T /\ g[T] = f[Some(T)] + g[T \ {Some(T)}]
  BY SumStarts
<1> DEFINE Bad == {T \in SUBSET S : g[T] \notin Nat}
<1>1. SUFFICES ASSUME Bad # {} PROVE FALSE
  OBVIOUS
<1>2. PICK T \in Bad : \A U \in Bad : U \subseteq T => U = T
  <2>1. Bad \subseteq SUBSET S
    OBVIOUS
  <2> HIDE DEF Bad
  <2>. QED
    BY <1>1, <2>1, SmallestSubset
<1>3. T # {} /\ T \in SUBSET S /\ g[T] \notin Nat
  BY <1>0
<1>4. PICK x \in T : g[T] = f[x] + g[T \ {x}]
  BY <1>0, <1>3
<1>5. g[T \ {x}] \in Nat
  <2>1. T \ {x} # T /\ T \ {x} \subseteq T /\ T \ {x} \in SUBSET S
    BY <1>3
  <2>2. T \ {x} \notin Bad
    BY <1>2, <2>1, Zenon
  <2>. QED
    BY <2>1, <2>2
<1>6. f[x] \in Nat
  BY <1>3 DEF Naturals
<1>. QED
  BY <1>3, <1>4, <1>5, <1>6

\* Any element may be taken out first.
Peels(g, f, S) == \A T \in SUBSET S : \A x \in T : g[T] = f[x] + g[T \ {x}]

\* Whatever element is taken out first, the sum is its number and the sum of the rest.
LEMMA SumRemove ==
  ASSUME NEW S, IsFiniteSet(S), NEW f, Naturals(f, S), NEW g, IsSum(g, f, S)
  PROVE  Peels(g, f, S)
<1>0. /\ g[{}] = 0
      /\ \A T \in SUBSET S : T # {} =>
            Some(T) \in T /\ g[T] = f[Some(T)] + g[T \ {Some(T)}]
  BY SumStarts
<1>10. \A T \in SUBSET S : g[T] \in Nat
  BY SumType, Zenon
<1> DEFINE Bad == {T \in SUBSET S : \E x \in T : g[T] # f[x] + g[T \ {x}]}
<1>1. SUFFICES ASSUME Bad # {} PROVE FALSE
  BY DEF Peels
<1>2. PICK T \in Bad : \A U \in Bad : U \subseteq T => U = T
  <2>1. Bad \subseteq SUBSET S
    OBVIOUS
  <2> HIDE DEF Bad
  <2>. QED
    BY <1>1, <2>1, SmallestSubset
<1>3. PICK x \in T : g[T] # f[x] + g[T \ {x}]
  OBVIOUS
<1>4. PICK s \in T : g[T] = f[s] + g[T \ {s}]
  BY <1>0, <1>3
<1>5. x # s
  BY <1>3, <1>4
<1>6. \A U \in SUBSET S : U \subseteq T /\ U # T => \A y \in U : g[U] = f[y] + g[U \ {y}]
  BY <1>2
<1> DEFINE both == (T \ {s}) \ {x}
<1>7. g[T \ {s}] = f[x] + g[both]
  <2>1. T \ {s} \in SUBSET S /\ T \ {s} \subseteq T /\ T \ {s} # T /\ x \in T \ {s}
    BY <1>5
  <2>. QED
    BY <1>6, <2>1
<1>8. g[T \ {x}] = f[s] + g[both]
  <2>1. T \ {x} \in SUBSET S /\ T \ {x} \subseteq T /\ T \ {x} # T /\ s \in T \ {x}
    BY <1>5
  <2>2. (T \ {x}) \ {s} = both
    OBVIOUS
  <2>. QED
    BY <1>6, <2>1, <2>2
<1>9. f[x] \in Nat /\ f[s] \in Nat /\ g[both] \in Nat
  <2>1. both \in SUBSET S /\ x \in S /\ s \in S
    OBVIOUS
  <2>. QED
    BY <1>10, <2>1 DEF Naturals
<1>. HIDE DEF both
<1>. QED
  BY <1>3, <1>4, <1>7, <1>8, <1>9

\* A subset does not sum to more.
LEMMA SumMonotone ==
  ASSUME NEW S, IsFiniteSet(S), NEW f, Naturals(f, S), NEW g, IsSum(g, f, S)
  PROVE  \A U \in SUBSET S : \A T \in SUBSET U : g[T] <= g[U]
<1>10. \A T \in SUBSET S : g[T] \in Nat
  BY SumType, Zenon
<1>11. Peels(g, f, S)
  BY SumRemove
<1> DEFINE Bad == {U \in SUBSET S : \E T \in SUBSET U : ~(g[T] <= g[U])}
<1>1. SUFFICES ASSUME Bad # {} PROVE FALSE
  OBVIOUS
<1>2. PICK U \in Bad : \A V \in Bad : V \subseteq U => V = U
  <2>1. Bad \subseteq SUBSET S
    OBVIOUS
  <2> HIDE DEF Bad
  <2>. QED
    BY <1>1, <2>1, SmallestSubset
<1>3. PICK T \in SUBSET U : ~(g[T] <= g[U])
  OBVIOUS
<1>4. U \in SUBSET S /\ T \in SUBSET S
  OBVIOUS
<1>5. g[T] \in Nat /\ g[U] \in Nat
  BY <1>4, <1>10
<1>6. PICK x \in U : x \notin T
  BY <1>3, <1>5
<1> DEFINE V == U \ {x}
<1>7. V \in SUBSET S /\ T \in SUBSET V /\ V \subseteq U /\ V # U
  BY <1>6
<1>8. g[T] <= g[V]
  BY <1>2, <1>7
<1>9. g[U] = f[x] + g[V] /\ g[V] \in Nat /\ f[x] \in Nat
  BY <1>4, <1>7, <1>10, <1>11 DEF Naturals, Peels
<1>. HIDE DEF V
<1>. QED
  BY <1>3, <1>5, <1>8, <1>9

\* A one-to-one map that keeps the values keeps the sum.
LEMMA SumImage ==
  ASSUME NEW S, IsFiniteSet(S), NEW f, Naturals(f, S), NEW g, IsSum(g, f, S),
         NEW R, IsFiniteSet(R), NEW k, Naturals(k, R), NEW h, IsSum(h, k, R),
         NEW m \in [S -> R],
         \A x, y \in S : m[x] = m[y] => x = y,
         \A x \in S : k[m[x]] = f[x]
  PROVE  \A T \in SUBSET S : g[T] = h[{m[x] : x \in T}]
<1>0. g[{}] = 0 /\ h[{}] = 0
  <2>1. g[{}] = 0
    BY SumStarts
  <2>2. h[{}] = 0
    BY SumStarts
  <2>. QED
    BY <2>1, <2>2
<1>13. Peels(g, f, S)
  BY SumRemove
<1>14. Peels(h, k, R)
  BY SumRemove
<1> DEFINE Image(T) == {m[x] : x \in T}
           Bad == {T \in SUBSET S : g[T] # h[Image(T)]}
<1>1. SUFFICES ASSUME Bad # {} PROVE FALSE
  OBVIOUS
<1>2. PICK T \in Bad : \A U \in Bad : U \subseteq T => U = T
  <2>1. Bad \subseteq SUBSET S
    OBVIOUS
  <2> HIDE DEF Bad
  <2>. QED
    BY <1>1, <2>1, SmallestSubset
<1>3. T \in SUBSET S /\ g[T] # h[Image(T)]
  OBVIOUS
<1>4. T # {}
  <2>1. Image({}) = {}
    OBVIOUS
  <2>. QED
    BY <1>0, <1>3, <2>1
<1>5. PICK x \in T : TRUE
  BY <1>4
<1> DEFINE U == T \ {x}
<1>6. U \in SUBSET S /\ U \subseteq T /\ U # T
  BY <1>3
<1>7. g[U] = h[Image(U)]
  BY <1>2, <1>6
<1>8. Image(U) = Image(T) \ {m[x]}
  BY <1>3
<1>9. Image(T) \in SUBSET R /\ m[x] \in Image(T)
  BY <1>3
<1>10. g[T] = f[x] + g[U]
  BY <1>3, <1>13 DEF Peels
<1>11. h[Image(T)] = k[m[x]] + h[Image(T) \ {m[x]}]
  <2> HIDE DEF Image
  <2>. QED
    BY <1>9, <1>14 DEF Peels
<1>12. k[m[x]] = f[x]
  BY <1>3
<1>. HIDE DEF Image, U
<1>. QED
  BY <1>3, <1>7, <1>8, <1>10, <1>11, <1>12

\* The image of a finite set under a function is finite.
LEMMA FiniteImage ==
  ASSUME NEW S, IsFiniteSet(S), NEW m
  PROVE  IsFiniteSet({m[x] : x \in S})
<1> DEFINE T == {m[x] : x \in S}
           f == [x \in S |-> m[x]]
<1>1. f \in Surjection(S, T)
  BY DEF Surjection
<1>. HIDE DEF f, T
<1>2. IsFiniteSet(T)
  BY <1>1, FS_Surjection
<1>. QED
  BY <1>2 DEF T

\* A finite set of numbers has a largest.
LEMMA LargestNumber ==
  ASSUME NEW E, E \subseteq Nat, IsFiniteSet(E), E # {}
  PROVE  \E n \in E : \A m \in E : m <= n
<1>. DEFINE B == {T \in SUBSET E : T # {} /\ ~ \E n \in T : \A m \in T : m <= n}
<1>1. SUFFICES ASSUME B # {} PROVE FALSE
  OBVIOUS
<1>2. B \subseteq SUBSET E
  OBVIOUS
<1>3. PICK T \in B : \A U \in B : U \subseteq T => U = T
  <2>1. IsFiniteSet(E) /\ B \subseteq SUBSET E /\ B # {}
    BY <1>1, <1>2
  <2>. HIDE DEF B
  <2>. QED
    BY ONLY <2>1, SmallestSubset
<1>4. PICK x \in T : TRUE
  OBVIOUS
<1>5. x \in Nat /\ T \in SUBSET Nat
  OBVIOUS
<1>6. T \ {x} # {}
  BY <1>5
<1>7. T \ {x} \notin B
  BY <1>3
<1>8. PICK n \in T \ {x} : \A m \in T \ {x} : m <= n
  BY <1>6, <1>7
<1>9. CASE x <= n
  BY <1>5, <1>8, <1>9
<1>10. CASE n < x
  <2>1. \A m \in T : m <= x
    BY <1>5, <1>8, <1>10
  <2>. QED
    BY <2>1
<1>. QED
  BY <1>5, <1>9, <1>10

--------------------------------------------------------------------------------
(* Orders and subsequences: Subsequences!InOrder of a finite set that a   *)
(* strict total order arranges, and what Picked keeps of a sequence.      *)

\* A strict total order, as a set of pairs.
IsOrder(R, S) ==
    /\ \A x \in S : <<x, x>> \notin R
    /\ \A x, y, z \in S : <<x, y>> \in R /\ <<y, z>> \in R => <<x, z>> \in R
    /\ \A x, y \in S : x # y => <<x, y>> \in R \/ <<y, x>> \in R
\* InOrder, of such a set.
Ranked(S, R) ==
    [k \in 1 .. Cardinality(S) |->
        CHOOSE x \in S : Cardinality({y \in S : <<y, x>> \in R}) = k - 1]
\* Every position of f holds an element of S, every element once, and in the order.
Arranges(f, S, R) ==
    /\ f \in [1 .. Cardinality(S) -> S]
    /\ \A x \in S : \E k \in 1 .. Cardinality(S) : f[k] = x
    /\ \A j, k \in 1 .. Cardinality(S) : j < k => f[j] # f[k] /\ <<f[j], f[k]>> \in R /\ <<f[k], f[j]>> \notin R

\* An order puts a different number of elements before each.
LEMMA RankedArranges ==
  ASSUME NEW S, IsFiniteSet(S), NEW R, IsOrder(R, S)
  PROVE  Arranges(Ranked(S, R), S, R) /\ Cardinality(S) \in Nat
<1>. DEFINE n == Cardinality(S)  below(x) == {y \in S : <<y, x>> \in R}
            rank == [x \in S |-> Cardinality(below(x)) + 1]
<1>1. n \in Nat
  BY FS_CardinalityType
<1>2. ASSUME NEW x \in S PROVE IsFiniteSet(below(x)) /\ Cardinality(below(x)) \in Nat
                               /\ Cardinality(below(x)) < n
  <2>. DEFINE B == below(x)
  <2>1. B \subseteq S /\ x \notin B
    BY DEF IsOrder
  <2>. HIDE DEF B
  <2>2. IsFiniteSet(B) /\ Cardinality(B) <= n /\ (n = Cardinality(B) => S = B)
    BY <2>1, FS_Subset
  <2>3. Cardinality(B) \in Nat
    BY <2>2, FS_CardinalityType
  <2>4. Cardinality(B) < n
    BY <1>1, <2>1, <2>2, <2>3
  <2>. QED
    BY <2>2, <2>3, <2>4 DEF B
<1>3. ASSUME NEW x \in S, NEW y \in S, <<y, x>> \in R PROVE rank[y] < rank[x]
  <2>. DEFINE A == below(y)  B == below(x)
  <2>1. A \subseteq B /\ y \in B /\ y \notin A
    BY <1>3 DEF IsOrder
  <2>2. IsFiniteSet(B) /\ Cardinality(A) \in Nat /\ Cardinality(B) \in Nat
    BY <1>2
  <2>3. rank[y] = Cardinality(A) + 1 /\ rank[x] = Cardinality(B) + 1
    OBVIOUS
  <2>. HIDE DEF A, B, rank
  <2>4. Cardinality(A) <= Cardinality(B) /\ (Cardinality(B) = Cardinality(A) => B = A)
    BY <2>1, <2>2, FS_Subset
  <2>. QED
    BY <2>1, <2>2, <2>3, <2>4
<1>4. rank \in [S -> 1 .. n]
  <2>1. ASSUME NEW x \in S PROVE rank[x] \in 1 .. n
    BY <1>1, <1>2
  <2>. QED
    BY <2>1
<1>5. ASSUME NEW x \in S, NEW y \in S, x # y PROVE rank[x] # rank[y]
  <2>1. <<x, y>> \in R \/ <<y, x>> \in R
    BY <1>5 DEF IsOrder
  <2>2. rank[x] < rank[y] \/ rank[y] < rank[x]
    <3>. HIDE DEF rank
    <3>. QED
      BY <1>3, <2>1
  <2>3. rank[x] \in 1 .. n /\ rank[y] \in 1 .. n
    BY <1>4
  <2>. HIDE DEF rank
  <2>. QED
    BY <1>1, <2>2, <2>3
<1>6. rank \in Injection(S, 1 .. n)
  <2>. HIDE DEF rank
  <2>. QED
    BY <1>4, <1>5 DEF Injection, IsInjective
<1>7. IsFiniteSet(1 .. n) /\ Cardinality(1 .. n) = n
  <2>1. 1 - 1 <= n
    BY <1>1
  <2>. QED
    BY <1>1, FS_Interval
<1>8. rank \in Surjection(S, 1 .. n)
  <2>. HIDE DEF rank
  <2>. QED
    BY <1>1, <1>6, <1>7, FS_Injection
<1>9. \A k \in 1 .. n : \E x \in S : rank[x] = k
  <2>. HIDE DEF rank
  <2>. QED
    BY <1>8 DEF Surjection
<1>. DEFINE f == Ranked(S, R)
<1>10. ASSUME NEW k \in 1 .. n PROVE f[k] \in S /\ rank[f[k]] = k
  <2>1. PICK x \in S : rank[x] = k
    BY <1>9
  <2>2. Cardinality(below(x)) = k - 1
    BY <1>1, <1>2, <2>1
  <2>3. f[k] = CHOOSE z \in S : Cardinality(below(z)) = k - 1
    BY DEF Ranked
  <2>4. f[k] \in S /\ Cardinality(below(f[k])) = k - 1
    <3>. HIDE DEF f, below
    <3>. QED
      BY <2>2, <2>3
  <2>. HIDE DEF f
  <2>. QED
    BY <1>1, <2>4
<1>11. f \in [1 .. n -> S]
  <2>. DEFINE e(k) == CHOOSE x \in S : Cardinality({y \in S : <<y, x>> \in R}) = k - 1
  <2>1. f = [k \in 1 .. n |-> e(k)]
    BY DEF Ranked
  <2>. HIDE DEF e
  <2>. HIDE DEF f
  <2>. QED
    BY <1>10, <2>1
<1>. HIDE DEF f, rank
<1>12. \A x \in S : f[rank[x]] = x /\ rank[x] \in 1 .. n
  BY <1>4, <1>5, <1>10
<1>13. ASSUME NEW j \in 1 .. n, NEW k \in 1 .. n, j < k
       PROVE  f[j] # f[k] /\ <<f[j], f[k]>> \in R /\ <<f[k], f[j]>> \notin R
  <2>1. f[j] \in S /\ f[k] \in S /\ rank[f[j]] = j /\ rank[f[k]] = k
    BY <1>10
  <2>2. f[j] # f[k] /\ <<f[k], f[j]>> \notin R
    BY <1>3, <1>13, <2>1
  <2>. QED
    BY <2>1, <2>2 DEF IsOrder
<1>. QED
  BY <1>1, <1>11, <1>12, <1>13 DEF Arranges, f

--------------------------------------------------------------------------------
(* Picked: positions in their order.                                       *)

Earlier(I) == {p \in I \X I : p[1] < p[2]}
\* q shows the items of s at the positions o[1], o[2], ...
Shows(q, s, o, I) ==
    /\ Arranges(o, I, Earlier(I)) /\ Cardinality(I) \in Nat
    /\ q = [k \in 1 .. Cardinality(I) |-> s[o[k]]]

\* Picked shows the items at its positions, in some order function.
LEMMA PickedShows ==
  ASSUME NEW s, NEW I \in SUBSET Nat, IsFiniteSet(I)
  PROVE  \E o : Shows(Picked(s, I), s, o, I)
<1>. DEFINE o == Ranked(I, Earlier(I))
<1>1. IsOrder(Earlier(I), I)
  BY DEF IsOrder, Earlier
<1>2. Arranges(o, I, Earlier(I)) /\ Cardinality(I) \in Nat
  <2>. DEFINE R == Earlier(I)
  <2>. HIDE DEF R
  <2>. QED
    BY <1>1, RankedArranges DEF R
<1>3. \A x \in I : {y \in I : y < x} = {y \in I : <<y, x>> \in Earlier(I)}
  BY DEF Earlier
<1>4. InOrder(I, LAMBDA i, j : i < j) = o
  <2>1. InOrder(I, LAMBDA i, j : i < j) =
          [k \in 1 .. Cardinality(I) |-> CHOOSE x \in I : Cardinality({y \in I : y < x}) = k - 1]
    BY DEF InOrder
  <2>2. \A k \in 1 .. Cardinality(I) :
          (CHOOSE x \in I : Cardinality({y \in I : y < x}) = k - 1)
            = (CHOOSE x \in I : Cardinality({y \in I : <<y, x>> \in Earlier(I)}) = k - 1)
    <3>. HIDE DEF Earlier
    <3>. QED
      BY <1>3
  <2>. QED
    BY <2>1, <2>2 DEF Ranked
<1>5. DOMAIN o = 1 .. Cardinality(I)
  BY DEF Ranked
<1>6. Picked(s, I) = [k \in 1 .. Cardinality(I) |-> s[o[k]]]
  <2>1. Picked(s, I) = LET at == InOrder(I, LAMBDA i, j : i < j) IN [k \in DOMAIN at |-> s[at[k]]]
    BY DEF Picked
  <2>. QED
    BY <1>4, <1>5, <2>1
<1>. HIDE DEF o
<1>. QED
  BY <1>2, <1>6 DEF Shows

\* Positions are numbered like the items.
LEMMA ArrangedBijection ==
  ASSUME NEW S, NEW o, NEW R, Arranges(o, S, R), Cardinality(S) \in Nat
  PROVE  o \in Bijection(1 .. Cardinality(S), S)
<1>. DEFINE n == Cardinality(S)
<1>1. n \in Nat /\ o \in [1 .. n -> S]
  BY DEF Arranges
<1>2. \A j, k \in 1 .. n : j < k => o[j] # o[k]
  BY DEF Arranges
<1>3. \A x \in S : \E k \in 1 .. n : o[k] = x
  BY DEF Arranges
<1>. HIDE DEF n
<1>4. \A j, k \in 1 .. n : o[j] = o[k] => j = k
  BY <1>1, <1>2
<1>5. o \in Injection(1 .. n, S)
  BY <1>1, <1>4 DEF Injection, IsInjective
<1>6. o \in Surjection(1 .. n, S)
  BY <1>1, <1>3 DEF Surjection
<1>. QED
  BY <1>5, <1>6 DEF Bijection, n

\* Positions of a sequence are finitely many numbers.
LEMMA Positions == ASSUME NEW A, NEW s \in Seq(A), NEW I \in SUBSET (DOMAIN s)
                   PROVE  IsFiniteSet(I) /\ I \in SUBSET Nat /\ Cardinality(I) \in Nat
<1>1. DOMAIN s = 1 .. Len(s) /\ Len(s) \in Nat
  OBVIOUS
<1>2. IsFiniteSet(1 .. Len(s))
  BY <1>1, FS_Interval
<1>. QED
  BY <1>1, <1>2, FS_Subset, FS_CardinalityType

\* The items picked of a sequence, as many as there are positions.
LEMMA PickedItems ==
  ASSUME NEW A, NEW s \in Seq(A), NEW I \in SUBSET (DOMAIN s)
  PROVE  /\ Picked(s, I) \in Seq(A) /\ Len(Picked(s, I)) = Cardinality(I)
         /\ DOMAIN Picked(s, I) = 1 .. Cardinality(I)
         /\ \A i \in I : \E k \in DOMAIN Picked(s, I) : Picked(s, I)[k] = s[i]
         /\ \A k \in DOMAIN Picked(s, I) : \E i \in I : Picked(s, I)[k] = s[i]
         /\ I = {} => Picked(s, I) = <<>>
<1>. DEFINE q == Picked(s, I)  n == Cardinality(I)
<1>1. IsFiniteSet(I) /\ I \in SUBSET Nat /\ n \in Nat
  BY Positions
<1>2. PICK o : Shows(q, s, o, I)
  BY <1>1, PickedShows
<1>3. o \in [1 .. n -> I] /\ \A i \in I : \E k \in 1 .. n : o[k] = i
  BY <1>2 DEF Shows, Arranges
<1>4. q = [k \in 1 .. n |-> s[o[k]]]
  BY <1>2 DEF Shows
<1>. HIDE DEF q
<1>5. \A i \in I : s[i] \in A
  OBVIOUS
<1>6. I = {} => n = 0
  BY FS_EmptySet
<1>. HIDE DEF n
<1>7. q \in [1 .. n -> A]
  BY <1>3, <1>4, <1>5
<1>8. q \in Seq(A) /\ Len(q) = n /\ DOMAIN q = 1 .. n
  BY <1>1, <1>7
<1>9. \A i \in I : \E k \in 1 .. n : q[k] = s[i]
  BY <1>3, <1>4
<1>10. \A k \in 1 .. n : \E i \in I : q[k] = s[i]
  BY <1>3, <1>4
<1>11. n = 0 => q = <<>>
  BY <1>8
<1>. QED
  BY <1>6, <1>8, <1>9, <1>10, <1>11 DEF q, n

\* How many of some positions hold one of some items.
HowMany(s, I, V) == Cardinality({i \in I : s[i] \in V})

\* Each item is shown as often as it is at one of the positions.
LEMMA ShownCounts ==
  ASSUME NEW s, NEW I, IsFiniteSet(I), NEW R, NEW o, Arranges(o, I, R), NEW q,
         q = [k \in 1 .. Cardinality(I) |-> s[o[k]]], NEW V
  PROVE  HowMany(q, DOMAIN q, V) = HowMany(s, I, V)
<1>. DEFINE n == Cardinality(I)  K == {k \in DOMAIN q : q[k] \in V}  J == {i \in I : s[i] \in V}
<1>1. n \in Nat
  BY FS_CardinalityType
<1>3. o \in Bijection(1 .. n, I)
  BY <1>1, ArrangedBijection
<1>4. q = [k \in 1 .. n |-> s[o[k]]]
  OBVIOUS
<1>. HIDE DEF n
<1>5. K = {k \in 1 .. n : s[o[k]] \in V} /\ K \subseteq 1 .. n
  BY <1>4
<1>6. o \in [1 .. n -> I] /\ (\A j, k \in 1 .. n : o[j] = o[k] => j = k)
      /\ \A i \in I : \E k \in 1 .. n : o[k] = i
  BY <1>3 DEF Bijection, Injection, IsInjective, Surjection
<1>. DEFINE f == [k \in K |-> o[k]]
<1>7. f \in Bijection(K, J)
  <2>. HIDE DEF K, J
  <2>1. f \in [K -> J] /\ (\A j, k \in K : f[j] = f[k] => j = k) /\ \A i \in J : \E k \in K : f[k] = i
    BY <1>5, <1>6 DEF J
  <2>. HIDE DEF f
  <2>. QED
    BY <2>1 DEF Bijection, Injection, IsInjective, Surjection
<1>8. IsFiniteSet(K)
  <2>1. IsFiniteSet(1 .. n)
    BY <1>1, FS_Interval DEF n
  <2>. HIDE DEF K
  <2>. QED
    BY <1>5, <2>1, FS_Subset
<1>9. ExistsBijection(K, J)
  <2>. HIDE DEF f, K, J
  <2>. QED
    BY <1>7 DEF ExistsBijection
<1>. HIDE DEF K, J
<1>10. Cardinality(J) = Cardinality(K)
  BY <1>8, <1>9, FS_Bijection
<1>. QED
  BY <1>10 DEF K, J, HowMany

\* Each item is picked as often as it occurs at one of the positions.
LEMMA PickedCounts ==
  ASSUME NEW A, NEW s \in Seq(A), NEW I \in SUBSET (DOMAIN s), NEW V
  PROVE  HowMany(Picked(s, I), DOMAIN Picked(s, I), V) = HowMany(s, I, V)
<1>1. IsFiniteSet(I) /\ I \in SUBSET Nat
  BY Positions
<1>2. PICK o : Shows(Picked(s, I), s, o, I)
  BY <1>1, PickedShows
<1>. QED
  BY <1>1, <1>2, ShownCounts DEF Shows

\* What two lists hold, one after the other.
LEMMA JoinedCounts ==
  ASSUME NEW A, NEW s \in Seq(A), NEW t \in Seq(A), NEW V
  PROVE  HowMany(s \o t, DOMAIN (s \o t), V) = HowMany(s, DOMAIN s, V) + HowMany(t, DOMAIN t, V)
<1>. DEFINE q == s \o t  m == Len(s)  n == Len(t)
            J == {i \in DOMAIN s : s[i] \in V}  K == {k \in DOMAIN t : t[k] \in V}
            L == {m + k : k \in K}  f == [k \in K |-> m + k]
<1>1. /\ m \in Nat /\ n \in Nat /\ DOMAIN s = 1 .. m /\ DOMAIN t = 1 .. n /\ DOMAIN q = 1 .. m + n
      /\ \A i \in 1 .. m : q[i] = s[i]
      /\ \A k \in 1 .. n : q[m + k] = t[k]
  OBVIOUS
<1>. HIDE DEF q, m, n
<1>2. {i \in DOMAIN q : q[i] \in V} = J \cup L
  <2>1. ASSUME NEW i \in 1 .. m + n PROVE q[i] \in V <=> i \in J \/ i \in L
    <3>1. CASE i <= m
      BY <1>1, <3>1
    <3>2. CASE i > m
      <4>1. i - m \in 1 .. n /\ i = m + (i - m)
        BY <1>1, <3>2
      <4>2. q[i] = t[i - m]
        BY <1>1, <4>1
      <4>3. i \in L <=> i - m \in K
        BY <1>1, <4>1
      <4>4. i \notin J
        BY <1>1, <3>2
      <4>. QED
        BY <1>1, <4>1, <4>2, <4>3, <4>4
    <3>. QED
      BY <1>1, <3>1, <3>2
  <2>2. J \subseteq 1 .. m + n /\ L \subseteq 1 .. m + n
    BY <1>1
  <2>. QED
    BY <1>1, <2>1, <2>2
<1>3. IsFiniteSet(J) /\ IsFiniteSet(K)
  <2>1. IsFiniteSet(1 .. m) /\ IsFiniteSet(1 .. n)
    BY <1>1, FS_Interval
  <2>2. J \subseteq 1 .. m /\ K \subseteq 1 .. n
    BY <1>1
  <2>. HIDE DEF J, K
  <2>. QED
    BY <2>1, <2>2, FS_Subset
<1>4. f \in Bijection(K, L)
  <2>1. f \in [K -> L] /\ (\A j, k \in K : f[j] = f[k] => j = k) /\ \A i \in L : \E k \in K : f[k] = i
    BY <1>1
  <2>. HIDE DEF f, K, L
  <2>. QED
    BY <2>1 DEF Bijection, Injection, IsInjective, Surjection
<1>5. Cardinality(L) = Cardinality(K) /\ IsFiniteSet(L)
  <2>1. ExistsBijection(K, L)
    <3>. HIDE DEF f, K, L
    <3>. QED
      BY <1>4 DEF ExistsBijection
  <2>. HIDE DEF K, L
  <2>. QED
    BY <1>3, <2>1, FS_Bijection
<1>6. J \cap L = {}
  BY <1>1
<1>. HIDE DEF J, K, L
<1>7. Cardinality(J \cup L) = Cardinality(J) + Cardinality(L)
  <2>1. Cardinality(J \cup L) = Cardinality(J) + Cardinality(L) - Cardinality(J \cap L)
    BY <1>3, <1>5, FS_Union
  <2>2. Cardinality(J) \in Nat /\ Cardinality(L) \in Nat /\ Cardinality(J \cap L) = 0
    BY <1>3, <1>5, <1>6, FS_CardinalityType, FS_EmptySet
  <2>. QED
    BY <2>1, <2>2
<1>. QED
  BY <1>2, <1>5, <1>7 DEF HowMany, J, K, q
================================================================================

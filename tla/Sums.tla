-------------------------------- MODULE Sums --------------------------------
(* Facts about the sum of a function over a finite set of its arguments, as *)
(* the library's SumFunctionOnSet computes it: one element after the other, *)
(* in the order in which CHOOSE takes them.                                 *)
EXTENDS FiniteSetsExt, FiniteSetTheorems, TLAPS

\* The element the fold takes next.
Pick(T) == CHOOSE x \in T : TRUE

\* The equation of the fold, for the subsets of S.
SumsTo(g, h, S) ==
    g = [T \in SUBSET S |-> IF T = {} THEN 0 ELSE h[Pick(T)] + g[T \ {Pick(T)}]]

\* A set of subsets of a finite set has a member from which no element can be
\* removed without leaving it: the induction on finite sets used below.
LEMMA MinimalSubset ==
    ASSUME NEW S, IsFiniteSet(S), NEW Bad, Bad \subseteq SUBSET S, Bad # {}
    PROVE  \E T \in Bad : \A x \in T : T \ {x} \notin Bad
<1>1. Bad \subseteq FiniteSubsetsOf(S)
  BY FS_Subset DEF FiniteSubsetsOf
<1>2. PICK T \in Bad : \A U \in Bad : ~ (<<U, T>> \in StrictSubsetOrdering(S))
  BY <1>1, FS_StrictSubsetOrderingWellFounded, WFMin
<1>3. ASSUME NEW x \in T, T \ {x} \in Bad PROVE FALSE
  <2>1. <<T \ {x}, T>> \in StrictSubsetOrdering(S)
    BY DEF StrictSubsetOrdering
  <2> QED
    BY <1>2, <1>3, <2>1
<1> QED
  BY <1>3

\* A set of numbers that has 0 and the successors of its members has them all.
LEMMA AllNumbers ==
    ASSUME NEW Q, 0 \in Q, \A n \in Nat : n \in Q => n + 1 \in Q
    PROVE  Nat \subseteq Q
<1> DEFINE Bad == {n \in Nat : n \notin Q}
<1> SUFFICES ASSUME Bad # {} PROVE FALSE
  OBVIOUS
<1>1. PICK n \in Bad : \A m \in Bad : ~ (<<m, n>> \in OpToRel(<, Nat))
  BY NatLessThanWellFounded, WFMin
<1>2. n \in Nat /\ n - 1 \in Nat /\ n = (n - 1) + 1
  OBVIOUS
<1>3. n - 1 \notin Bad
  <2>1. <<n - 1, n>> \in OpToRel(<, Nat)
    BY <1>2 DEF OpToRel
  <2> QED
    BY <1>1, <2>1
<1> QED
  BY <1>2, <1>3

\* The equation has a solution on every finite set.
LEMMA SumExists ==
    ASSUME NEW h, NEW S, IsFiniteSet(S)
    PROVE  \E g : SumsTo(g, h, S)
<1> DEFINE Next(g, T) == IF T = {} THEN 0 ELSE h[Pick(T)] + g[T \ {Pick(T)}]
           Upto(g, n) == \A T \in SUBSET S : Cardinality(T) <= n => g[T] = Next(g, T)
           Q == {n \in Nat : \E g : Upto(g, n)}
<1>1. \A T \in SUBSET S : IsFiniteSet(T) /\ Cardinality(T) \in Nat /\ Cardinality(T) <= Cardinality(S)
  BY FS_Subset, FS_CardinalityType
<1>2. \A T \in SUBSET S : T # {} =>
        /\ Pick(T) \in T /\ T \ {Pick(T)} \in SUBSET S
        /\ Cardinality(T \ {Pick(T)}) = Cardinality(T) - 1
  BY <1>1, FS_RemoveElement DEF Pick
<1>3. 0 \in Q
  <2>1. Upto([T \in SUBSET S |-> 0], 0)
    BY <1>1, FS_EmptySet
  <2> QED
    BY <2>1
<1>4. ASSUME NEW n \in Nat, n \in Q PROVE n + 1 \in Q
  <2>1. PICK g : Upto(g, n)
    BY <1>4
  <2> DEFINE f == [T \in SUBSET S |-> IF Cardinality(T) <= n THEN g[T] ELSE Next(g, T)]
  <2>2. ASSUME NEW T \in SUBSET S, Cardinality(T) <= n + 1 PROVE f[T] = Next(f, T)
    <3>1. f[T] = Next(g, T)
      BY <2>1
    <3>2. T # {} => f[T \ {Pick(T)}] = g[T \ {Pick(T)}]
      BY <1>1, <1>2, <2>2
    <3> QED
      BY <3>1, <3>2
  <2>3. Upto(f, n + 1)
    BY <2>2
  <2>4. n + 1 \in Nat /\ \E e : Upto(e, n + 1)
    <3> HIDE DEF Upto, f
    <3> QED
      BY <2>3
  <2> QED
    BY <2>4
<1>5. Cardinality(S) \in Q
  <2> HIDE DEF Q
  <2>1. \A n \in Nat : n \in Q => n + 1 \in Q
    BY <1>4
  <2>2. Nat \subseteq Q
    BY <1>3, <2>1, AllNumbers
  <2> QED
    BY <1>1, <2>2
<1>6. PICK g : Upto(g, Cardinality(S))
  BY <1>5
<1>7. SumsTo([T \in SUBSET S |-> g[T]], h, S)
  <2> DEFINE f == [T \in SUBSET S |-> g[T]]
  <2>1. \A T \in SUBSET S : f[T] = Next(f, T)
    BY <1>1, <1>2, <1>6
  <2> QED
    BY <2>1 DEF SumsTo
<1> QED
  BY <1>7

\* Solutions of the equation for functions that agree on a set agree there.
LEMMA SumUnique ==
    ASSUME NEW g1, NEW h1, NEW S1, SumsTo(g1, h1, S1),
           NEW g2, NEW h2, NEW S2, SumsTo(g2, h2, S2),
           NEW S, IsFiniteSet(S), S \subseteq S1, S \subseteq S2,
           \A x \in S : h1[x] = h2[x]
    PROVE  g1[S] = g2[S]
<1> DEFINE Bad == {T \in SUBSET S : g1[T] # g2[T]}
<1> SUFFICES ASSUME Bad # {} PROVE FALSE
  OBVIOUS
<1>1. PICK T \in Bad : \A x \in T : T \ {x} \notin Bad
  <2> HIDE DEF Bad
  <2>1. Bad \subseteq SUBSET S
    BY DEF Bad
  <2> QED
    BY <2>1, MinimalSubset
<1>2. /\ g1[T] = IF T = {} THEN 0 ELSE h1[Pick(T)] + g1[T \ {Pick(T)}]
      /\ g2[T] = IF T = {} THEN 0 ELSE h2[Pick(T)] + g2[T \ {Pick(T)}]
  BY DEF SumsTo
<1>3. T # {} => Pick(T) \in T
  BY DEF Pick
<1> QED
  BY <1>1, <1>2, <1>3

\* What the library's operator stands for.
LEMMA SumUnfold ==
    ASSUME NEW h, NEW S
    PROVE  SumFunctionOnSet(h, S) = (CHOOSE g : SumsTo(g, h, S))[S]
BY DEF SumFunctionOnSet, FoldFunctionOnSet, MapThenFoldSet, SumsTo, Pick

\* The sum of nothing, and the sum of something in the order of the fold.
LEMMA SumFold ==
    ASSUME NEW h, NEW S, IsFiniteSet(S)
    PROVE  SumFunctionOnSet(h, S) =
             IF S = {} THEN 0 ELSE h[Pick(S)] + SumFunctionOnSet(h, S \ {Pick(S)})
<1>1. PICK g : SumsTo(g, h, S)
  BY SumExists
<1>2. SumsTo(CHOOSE f : SumsTo(f, h, S), h, S)
  BY <1>1
<1>3. SumFunctionOnSet(h, S) = g[S]
  BY <1>1, <1>2, SumUnfold, SumUnique
<1>4. g[S] = IF S = {} THEN 0 ELSE h[Pick(S)] + g[S \ {Pick(S)}]
  BY <1>1 DEF SumsTo
<1> DEFINE R == S \ {Pick(S)}
<1>5. IsFiniteSet(R) /\ R \subseteq S
  BY FS_RemoveElement
<1>6. PICK f : SumsTo(f, h, R)
  BY <1>5, SumExists
<1>7. SumsTo(CHOOSE e : SumsTo(e, h, R), h, R)
  BY <1>6
<1>8. SumFunctionOnSet(h, R) = g[R]
  BY <1>1, <1>5, <1>7, SumUnfold, SumUnique
<1> QED
  BY <1>3, <1>4, <1>8

-----------------------------------------------------------------------------
\* The sum over no argument is 0.
LEMMA SumEmpty == ASSUME NEW h PROVE SumFunctionOnSet(h, {}) = 0
BY SumFold, FS_EmptySet

\* The sum depends on the values on the set only.
LEMMA SumSame ==
    ASSUME NEW S, IsFiniteSet(S), NEW h1, NEW h2, \A x \in S : h1[x] = h2[x]
    PROVE  SumFunctionOnSet(h1, S) = SumFunctionOnSet(h2, S)
<1>1. SumsTo(CHOOSE e : SumsTo(e, h1, S), h1, S)
  BY SumExists
<1>2. SumsTo(CHOOSE e : SumsTo(e, h2, S), h2, S)
  BY SumExists
<1> QED
  BY <1>1, <1>2, SumUnfold, SumUnique

\* Sums of integers are integers.
LEMMA SumInt ==
    ASSUME NEW S, IsFiniteSet(S), NEW h, \A x \in S : h[x] \in Int
    PROVE  SumFunctionOnSet(h, S) \in Int
<1> DEFINE Bad == {T \in SUBSET S : SumFunctionOnSet(h, T) \notin Int}
<1> SUFFICES ASSUME Bad # {} PROVE FALSE
  OBVIOUS
<1>1. PICK T \in Bad : \A x \in T : T \ {x} \notin Bad
  <2> HIDE DEF Bad
  <2>1. Bad \subseteq SUBSET S
    BY DEF Bad
  <2> QED
    BY <2>1, MinimalSubset
<1>2. IsFiniteSet(T) /\ (T # {} => Pick(T) \in T)
  BY FS_Subset DEF Pick
<1>3. SumFunctionOnSet(h, T) = IF T = {} THEN 0 ELSE h[Pick(T)] + SumFunctionOnSet(h, T \ {Pick(T)})
  BY <1>2, SumFold
<1> QED
  BY <1>1, <1>2, <1>3

\* Any element may be taken first.
LEMMA SumRemove ==
    ASSUME NEW S, IsFiniteSet(S), NEW h, \A x \in S : h[x] \in Int, NEW y \in S
    PROVE  SumFunctionOnSet(h, S) = h[y] + SumFunctionOnSet(h, S \ {y})
<1> DEFINE Sum(T) == SumFunctionOnSet(h, T)
           Bad == {T \in SUBSET S : \E x \in T : Sum(T) # h[x] + Sum(T \ {x})}
<1> SUFFICES ASSUME Bad # {} PROVE FALSE
  OBVIOUS
<1>1. PICK T \in Bad : \A x \in T : T \ {x} \notin Bad
  <2> HIDE DEF Bad
  <2>1. Bad \subseteq SUBSET S
    BY DEF Bad
  <2> QED
    BY <2>1, MinimalSubset
<1>2. PICK x \in T : Sum(T) # h[x] + Sum(T \ {x})
  OBVIOUS
<1> DEFINE c == Pick(T)
<1>3. c \in T /\ IsFiniteSet(T) /\ IsFiniteSet(T \ {x}) /\ IsFiniteSet((T \ {x}) \ {c})
  BY <1>2, FS_Subset, FS_RemoveElement DEF Pick
<1>4. Sum(T) = h[c] + Sum(T \ {c})
  BY <1>3, SumFold
<1>5. c # x
  BY <1>2, <1>4
<1>6. Sum(T \ {c}) = h[x] + Sum((T \ {c}) \ {x})
  BY <1>1, <1>2, <1>3, <1>5
<1>7. Sum(T \ {x}) = h[c] + Sum((T \ {x}) \ {c})
  BY <1>1, <1>2, <1>3, <1>5
<1>8. (T \ {c}) \ {x} = (T \ {x}) \ {c}
  OBVIOUS
<1>9. h[c] \in Int /\ h[x] \in Int /\ Sum((T \ {x}) \ {c}) \in Int
  BY <1>2, <1>3, SumInt
<1>10. Sum(T \ {x}) = h[c] + Sum((T \ {c}) \ {x})
  BY <1>7, <1>8, Zenon
<1> QED
  <2> DEFINE all == Sum(T)  withoutC == Sum(T \ {c})  withoutX == Sum(T \ {x})
             rest == Sum((T \ {c}) \ {x})
  <2>1. /\ all = h[c] + withoutC /\ withoutC = h[x] + rest /\ withoutX = h[c] + rest
        /\ all # h[x] + withoutX /\ h[c] \in Int /\ h[x] \in Int /\ rest \in Int
    BY <1>2, <1>4, <1>6, <1>8, <1>9, <1>10, Zenon
  <2> HIDE DEF all, withoutC, withoutX, rest, c
  <2> QED
    BY <2>1

\* One argument more adds its value.
LEMMA SumAdd ==
    ASSUME NEW S, IsFiniteSet(S), NEW y, y \notin S,
           NEW h, \A x \in S \cup {y} : h[x] \in Int
    PROVE  SumFunctionOnSet(h, S \cup {y}) = SumFunctionOnSet(h, S) + h[y]
<1>1. IsFiniteSet(S \cup {y}) /\ (S \cup {y}) \ {y} = S
  BY FS_AddElement
<1>2. SumFunctionOnSet(h, S \cup {y}) = h[y] + SumFunctionOnSet(h, (S \cup {y}) \ {y})
  BY <1>1, SumRemove
<1>3. SumFunctionOnSet(h, S) \in Int /\ h[y] \in Int
  BY SumInt
<1>4. SumFunctionOnSet(h, S \cup {y}) = h[y] + SumFunctionOnSet(h, S)
  BY <1>1, <1>2, Zenon
<1> QED
  BY <1>3, <1>4

\* Smaller values add up to less.
LEMMA SumMonotone ==
    ASSUME NEW S, IsFiniteSet(S), NEW h1, NEW h2,
           \A x \in S : h1[x] \in Int /\ h2[x] \in Int /\ h1[x] <= h2[x]
    PROVE  SumFunctionOnSet(h1, S) <= SumFunctionOnSet(h2, S)
<1> DEFINE Bad == {T \in SUBSET S : ~ (SumFunctionOnSet(h1, T) <= SumFunctionOnSet(h2, T))}
<1> SUFFICES ASSUME Bad # {} PROVE FALSE
  OBVIOUS
<1>1. PICK T \in Bad : \A x \in T : T \ {x} \notin Bad
  <2> HIDE DEF Bad
  <2>1. Bad \subseteq SUBSET S
    BY DEF Bad
  <2> QED
    BY <2>1, MinimalSubset
<1>2. T # {}
  BY SumEmpty
<1>3. PICK x \in T : TRUE
  BY <1>2
<1>4. IsFiniteSet(T) /\ IsFiniteSet(T \ {x})
  BY FS_Subset, FS_RemoveElement
<1>5. /\ SumFunctionOnSet(h1, T) = h1[x] + SumFunctionOnSet(h1, T \ {x})
      /\ SumFunctionOnSet(h2, T) = h2[x] + SumFunctionOnSet(h2, T \ {x})
  BY <1>3, <1>4, SumRemove
<1>6. SumFunctionOnSet(h1, T \ {x}) \in Int /\ SumFunctionOnSet(h2, T \ {x}) \in Int
  BY <1>4, SumInt
<1> QED
  BY <1>1, <1>3, <1>5, <1>6

\* Fewer arguments with values that are not negative add up to less.
LEMMA SumSubset ==
    ASSUME NEW S, IsFiniteSet(S), NEW T, T \subseteq S, NEW h, \A x \in S : h[x] \in Nat
    PROVE  SumFunctionOnSet(h, T) <= SumFunctionOnSet(h, S)
<1> DEFINE Bad == {U \in SUBSET S : ~ (SumFunctionOnSet(h, U \cap T) <= SumFunctionOnSet(h, U))}
<1>1. ASSUME Bad # {} PROVE FALSE
  <2>1. PICK U \in Bad : \A x \in U : U \ {x} \notin Bad
    <3> HIDE DEF Bad
    <3>1. Bad \subseteq SUBSET S
      BY DEF Bad
    <3> QED
      BY <1>1, <3>1, MinimalSubset
  <2>2. PICK x \in U : x \notin T
    <3>1. \A W : IsFiniteSet(W) /\ W \subseteq S => SumFunctionOnSet(h, W) \in Int
      BY SumInt
    <3>2. IsFiniteSet(U) /\ U \cap T # U
      <4>1. IsFiniteSet(U)
        BY FS_Subset
      <4>2. SumFunctionOnSet(h, U) <= SumFunctionOnSet(h, U)
        BY <3>1, <4>1
      <4> QED
        BY <4>1, <4>2
    <3> QED
      BY <3>2
  <2>3. IsFiniteSet(U) /\ IsFiniteSet(U \ {x}) /\ IsFiniteSet(U \cap T) /\ (U \ {x}) \cap T = U \cap T
    BY <2>2, FS_Subset, FS_RemoveElement
  <2>4. SumFunctionOnSet(h, U) = h[x] + SumFunctionOnSet(h, U \ {x})
    BY <2>3, SumRemove
  <2>5. /\ SumFunctionOnSet(h, U \ {x}) \in Int /\ SumFunctionOnSet(h, U \cap T) \in Int
        /\ h[x] \in Int /\ h[x] >= 0
    BY <2>3, SumInt
  <2>6. SumFunctionOnSet(h, U \cap T) <= SumFunctionOnSet(h, U \ {x})
    BY <2>1, <2>3
  <2> QED
    BY <2>4, <2>5, <2>6
<1>2. S \notin Bad
  BY <1>1
<1>3. S \cap T = T
  OBVIOUS
<1> QED
  BY <1>2, <1>3

\* Values that different arguments of another sum reach add up to no more.
LEMMA SumInjection ==
    ASSUME NEW S, IsFiniteSet(S), NEW A, IsFiniteSet(A), NEW f \in [S -> A],
           \A x, y \in S : f[x] = f[y] => x = y,
           NEW h, \A x \in S : h[x] \in Int,
           NEW k, \A a \in A : k[a] \in Nat,
           \A x \in S : h[x] <= k[f[x]]
    PROVE  SumFunctionOnSet(h, S) <= SumFunctionOnSet(k, A)
<1> DEFINE Im(T) == {f[x] : x \in T}
           Bad == {T \in SUBSET S : ~ (SumFunctionOnSet(h, T) <= SumFunctionOnSet(k, Im(T)))}
<1>1. ASSUME Bad # {} PROVE FALSE
  <2>1. PICK T \in Bad : \A x \in T : T \ {x} \notin Bad
    <3> HIDE DEF Bad
    <3>1. Bad \subseteq SUBSET S
      BY DEF Bad
    <3> QED
      BY <1>1, <3>1, MinimalSubset
  <2>2. T # {}
    <3>1. Im({}) = {}
      OBVIOUS
    <3> QED
      BY <3>1, SumEmpty
  <2>3. PICK x \in T : TRUE
    BY <2>2
  <2>4. IsFiniteSet(T) /\ IsFiniteSet(T \ {x})
    BY FS_Subset, FS_RemoveElement
  <2>5. Im(T) \subseteq A /\ f[x] \in Im(T) /\ Im(T \ {x}) = Im(T) \ {f[x]}
    BY <2>3
  <2>6. IsFiniteSet(Im(T)) /\ IsFiniteSet(Im(T \ {x}))
    BY <2>5, FS_Subset
  <2> HIDE DEF Im
  <2>7. SumFunctionOnSet(h, T) = h[x] + SumFunctionOnSet(h, T \ {x})
    BY <2>3, <2>4, SumRemove
  <2>8. SumFunctionOnSet(k, Im(T)) = k[f[x]] + SumFunctionOnSet(k, Im(T) \ {f[x]})
    <3>1. \A a \in Im(T) : k[a] \in Int
      BY <2>5
    <3> QED
      BY <3>1, <2>5, <2>6, SumRemove
  <2>9. SumFunctionOnSet(k, Im(T)) = k[f[x]] + SumFunctionOnSet(k, Im(T \ {x}))
    BY <2>5, <2>8, Zenon
  <2>10. SumFunctionOnSet(h, T \ {x}) \in Int /\ SumFunctionOnSet(k, Im(T \ {x})) \in Int
    BY <2>4, <2>5, <2>6, SumInt
  <2>11. SumFunctionOnSet(h, T \ {x}) <= SumFunctionOnSet(k, Im(T \ {x}))
    BY <2>1, <2>3
  <2>12. h[x] \in Int /\ k[f[x]] \in Int /\ h[x] <= k[f[x]]
    BY <2>3, <2>5
  <2>13. SumFunctionOnSet(h, T) <= SumFunctionOnSet(k, Im(T))
    BY <2>7, <2>9, <2>10, <2>11, <2>12
  <2> QED
    BY <2>13
<1>2. Im(S) \subseteq A
  OBVIOUS
<1>3. SumFunctionOnSet(k, Im(S)) <= SumFunctionOnSet(k, A)
  <2> HIDE DEF Im
  <2> QED
    BY <1>2, SumSubset
<1>4. SumFunctionOnSet(h, S) <= SumFunctionOnSet(k, Im(S))
  BY <1>1
<1>5. SumFunctionOnSet(h, S) \in Int /\ SumFunctionOnSet(k, Im(S)) \in Int /\ SumFunctionOnSet(k, A) \in Int
  <2>1. IsFiniteSet(Im(S))
    BY <1>2, FS_Subset
  <2> HIDE DEF Im
  <2> QED
    BY <1>2, <2>1, SumInt
<1> QED
  BY <1>3, <1>4, <1>5
=============================================================================

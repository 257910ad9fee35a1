--------------------------- MODULE WillAmountsProofs ---------------------------
(***************************************************************************)
(* Theorems about the division of a wallet, for all heirs, shares, coins,  *)
(* fees and thresholds.                                                    *)
(*                                                                         *)
(* The facts about sums are proved by a smallest counterexample: a finite  *)
(* set that has subsets for which a statement fails has a smallest one     *)
(* (SmallestSet), and taking an element out of that one gives a            *)
(* contradiction.  That the library's folds are defined at all (FoldExists,*)
(* FoldUnique) is proved in the same way, and so is what removing, adding, *)
(* comparing and joining does to a sum.                                    *)
(*                                                                         *)
(* On top of that, Normalized... says what normalize_perc gives away, with *)
(* its rounding, Listed... what prepare_lists does, and the invariant      *)
(* Basics ties the amounts that are listed to the round they were worked   *)
(* out in.  Settling describes the rounds in an ample wallet: the first    *)
(* one pays no fee, the second one the fee that the first found to be      *)
(* needed; both take every coin, pay every heir and leave no change.       *)
(***************************************************************************)
EXTENDS WillAmounts, FiniteSetTheorems, WellFoundedInduction, TLAPS

(* The function that the fold computes on the subsets of S.               *)
Adds(f, S, g) ==
  g = [T \in SUBSET S |-> IF T = {} THEN 0
                          ELSE f[CHOOSE x \in T : TRUE] + g[T \ {CHOOSE x \in T : TRUE}]]

(* A sum is what the fold of the community modules computes on the whole   *)
(* set.                                                                    *)
LEMMA SumIsFold ==
  ASSUME NEW f, NEW S
  PROVE  Sum(f, S) = (CHOOSE g : Adds(f, S, g))[S]
BY DEF Sum, SumFunctionOnSet, FoldFunctionOnSet, MapThenFoldSet, Adds

(* A set of numbers has a least one.                                       *)
LEMMA LeastNatural ==
  ASSUME NEW S, S \subseteq Nat, S # {}
  PROVE  \E m \in S : \A k \in S : m <= k
<1> DEFINE R == OpToRel(<, Nat)
<1>1. IsWellFoundedOn(R, Nat)
  BY NatLessThanWellFounded
<1>2. ASSUME NEW x \in Nat, NEW y \in Nat, ~(<<y, x>> \in R) PROVE x <= y
  <2>1. ~(y < x)
    BY <1>2 DEF OpToRel
  <2>2. QED
    BY <2>1
<1> HIDE DEF R
<1>3. PICK x \in S : \A y \in S : ~(<<y, x>> \in R)
  BY <1>1, WFMin
<1>4. \A y \in S : x <= y
  BY <1>2, <1>3
<1>5. QED
  BY <1>4

(* Of the subsets of a finite set, those with a property include a         *)
(* smallest one: this is the induction the proofs about sums use.          *)
LEMMA SmallestSet ==
  ASSUME NEW S, IsFiniteSet(S), NEW F, F \subseteq SUBSET S, F # {}
  PROVE  \E T \in F : \A U \in F : U \subseteq T => U = T
<1>1. IsWellFoundedOn(StrictSubsetOrdering(S), SUBSET S)
  BY FS_StrictSubsetOrderingWellFounded, FS_FiniteSubsetsOfFinite
<1>2. PICK T \in F : \A U \in F : ~(<<U, T>> \in StrictSubsetOrdering(S))
  BY <1>1, WFMin
<1>3. ASSUME NEW U \in F, U \subseteq T PROVE U = T
  BY <1>2, <1>3 DEF StrictSubsetOrdering
<1>4. QED
  BY <1>3

(* There is such a function: one that is right for the sets of up to n    *)
(* elements makes one that is right for n + 1.                            *)
LEMMA FoldExists ==
  ASSUME NEW f, NEW S, IsFiniteSet(S)
  PROVE  \E g : Adds(f, S, g)
<1> DEFINE Pick(T) == CHOOSE x \in T : TRUE
           Turn(g, T) == IF T = {} THEN 0 ELSE f[Pick(T)] + g[T \ {Pick(T)}]
           Good(n) == \E g : \A T \in SUBSET S : Cardinality(T) <= n => g[T] = Turn(g, T)
           Bad == {n \in Nat : ~Good(n)}
<1>0. ASSUME NEW T, T # {} PROVE Pick(T) \in T
  BY <1>0
<1> HIDE DEF Pick
<1>1. ASSUME NEW T \in SUBSET S
      PROVE  /\ IsFiniteSet(T) /\ Cardinality(T) \in Nat
             /\ T # {} => /\ Cardinality(T) > 0
                          /\ T \ {Pick(T)} \in SUBSET S
                          /\ Cardinality(T \ {Pick(T)}) = Cardinality(T) - 1
  <2>1. IsFiniteSet(T) /\ Cardinality(T) \in Nat
    BY FS_Subset, FS_CardinalityType
  <2>2. Cardinality(T) = 0 <=> T = {}
    BY <2>1, FS_EmptySet
  <2>3. ASSUME T # {} PROVE Cardinality(T \ {Pick(T)}) = Cardinality(T) - 1
    BY <1>0, <2>1, <2>3, FS_RemoveElement
  <2>4. QED
    BY <2>1, <2>2, <2>3
<1>2. Good(0)
  <2> DEFINE g == [T \in SUBSET S |-> 0]
  <2>1. ASSUME NEW T \in SUBSET S, Cardinality(T) <= 0 PROVE g[T] = Turn(g, T)
    <3>1. Cardinality(T) \in Nat /\ (T # {} => Cardinality(T) > 0)
      BY <1>1
    <3>2. T = {}
      BY <2>1, <3>1
    <3>3. QED
      BY <3>2
  <2>2. QED
    BY <2>1
<1>3. ASSUME NEW n \in Nat, Good(n) PROVE Good(n + 1)
  <2>1. PICK g : \A T \in SUBSET S : Cardinality(T) <= n => g[T] = Turn(g, T)
    BY <1>3
  <2> DEFINE h == [T \in SUBSET S |-> Turn(g, T)]
  <2>2. ASSUME NEW T \in SUBSET S, Cardinality(T) <= n + 1 PROVE h[T] = Turn(h, T)
    <3>1. CASE T = {}
      BY <3>1
    <3>2. CASE T # {}
      <4> DEFINE R == T \ {Pick(T)}
      <4>1. R \in SUBSET S /\ Cardinality(R) <= n
        <5>1. Cardinality(T) \in Nat /\ R \in SUBSET S /\ Cardinality(R) = Cardinality(T) - 1
          BY <1>1, <3>2
        <5>2. QED
          BY <2>2, <5>1
      <4>2. h[R] = Turn(g, R) /\ g[R] = Turn(g, R)
        BY <2>1, <4>1
      <4>3. h[T] = f[Pick(T)] + g[R]
        BY <3>2
      <4>4. QED
        BY <3>2, <4>2, <4>3
    <3>3. QED
      BY <3>1, <3>2
  <2>3. QED
    BY <2>2
<1> HIDE DEF Good
<1>4. \A n \in Nat : Good(n)
  <2>1. SUFFICES ASSUME Bad # {} PROVE FALSE
    OBVIOUS
  <2>2. PICK m \in Bad : \A k \in Bad : m <= k
    BY <2>1, LeastNatural
  <2>3. m # 0
    BY <1>2
  <2>4. m - 1 \in Nat /\ Good(m - 1)
    BY <2>2, <2>3
  <2>5. QED
    BY <1>3, <2>4
<1>5. Good(Cardinality(S))
  BY <1>4, FS_CardinalityType
<1>6. PICK g : \A T \in SUBSET S : g[T] = Turn(g, T)
  BY <1>5, FS_Subset DEF Good
<1> DEFINE h == [T \in SUBSET S |-> g[T]]
<1>7. ASSUME NEW T \in SUBSET S PROVE h[T] = Turn(h, T)
  <2>1. T \ {Pick(T)} \in SUBSET S
    OBVIOUS
  <2>2. QED
    BY <1>6, <2>1
<1>8. Adds(f, S, h)
  BY <1>7 DEF Adds, Pick
<1>9. QED
  BY <1>8

(* Two such functions agree where the sets and the amounts do.            *)
LEMMA FoldUnique ==
  ASSUME NEW e, NEW f, NEW S, NEW T, IsFiniteSet(S), T \subseteq S,
         NEW g, Adds(e, S, g), NEW h, Adds(f, T, h), \A x \in T : e[x] = f[x]
  PROVE  g[T] = h[T]
<1> DEFINE Pick(U) == CHOOSE x \in U : TRUE
           Bad == {U \in SUBSET T : g[U] # h[U]}
<1>1. ASSUME NEW U \in SUBSET T, U # {}
      PROVE  /\ Pick(U) \in U
             /\ g[U] = e[Pick(U)] + g[U \ {Pick(U)}]
             /\ h[U] = f[Pick(U)] + h[U \ {Pick(U)}]
  <2>1. U \in SUBSET S
    OBVIOUS
  <2>2. QED
    BY <1>1, <2>1 DEF Adds
<1>2. g[{}] = 0 /\ h[{}] = 0
  BY DEF Adds
<1> HIDE DEF Pick
<1>3. SUFFICES ASSUME Bad # {} PROVE FALSE
  OBVIOUS
<1>4. PICK U \in Bad : \A V \in Bad : V \subseteq U => V = U
  <2>1. Bad \subseteq SUBSET S
    OBVIOUS
  <2> HIDE DEF Bad
  <2>2. QED
    BY <1>3, <2>1, SmallestSet
<1>5. U # {}
  BY <1>2
<1> DEFINE R == U \ {Pick(U)}
<1>6. Pick(U) \in U /\ R \in SUBSET T /\ g[R] = h[R]
  BY <1>1, <1>4, <1>5
<1>7. e[Pick(U)] = f[Pick(U)]
  BY <1>6
<1>8. QED
  BY <1>1, <1>5, <1>6, <1>7

(* What the chosen function is.                                           *)
LEMMA SumBy ==
  ASSUME NEW f, NEW S, IsFiniteSet(S)
  PROVE  \E g : Adds(f, S, g) /\ \A T \in SUBSET S : Sum(f, T) = g[T]
<1> DEFINE Fold(T) == CHOOSE g : Adds(f, T, g)
<1>1. ASSUME NEW T \in SUBSET S PROVE Adds(f, T, Fold(T)) /\ Sum(f, T) = Fold(T)[T]
  BY FoldExists, FS_Subset, SumIsFold
<1> HIDE DEF Fold
<1>2. ASSUME NEW T \in SUBSET S PROVE Sum(f, T) = Fold(S)[T]
  BY <1>1, FoldUnique
<1>3. QED
  BY <1>1, <1>2

(* The amounts may be told by another function that agrees on the set.    *)
LEMMA SumAgrees ==
  ASSUME NEW e, NEW f, NEW S, IsFiniteSet(S), \A x \in S : e[x] = f[x]
  PROVE  Sum(e, S) = Sum(f, S)
<1>1. PICK g : Adds(e, S, g) /\ \A T \in SUBSET S : Sum(e, T) = g[T]
  BY SumBy
<1>2. PICK h : Adds(f, S, h) /\ \A T \in SUBSET S : Sum(f, T) = h[T]
  BY SumBy
<1>3. QED
  BY <1>1, <1>2, FoldUnique

(* Nothing adds up to nothing.                                             *)
LEMMA SumOfNone ==
  ASSUME NEW f
  PROVE  Sum(f, {}) = 0
<1>1. PICK g : Adds(f, {}, g) /\ \A T \in SUBSET {} : Sum(f, T) = g[T]
  BY SumBy, FS_EmptySet
<1>2. QED
  BY <1>1 DEF Adds

(* Integers add up to an integer.                                          *)
LEMMA SumType ==
  ASSUME NEW f, NEW S, IsFiniteSet(S), \A x \in S : f[x] \in Int
  PROVE  Sum(f, S) \in Int
<1> DEFINE Bad == {T \in SUBSET S : Sum(f, T) \notin Int}
<1>1. PICK g : Adds(f, S, g) /\ \A T \in SUBSET S : Sum(f, T) = g[T]
  BY SumBy
<1>2. SUFFICES ASSUME Bad # {} PROVE FALSE
  OBVIOUS
<1>3. PICK T \in Bad : \A U \in Bad : U \subseteq T => U = T
  <2>1. Bad \subseteq SUBSET S
    OBVIOUS
  <2> HIDE DEF Bad
  <2>2. QED
    BY <1>2, <2>1, SmallestSet
<1>4. T # {}
  BY SumOfNone
<1>5. PICK x \in T : g[T] = f[x] + g[T \ {x}]
  BY <1>1, <1>4 DEF Adds
<1>6. Sum(f, T \ {x}) \in Int
  BY <1>3
<1>7. QED
  BY <1>1, <1>5, <1>6

(* The order in which the amounts are added makes no difference.          *)
LEMMA SumRemove ==
  ASSUME NEW f, NEW S, IsFiniteSet(S), \A x \in S : f[x] \in Int, NEW y \in S
  PROVE  Sum(f, S) = f[y] + Sum(f, S \ {y})
<1> DEFINE Bad == {T \in SUBSET S : \E x \in T : Sum(f, T) # f[x] + Sum(f, T \ {x})}
<1>1. PICK g : Adds(f, S, g) /\ \A T \in SUBSET S : Sum(f, T) = g[T]
  BY SumBy
<1>2. SUFFICES ASSUME Bad # {} PROVE FALSE
  OBVIOUS
<1>3. PICK T \in Bad : \A U \in Bad : U \subseteq T => U = T
  <2>1. Bad \subseteq SUBSET S
    OBVIOUS
  <2> HIDE DEF Bad
  <2>2. QED
    BY <1>2, <2>1, SmallestSet
<1>4. PICK x \in T : Sum(f, T) # f[x] + Sum(f, T \ {x})
  OBVIOUS
<1>5. PICK z \in T : g[T] = f[z] + g[T \ {z}]
  BY <1>1 DEF Adds
<1>6. Sum(f, T) = f[z] + Sum(f, T \ {z})
  BY <1>1, <1>5
<1>7. x # z
  BY <1>4, <1>6
<1>8. Sum(f, T \ {z}) = f[x] + Sum(f, (T \ {z}) \ {x})
  <2>1. T \ {z} \notin Bad /\ T \ {z} \in SUBSET S /\ x \in T \ {z}
    BY <1>3, <1>7
  <2>2. QED
    BY <2>1
<1>9. Sum(f, T \ {x}) = f[z] + Sum(f, (T \ {x}) \ {z})
  <2>1. T \ {x} \notin Bad /\ T \ {x} \in SUBSET S /\ z \in T \ {x}
    BY <1>3, <1>7
  <2>2. QED
    BY <2>1
<1>10. (T \ {z}) \ {x} = (T \ {x}) \ {z}
  OBVIOUS
<1>11. Sum(f, (T \ {x}) \ {z}) \in Int /\ f[x] \in Int /\ f[z] \in Int
  <2>1. IsFiniteSet((T \ {x}) \ {z}) /\ T \subseteq S
    BY FS_Subset
  <2>2. QED
    BY <2>1, SumType
<1>12. ASSUME NEW a \in Int, NEW b \in Int, NEW c \in Int PROVE a + (b + c) = b + (a + c)
  BY <1>12
<1>13. Sum(f, T \ {z}) = f[x] + Sum(f, (T \ {x}) \ {z})
  BY <1>8, <1>10
<1>14. f[z] + (f[x] + Sum(f, (T \ {x}) \ {z})) = f[x] + (f[z] + Sum(f, (T \ {x}) \ {z}))
  BY <1>11, <1>12
<1>15. QED
  BY <1>4, <1>6, <1>9, <1>13, <1>14, Zenon

(* One more element adds its value.                                        *)
LEMMA SumAdd ==
  ASSUME NEW f, NEW S, IsFiniteSet(S), NEW y, y \notin S,
         f[y] \in Int, \A x \in S : f[x] \in Int
  PROVE  Sum(f, S \cup {y}) = f[y] + Sum(f, S)
<1>1. IsFiniteSet(S \cup {y}) /\ (S \cup {y}) \ {y} = S
  BY FS_AddElement
<1>2. QED
  BY <1>1, SumRemove

(* What one adds up to.                                                    *)
LEMMA SumOfOne ==
  ASSUME NEW f, NEW x, f[x] \in Int
  PROVE  Sum(f, {x}) = f[x]
<1>1. Sum(f, {} \cup {x}) = f[x] + Sum(f, {})
  <2>1. IsFiniteSet({}) /\ x \notin {} /\ \A y \in {} : f[y] \in Int
    BY FS_EmptySet
  <2>2. QED
    BY <2>1, SumAdd
<1>2. {} \cup {x} = {x} /\ Sum(f, {}) = 0
  BY SumOfNone
<1>3. f[x] + 0 = f[x]
  OBVIOUS
<1>4. QED
  BY <1>1, <1>2, <1>3

(* Amounts that are related one by one are related in their sum.          *)
LEMMA SumCompare ==
  ASSUME NEW e, NEW f, NEW S, IsFiniteSet(S), NEW c \in Int, NEW d \in Int, NEW u \in Int,
         \A x \in S : e[x] \in Int /\ f[x] \in Int /\ d * e[x] + u <= c * f[x]
  PROVE  d * Sum(e, S) + u * Cardinality(S) <= c * Sum(f, S)
<1> DEFINE Holds(T) == d * Sum(e, T) + u * Cardinality(T) <= c * Sum(f, T)
           Bad == {T \in SUBSET S : ~Holds(T)}
<1>1. SUFFICES ASSUME Bad # {} PROVE FALSE
  <2>1. S \in SUBSET S
    OBVIOUS
  <2>2. QED
    BY <2>1
<1>2. PICK T \in Bad : \A U \in Bad : U \subseteq T => U = T
  <2>1. Bad \subseteq SUBSET S
    OBVIOUS
  <2> HIDE DEF Bad
  <2>2. QED
    BY <1>1, <2>1, SmallestSet
<1>3. ASSUME NEW U \in SUBSET S
      PROVE  IsFiniteSet(U) /\ Cardinality(U) \in Nat /\ Sum(e, U) \in Int /\ Sum(f, U) \in Int
  BY FS_Subset, FS_CardinalityType, SumType
<1>4. Holds({})
  <2>1. d * 0 + u * 0 <= c * 0
    OBVIOUS
  <2>2. QED
    BY <2>1, SumOfNone, FS_EmptySet
<1>5. PICK y \in T : TRUE
  BY <1>4
<1> DEFINE R == T \ {y}
<1>6. R \in SUBSET S /\ Holds(R)
  BY <1>2
<1>7. /\ Sum(e, T) = e[y] + Sum(e, R) /\ Sum(f, T) = f[y] + Sum(f, R)
      /\ Cardinality(T) = Cardinality(R) + 1
  <2>1. Sum(e, T) = e[y] + Sum(e, R)
    BY <1>3, SumRemove
  <2>2. Sum(f, T) = f[y] + Sum(f, R)
    BY <1>3, SumRemove
  <2>3. Cardinality(T) \in Nat /\ Cardinality(R) = Cardinality(T) - 1
    BY <1>3, FS_RemoveElement
  <2>4. QED
    BY <2>1, <2>2, <2>3
<1>8. ASSUME NEW a \in Int, NEW b \in Int, NEW s \in Int, NEW t \in Int, NEW n \in Int,
             d * a + u <= c * b, d * s + u * n <= c * t
      PROVE  d * (a + s) + u * (n + 1) <= c * (b + t)
  <2>1. d * (a + s) = d * a + d * s /\ u * (n + 1) = u * n + u /\ c * (b + t) = c * b + c * t
    OBVIOUS
  <2>2. QED
    BY <1>8, <2>1
<1>9. d * (e[y] + Sum(e, R)) + u * (Cardinality(R) + 1) <= c * (f[y] + Sum(f, R))
  <2>1. e[y] \in Int /\ f[y] \in Int /\ d * e[y] + u <= c * f[y]
    OBVIOUS
  <2>2. Sum(e, R) \in Int /\ Sum(f, R) \in Int /\ Cardinality(R) \in Int
    BY <1>3, <1>6
  <2>3. d * Sum(e, R) + u * Cardinality(R) <= c * Sum(f, R)
    BY <1>6
  <2> HIDE DEF R
  <2>4. QED
    BY <1>8, <2>1, <2>2, <2>3
<1>10. Holds(T)
  BY <1>7, <1>9
<1>11. QED
  BY <1>2, <1>10

(* Larger values have a larger sum.                                        *)
LEMMA SumAtMost ==
  ASSUME NEW e, NEW f, NEW S, IsFiniteSet(S),
         \A x \in S : e[x] \in Int /\ f[x] \in Int /\ e[x] <= f[x]
  PROVE  Sum(e, S) <= Sum(f, S)
<1>1. \A x \in S : e[x] \in Int /\ f[x] \in Int /\ 1 * e[x] + 0 <= 1 * f[x]
  OBVIOUS
<1>2. 1 * Sum(e, S) + 0 * Cardinality(S) <= 1 * Sum(f, S)
  <2>1. 1 \in Int /\ 0 \in Int
    OBVIOUS
  <2>2. QED
    BY <1>1, <2>1, SumCompare, Zenon
<1>3. Sum(e, S) \in Int /\ Sum(f, S) \in Int /\ Cardinality(S) \in Nat
  BY SumType, FS_CardinalityType
<1>4. QED
  BY <1>2, <1>3

(* Naturals add up to a natural.                                           *)
LEMMA SumIsNatural ==
  ASSUME NEW f, NEW S, IsFiniteSet(S), \A x \in S : f[x] \in Nat
  PROVE  Sum(f, S) \in Nat
<1> DEFINE none == [x \in S |-> 0]
<1>1. \A x \in S : none[x] \in Int /\ f[x] \in Int /\ 0 * none[x] + 0 <= 1 * f[x]
  OBVIOUS
<1>2. Sum(none, S) \in Int /\ Sum(f, S) \in Int /\ Cardinality(S) \in Nat
  BY <1>1, SumType, FS_CardinalityType
<1> HIDE DEF none
<1>3. 0 * Sum(none, S) + 0 * Cardinality(S) <= 1 * Sum(f, S)
  <2>1. 1 \in Int /\ 0 \in Int
    OBVIOUS
  <2>2. QED
    BY <1>1, <2>1, SumCompare, Zenon
<1>4. QED
  BY <1>2, <1>3

(* The sums over two disjoint sets add up.                                 *)
LEMMA SumUnion ==
  ASSUME NEW f, NEW S, IsFiniteSet(S), NEW T, IsFiniteSet(T), S \cap T = {},
         \A x \in S \cup T : f[x] \in Int
  PROVE  Sum(f, S \cup T) = Sum(f, S) + Sum(f, T)
<1> DEFINE Bad == {U \in SUBSET T : Sum(f, S \cup U) # Sum(f, S) + Sum(f, U)}
<1>1. SUFFICES ASSUME Bad # {} PROVE FALSE
  <2>1. T \in SUBSET T
    OBVIOUS
  <2>2. QED
    BY <2>1
<1>2. PICK U \in Bad : \A V \in Bad : V \subseteq U => V = U
  <2>1. Bad \subseteq SUBSET T
    OBVIOUS
  <2> HIDE DEF Bad
  <2>2. QED
    BY <1>1, <2>1, SmallestSet
<1>3. ASSUME NEW V \in SUBSET T
      PROVE  IsFiniteSet(V) /\ Sum(f, V) \in Int /\ IsFiniteSet(S \cup V) /\ Sum(f, S \cup V) \in Int
  <2>1. IsFiniteSet(V) /\ IsFiniteSet(S \cup V)
    BY FS_Subset, FS_Union
  <2>2. QED
    BY <2>1, SumType
<1>4. Sum(f, S) \in Int
  BY SumType
<1>5. U # {}
  <2>1. Sum(f, S \cup {}) = Sum(f, S) + 0
    BY <1>4
  <2>2. QED
    BY <2>1, SumOfNone
<1>6. PICK y \in U : TRUE
  BY <1>5
<1> DEFINE R == U \ {y}
<1>7. R \in SUBSET T /\ Sum(f, S \cup R) = Sum(f, S) + Sum(f, R)
  BY <1>2
<1>8. Sum(f, U) = f[y] + Sum(f, R)
  BY <1>3, SumRemove
<1>9. (S \cup U) \ {y} = S \cup R
  OBVIOUS
<1>10. Sum(f, S \cup U) = f[y] + Sum(f, S \cup R)
  <2>1. y \in S \cup U /\ IsFiniteSet(S \cup U) /\ \A x \in S \cup U : f[x] \in Int
    BY <1>3
  <2>2. QED
    BY <1>9, <2>1, SumRemove
<1>11. f[y] \in Int /\ Sum(f, R) \in Int
  BY <1>3
<1> HIDE DEF R
<1>12. Sum(f, S \cup U) = Sum(f, S) + Sum(f, U)
  BY <1>4, <1>7, <1>8, <1>10, <1>11
<1>13. QED
  BY <1>12

-----------------------------------------------------------------------------
(* The division.                                                           *)

(* Arithmetic with products and quotients, in the small steps the provers  *)
(* can do.                                                                 *)
LEMMA Distributes ==
  ASSUME NEW a \in Int, NEW b \in Int, NEW c \in Int
  PROVE  a * (b + c) = a * b + a * c
OBVIOUS

(* A common factor can be taken out of a comparison.                       *)
LEMMA Cancels ==
  ASSUME NEW a \in Int, NEW b \in Int, NEW c \in Nat \ {0}
  PROVE  /\ c * a <= c * b => a <= b
         /\ c * a < c * b => a < b
OBVIOUS

(* A quotient is the largest number whose product is not too large.        *)
LEMMA QuotientOf ==
  ASSUME NEW n \in Nat, NEW r \in Nat \ {0}
  PROVE  n \div r \in Nat /\ r * (n \div r) <= n /\ n < r * (n \div r) + r
OBVIOUS

(* Products of naturals are natural.                                       *)
LEMMA ProductType ==
  ASSUME NEW a \in Nat, NEW b \in Nat
  PROVE  a * b \in Nat
OBVIOUS

(* The thresholds and bounds are numbers.                                  *)
LEMMA DustType == Dust \in Nat /\ FeeRate \in Nat /\ MaxRounds \in Nat /\ MaxRounds > 1
BY AmountsAssumption

(* normalize_perc lists an amount or nothing.                              *)
LEMMA PayableType ==
  ASSUME NEW a \in Int
  PROVE  /\ Payable(a) \in Nat
         /\ a >= 0 => Payable(a) <= a
         /\ Payable(a) > 0 => Payable(a) = a
BY DustType DEF Payable

(* A share is rounded down, one unit more or less than the exact quotient  *)
(* if the division is not precise enough for it.                           *)
LEMMA ProportionsAre ==
  ASSUME NEW total \in Nat, NEW relative \in Nat \ {0}, NEW amount \in Nat,
         NEW v \in Proportions(total, relative, amount)
  PROVE  /\ v \in Nat
         /\ relative * Precision \in Nat \ {0}
         /\ total * (Precision + 1) \in Nat /\ total * (Precision - 1) \in Nat
         /\ (relative * Precision) * v <= (total * (Precision + 1)) * amount
         /\ (total * (Precision - 1)) * amount + 1
              <= (relative * Precision) * v + relative * Precision
<1> DEFINE r == relative * Precision
           low == total * amount * (Precision - 1)
           high == total * amount * (Precision + 1)
<1>1. Precision \in Nat \ {0} /\ Precision - 1 \in Nat /\ Precision + 1 \in Nat
  BY AmountsAssumption
<1>2. r \in Nat \ {0}
  BY <1>1
<1>3. total * amount \in Nat
  BY ProductType
<1>4. low \in Nat /\ high \in Nat /\ total * (Precision + 1) \in Nat /\ total * (Precision - 1) \in Nat
  BY <1>1, <1>3, ProductType
<1>5. low = (total * (Precision - 1)) * amount /\ high = (total * (Precision + 1)) * amount
  BY <1>1
<1>6. v \in low \div r .. high \div r
  BY DEF Proportions
<1> HIDE DEF r, low, high
<1>7. low \div r \in Nat /\ low < r * (low \div r) + r
  BY <1>2, <1>4, QuotientOf
<1>8. high \div r \in Nat /\ r * (high \div r) <= high
  BY <1>2, <1>4, QuotientOf
<1>9. v \in Nat /\ low \div r <= v /\ v <= high \div r
  BY <1>6, <1>7, <1>8
<1>10. ASSUME NEW a \in Nat, NEW b \in Nat, a <= b
       PROVE  r * a <= r * b /\ r * a \in Nat /\ r * b \in Nat
  BY <1>2, <1>10, ProductType
<1>11. r * v <= r * (high \div r) /\ r * (low \div r) <= r * v /\ r * v \in Nat
       /\ r * (high \div r) \in Nat /\ r * (low \div r) \in Nat
  BY <1>7, <1>8, <1>9, <1>10
<1>12. r * v <= high /\ low + 1 <= r * v + r
  BY <1>2, <1>4, <1>7, <1>8, <1>11
<1>13. QED
  BY <1>2, <1>4, <1>5, <1>9, <1>12 DEF r

(* What the shares of a division are.                                      *)
LEMMA QuotientsAre ==
  ASSUME NEW S, NEW total, NEW relative, NEW base, NEW q
  PROVE  q \in Quotients(S, total, relative, base)
           <=> /\ DOMAIN q = S /\ q = [h \in S |-> q[h]]
               /\ \A h \in S : q[h] \in Proportions(total, relative, base[h])
<1> DEFINE share == [h \in S |-> Proportions(total, relative, base[h])]
           All == UNION {share[h] : h \in S}
<1>1. Quotients(S, total, relative, base) = {p \in [S -> All] : \A h \in S : p[h] \in share[h]}
  BY DEF Quotients
<1>2. \A h \in S : share[h] = Proportions(total, relative, base[h])
  OBVIOUS
<1>3. ASSUME q = [h \in S |-> q[h]], \A h \in S : q[h] \in share[h] PROVE q \in [S -> All]
  <2>1. \A h \in S : q[h] \in All
    BY <1>3
  <2> HIDE DEF All
  <2>2. QED
    BY <1>3, <2>1
<1> HIDE DEF All, share
<1>4. q \in [S -> All] => DOMAIN q = S /\ q = [h \in S |-> q[h]]
  OBVIOUS
<1>5. QED
  BY <1>1, <1>2, <1>3, <1>4

(* What normalize_perc lists for an heir is a share, or nothing.           *)
LEMMA ShareIs ==
  ASSUME NEW S, NEW total, NEW relative, NEW base,
         NEW N \in Normalized(S, total, relative, base), NEW h \in S
  PROVE  \E v \in Proportions(total, relative, base[h]) : N[h] = Payable(v)
<1>1. PICK q \in Quotients(S, total, relative, base) : N = [x \in S |-> Payable(q[x])]
  BY DEF Normalized
<1>2. q[h] \in Proportions(total, relative, base[h]) /\ N[h] = Payable(q[h])
  BY <1>1, QuotientsAre
<1>3. QED
  BY <1>2

(* It is at most the heir's part of the total, and hardly less unless that *)
(* is dust.                                                                *)
LEMMA NormalizedIs ==
  ASSUME NEW S, NEW total \in Nat, NEW relative \in Nat \ {0}, NEW base,
         \A h \in S : base[h] \in Nat,
         NEW N \in Normalized(S, total, relative, base)
  PROVE  /\ N \in [S -> Nat]
         /\ \A h \in S :
              (relative * Precision) * N[h] <= (total * (Precision + 1)) * base[h]
         /\ \A h \in S : N[h] > 0 =>
              (total * (Precision - 1)) * base[h] + (1 - relative * Precision)
                <= (relative * Precision) * N[h]
<1> DEFINE r == relative * Precision
           high == total * (Precision + 1)
           low == total * (Precision - 1)
<1>1. ASSUME NEW h \in S
      PROVE  /\ N[h] \in Nat /\ r * N[h] <= high * base[h]
             /\ N[h] > 0 => low * base[h] + (1 - r) <= r * N[h]
  <2>1. PICK v \in Proportions(total, relative, base[h]) : N[h] = Payable(v)
    BY ShareIs
  <2>2. /\ v \in Nat /\ r \in Nat \ {0} /\ high \in Nat /\ low \in Nat
        /\ r * v <= high * base[h]
        /\ low * base[h] + 1 <= r * v + r
    BY <2>1, ProportionsAre
  <2> HIDE DEF r, high, low
  <2>3. Payable(v) \in Nat /\ Payable(v) <= v /\ (Payable(v) > 0 => Payable(v) = v)
    BY <2>2, PayableType
  <2>4. high * base[h] \in Nat /\ low * base[h] \in Nat /\ r * v \in Nat
    BY <2>1, <2>2, ProductType
  <2>5. CASE Payable(v) = 0
    BY <2>1, <2>2, <2>4, <2>5
  <2>6. CASE Payable(v) = v
    BY <2>1, <2>2, <2>4, <2>6
  <2>7. QED
    BY <2>3, <2>5, <2>6
<1>2. N \in [S -> Nat]
  <2>1. N = [h \in S |-> N[h]]
    BY DEF Normalized
  <2>2. QED
    BY <1>1, <2>1
<1>3. QED
  BY <1>1, <1>2

(* The division is precise enough to tell a total from what it is related  *)
(* to: no share is above its amount if the total is less, or below it if   *)
(* the total is more.                                                      *)
LEMMA ProportionsCompare ==
  ASSUME NEW total \in Nat, total < Precision, NEW relative \in Nat \ {0}, NEW amount \in Nat,
         NEW v \in Proportions(total, relative, amount)
  PROVE  /\ total < relative => v <= amount
         /\ total > relative => v >= amount
<1>1. Precision \in Nat \ {0}
  BY AmountsAssumption
<1> DEFINE r == relative * Precision
           high == total * (Precision + 1)
           low == total * (Precision - 1)
<1>2. /\ v \in Nat /\ r \in Nat \ {0} /\ high \in Nat /\ low \in Nat
      /\ r * v <= high * amount
      /\ low * amount + 1 <= r * v + r
  BY ProportionsAre
<1>3. high = total * Precision + total /\ low = total * Precision - total
  BY <1>1
<1>4. ASSUME total < relative PROVE v <= amount
  <2>1. (total + 1) * Precision <= relative * Precision
    BY <1>1, <1>4
  <2>2. (total + 1) * Precision = total * Precision + Precision
    BY <1>1
  <2>3. total * Precision \in Nat /\ relative * Precision \in Nat
    BY <1>1, ProductType
  <2>4. high <= r
    BY <1>1, <1>3, <2>1, <2>2, <2>3
  <2> HIDE DEF r, high, low
  <2>5. high * amount <= r * amount
    BY <1>2, <2>4
  <2>6. r * v <= r * amount
    <3>1. high * amount \in Nat /\ r * amount \in Nat /\ r * v \in Nat
      BY <1>2, ProductType
    <3>2. QED
      BY <1>2, <2>5, <3>1
  <2>7. QED
    BY <1>2, <2>6, Cancels
<1>5. ASSUME total > relative PROVE v >= amount
  <2>1. (relative + 1) * Precision <= total * Precision
    BY <1>1, <1>5
  <2>2. (relative + 1) * Precision = relative * Precision + Precision
    BY <1>1
  <2>3. total * Precision \in Nat /\ relative * Precision \in Nat
    BY <1>1, ProductType
  <2>4. r <= low
    BY <1>1, <1>3, <2>1, <2>2, <2>3
  <2> HIDE DEF r, high, low
  <2>5. r * amount <= low * amount
    BY <1>2, <2>4
  <2>6. r * amount < r * (v + 1)
    <3>1. low * amount \in Nat /\ r * amount \in Nat /\ r * v \in Nat
      BY <1>2, ProductType
    <3>2. r * (v + 1) = r * v + r
      BY <1>2
    <3>3. QED
      BY <1>2, <2>5, <3>1, <3>2
  <2>7. amount < v + 1
    BY <1>2, <2>6, Cancels
  <2>8. QED
    BY <1>2, <2>7
<1>6. QED
  BY <1>4, <1>5

(* Shares of a total never add up to more than the total.                 *)
LEMMA NormalizedFits ==
  ASSUME NEW S, IsFiniteSet(S), NEW total \in Nat, total < Precision,
         NEW relative \in Nat \ {0}, NEW base,
         \A h \in S : base[h] \in Nat, Sum(base, S) <= relative,
         NEW N \in Normalized(S, total, relative, base)
  PROVE  Sum(N, S) <= total
<1> DEFINE r == relative * Precision
           high == total * (Precision + 1)
<1>0. Precision \in Nat \ {0} /\ Precision + 1 \in Nat /\ r \in Nat \ {0} /\ high \in Nat
  <2>1. Precision \in Nat \ {0}
    BY AmountsAssumption
  <2>2. QED
    BY <2>1
<1>1. N \in [S -> Nat] /\ \A h \in S : r * N[h] <= high * base[h]
  BY NormalizedIs
<1> HIDE DEF r, high
<1>2. Sum(N, S) \in Nat /\ Sum(base, S) \in Nat /\ Cardinality(S) \in Nat
  BY <1>1, SumIsNatural, FS_CardinalityType
<1>3. r * Sum(N, S) + 0 * Cardinality(S) <= high * Sum(base, S)
  <2>1. \A h \in S : N[h] \in Int /\ base[h] \in Int /\ r * N[h] + 0 <= high * base[h]
    BY <1>0, <1>1
  <2>2. r \in Int /\ high \in Int /\ 0 \in Int
    BY <1>0
  <2>3. QED
    BY <2>1, <2>2, SumCompare, Zenon
<1> DEFINE s == Sum(N, S)
           b == Sum(base, S)
<1>4. s \in Nat /\ b \in Nat /\ b <= relative /\ r * s <= high * b
  BY <1>0, <1>2, <1>3
<1> HIDE DEF s, b
<1>5. high * b <= high * relative
  BY <1>0, <1>4
<1>6. relative * (Precision * s) <= relative * high
  <2>1. r * s = relative * (Precision * s)
    BY <1>0, <1>4 DEF r
  <2>2. high * relative = relative * high
    BY <1>0
  <2>3. high * b \in Nat /\ high * relative \in Nat /\ r * s \in Nat
    BY <1>0, <1>4, ProductType
  <2>4. QED
    BY <1>4, <1>5, <2>1, <2>2, <2>3
<1>7. Precision * s <= high
  <2>1. Precision * s \in Nat
    BY <1>0, <1>4, ProductType
  <2>2. QED
    BY <1>0, <1>6, <2>1, Cancels
<1>8. Precision * s < Precision * (total + 1)
  <2>1. high = Precision * total + total /\ Precision * (total + 1) = Precision * total + Precision
    BY <1>0 DEF high
  <2>2. Precision * total \in Nat /\ Precision * s \in Nat
    BY <1>0, <1>4, ProductType
  <2>3. QED
    BY <1>0, <1>7, <2>1, <2>2
<1>9. s < total + 1
  BY <1>0, <1>4, <1>8, Cancels
<1>10. QED
  BY <1>4, <1>9 DEF s

(* If they add up to the whole and none is dust, what is left is at most  *)
(* one unit for each.                                                     *)
LEMMA NormalizedLeaves ==
  ASSUME NEW S, IsFiniteSet(S), NEW total \in Nat, total < Precision,
         NEW relative \in Nat \ {0}, NEW base,
         \A h \in S : base[h] \in Nat, Sum(base, S) = relative,
         NEW N \in Normalized(S, total, relative, base), \A h \in S : N[h] > 0
  PROVE  total - Sum(N, S) <= Cardinality(S)
<1> DEFINE r == relative * Precision
           low == total * (Precision - 1)
<1>0. /\ Precision \in Nat \ {0} /\ Precision - 1 \in Nat /\ r \in Nat \ {0} /\ low \in Nat
      /\ low = Precision * total - total
  <2>1. Precision \in Nat \ {0} /\ Precision - 1 \in Nat
    BY AmountsAssumption
  <2>2. r \in Nat \ {0} /\ low \in Nat
    BY <2>1, ProductType
  <2>3. low = Precision * total - total
    BY <2>1
  <2>4. QED
    BY <2>1, <2>2, <2>3
<1>1. N \in [S -> Nat] /\ \A h \in S : low * base[h] + (1 - r) <= r * N[h]
  BY NormalizedIs
<1> HIDE DEF r, low
<1>2. Sum(N, S) \in Nat /\ Cardinality(S) \in Nat
  BY <1>1, SumIsNatural, FS_CardinalityType
<1>3. low * Sum(base, S) + (1 - r) * Cardinality(S) <= r * Sum(N, S)
  <2>1. \A h \in S :
          base[h] \in Int /\ N[h] \in Int /\ low * base[h] + (1 - r) <= r * N[h]
    BY <1>1
  <2>2. r \in Int /\ low \in Int /\ 1 - r \in Int
    BY <1>0
  <2>3. QED
    BY <2>1, <2>2, SumCompare, Zenon
<1> DEFINE s == Sum(N, S)
           n == Cardinality(S)
<1>4. s \in Nat /\ n \in Nat /\ low * relative + (1 - r) * n <= r * s
  BY <1>2, <1>3
<1> HIDE DEF s, n
<1>5. relative * low <= relative * (Precision * (s + n))
  <2>1. (1 - r) * n = n - r * n
    BY <1>0, <1>4
  <2>2. relative * (Precision * (s + n)) = r * (s + n)
    BY <1>0, <1>4 DEF r
  <2>3. r * (s + n) = r * s + r * n
    BY <1>0, <1>4
  <2>4. r * s \in Nat /\ r * n \in Nat /\ low * relative \in Nat
    BY <1>0, <1>4, ProductType
  <2>5. relative * low = low * relative
    BY <1>0
  <2>6. low * relative <= r * s + r * n
    BY <1>4, <2>1, <2>4
  <2>7. QED
    BY <2>2, <2>3, <2>5, <2>6
<1>6. Precision * (s + n) \in Nat
  BY <1>0, <1>4, ProductType
<1>7. low <= Precision * (s + n)
  BY <1>0, <1>5, <1>6, Cancels
<1>8. Precision * total < Precision * (s + n + 1)
  <2>1. Precision * (s + n + 1) = Precision * (s + n) + Precision
    BY <1>0, <1>4
  <2>2. Precision * total \in Nat
    BY <1>0, ProductType
  <2>3. QED
    BY <1>0, <1>6, <1>7, <2>1, <2>2
<1>9. total < s + n + 1
  <2>1. s + n + 1 \in Int
    BY <1>4
  <2>2. QED
    BY <1>0, <1>8, <2>1, Cancels
<1>10. QED
  BY <1>4, <1>9 DEF s, n

-----------------------------------------------------------------------------
(* What is divided.                                                        *)

Inputs ==
  /\ heirs \in UNION {[S -> Shares] : S \in SUBSET Names}
  /\ coins \in Wallets /\ fees \in Choices

(* The heirs of an input have amounts to divide, and are finitely many.    *)
LEMMA HeirsType ==
  ASSUME Inputs
  PROVE  /\ IsFiniteSet(DOMAIN heirs)
         /\ \A h \in DOMAIN heirs : heirs[h].kind \in {"fixed", "percent"} /\ Amount[h] \in Nat \ {0}
         /\ DOMAIN heirs = Fixed \cup Percent /\ Fixed \cap Percent = {}
         /\ IsFiniteSet(Fixed) /\ IsFiniteSet(Percent)
<1>1. PICK S \in SUBSET Names : heirs \in [S -> Shares]
  BY DEF Inputs
<1>2. IsFiniteSet(S)
  BY AmountsAssumption, FS_Subset
<1>3. DOMAIN heirs = S /\ \A h \in S : heirs[h] \in [kind : {"fixed", "percent"}, amount : Nat \ {0}]
  BY <1>1, AmountsAssumption
<1>4. Fixed \in SUBSET S /\ Percent \in SUBSET S
  BY <1>3 DEF Fixed, Percent
<1>5. IsFiniteSet(Fixed) /\ IsFiniteSet(Percent)
  BY <1>2, <1>4, FS_Subset
<1>6. \A h \in S : heirs[h].kind \in {"fixed", "percent"} /\ Amount[h] \in Nat \ {0}
  BY <1>3 DEF Amount
<1>7. DOMAIN heirs = Fixed \cup Percent /\ Fixed \cap Percent = {}
  BY DEF Fixed, Percent
<1>8. QED
  BY <1>2, <1>3, <1>5, <1>6, <1>7

(* The coins of an input are a sequence of positive amounts.               *)
LEMMA CoinsType ==
  ASSUME Inputs
  PROVE  /\ coins \in Seq(Nat \ {0}) /\ fees \in Seq(Nat)
         /\ Len(coins) \in Nat /\ DOMAIN coins = 1 .. Len(coins)
         /\ Len(fees) \in Nat /\ DOMAIN fees = 1 .. Len(fees)
         /\ \A n \in DOMAIN coins : coins[n] \in Nat \ {0}
         /\ \A n \in DOMAIN fees : fees[n] \in Nat
         /\ Balance \in Nat /\ \A n \in 0 .. Len(coins) : Value(n) \in Nat
         /\ Balance < Precision
<1>1. coins \in Seq(Nat \ {0}) /\ fees \in Seq(Nat)
  BY AmountsAssumption DEF Inputs
<1>2. /\ Len(coins) \in Nat /\ DOMAIN coins = 1 .. Len(coins)
      /\ Len(fees) \in Nat /\ DOMAIN fees = 1 .. Len(fees)
      /\ \A n \in DOMAIN coins : coins[n] \in Nat \ {0}
      /\ \A n \in DOMAIN fees : fees[n] \in Nat
  BY <1>1
<1>3. ASSUME NEW n \in 0 .. Len(coins) PROVE Value(n) \in Nat
  <2>1. IsFiniteSet(1 .. n)
    BY <1>2, FS_Interval
  <2>2. \A x \in 1 .. n : coins[x] \in Nat
    BY <1>2
  <2>3. QED
    BY <2>1, <2>2, SumIsNatural DEF Value
<1>4. Balance = Value(Len(coins))
  BY <1>2 DEF Balance, Value
<1>5. Balance < Precision
  BY AmountsAssumption DEF Inputs, Balance
<1>6. QED
  BY <1>1, <1>2, <1>3, <1>4, <1>5

(* What the shares of a set of heirs add up to.                           *)
LEMMA AmountsAddUp ==
  ASSUME Inputs, NEW S \in SUBSET DOMAIN heirs
  PROVE  /\ IsFiniteSet(S) /\ Sum(Amount, S) \in Nat
         /\ S # {} => Sum(Amount, S) \in Nat \ {0}
         /\ \A T \in SUBSET S : Sum(Amount, T) <= Sum(Amount, S)
<1>1. IsFiniteSet(S) /\ \A h \in S : Amount[h] \in Nat \ {0}
  BY HeirsType, FS_Subset
<1>2. Sum(Amount, S) \in Nat
  BY <1>1, SumIsNatural
<1>3. ASSUME NEW T \in SUBSET S PROVE Sum(Amount, T) <= Sum(Amount, S)
  <2>1. IsFiniteSet(T) /\ IsFiniteSet(S \ T)
    BY <1>1, FS_Subset
  <2>2. Sum(Amount, T) \in Nat /\ Sum(Amount, S \ T) \in Nat
    BY <1>1, <2>1, SumIsNatural
  <2>3. T \cup (S \ T) = S /\ T \cap (S \ T) = {}
    OBVIOUS
  <2>4. \A h \in T \cup (S \ T) : Amount[h] \in Int
    BY <1>1, <2>3
  <2>5. Sum(Amount, T \cup (S \ T)) = Sum(Amount, T) + Sum(Amount, S \ T)
    BY <2>1, <2>3, <2>4, SumUnion
  <2>6. Sum(Amount, S) = Sum(Amount, T) + Sum(Amount, S \ T)
    BY <2>3, <2>5, Zenon
  <2>7. QED
    BY <2>2, <2>6
<1>4. ASSUME S # {} PROVE Sum(Amount, S) # 0
  <2>1. PICK h \in S : TRUE
    BY <1>4
  <2>2. Sum(Amount, S) = Amount[h] + Sum(Amount, S \ {h})
    BY <1>1, SumRemove
  <2>3. Sum(Amount, S \ {h}) \in Nat
    BY <1>1, FS_Subset, SumIsNatural
  <2>4. QED
    BY <1>1, <2>2, <2>3
<1>5. QED
  BY <1>1, <1>2, <1>3, <1>4

(* If everybody gets nothing, all is nothing.                              *)
LEMMA SumOfZeros ==
  ASSUME NEW f, NEW S, IsFiniteSet(S), \A x \in S : f[x] = 0
  PROVE  Sum(f, S) = 0
<1>1. \A x \in S : f[x] \in Int /\ f[x] \in Int /\ 1 * f[x] + 0 <= 0 * f[x]
  OBVIOUS
<1>2. 1 * Sum(f, S) + 0 * Cardinality(S) <= 0 * Sum(f, S)
  <2>1. 1 \in Int /\ 0 \in Int
    OBVIOUS
  <2>2. QED
    BY <1>1, <2>1, SumCompare, Zenon
<1>3. Sum(f, S) \in Nat /\ Cardinality(S) \in Nat
  BY SumIsNatural, FS_CardinalityType
<1>4. QED
  BY <1>2, <1>3

(* A fixed amount is never raised before the percentages are shared, and  *)
(* the fixed amounts are never more than what is there.                   *)
LEMMA FixedFirstFits ==
  ASSUME Inputs, j \in 1 .. Len(fees), fee \in Nat, Available >= 0, NEW base \in Bases
  PROVE  /\ Available \in Nat /\ Available < Precision /\ FixedAmount \in Nat
         /\ \A h \in Fixed : base[h] \in Nat /\ base[h] <= Amount[h]
         /\ FixedFirst(base) \in [Fixed -> Nat]
         /\ Sum(FixedFirst(base), Fixed) \in Nat /\ Sum(FixedFirst(base), Fixed) <= Available
<1> DEFINE D == {h \in Fixed : Amount[h] > Dust}
           first == FixedFirst(base)
<1>1. Available \in Nat /\ Available < Precision
  <2>1. Balance \in Nat /\ fees[j] \in Nat /\ Balance < Precision /\ Precision \in Nat
    BY CoinsType, AmountsAssumption
  <2>2. QED
    BY <2>1 DEF Available
<1>2. /\ IsFiniteSet(Fixed) /\ IsFiniteSet(D) /\ IsFiniteSet(Fixed \ D)
      /\ Fixed \subseteq DOMAIN heirs
      /\ \A h \in Fixed : Amount[h] \in Nat \ {0}
  BY HeirsType, FS_Subset
<1>3. FixedAmount = Sum(Amount, D) /\ FixedAmount \in Nat
  <2>1. FixedAmount = Sum(Amount, D)
    BY DEF FixedAmount
  <2>2. D \in SUBSET DOMAIN heirs
    BY <1>2
  <2>3. QED
    BY <2>1, <2>2, AmountsAddUp
<1>4. ASSUME Scarce
      PROVE  /\ FixedAmount \in Nat \ {0}
             /\ \A h \in Fixed : /\ base[h] \in Proportions(Available, FixedAmount, Amount[h])
                                 /\ base[h] \in Nat /\ base[h] <= Amount[h]
  <2>1. FixedAmount \in Nat \ {0} /\ Available < FixedAmount
    BY <1>1, <1>3, <1>4 DEF Scarce
  <2>2. base \in Quotients(Fixed, Available, FixedAmount, Amount)
    BY <1>4 DEF Bases
  <2>3. ASSUME NEW h \in Fixed
        PROVE  /\ base[h] \in Proportions(Available, FixedAmount, Amount[h])
               /\ base[h] \in Nat /\ base[h] <= Amount[h]
    <3>1. base[h] \in Proportions(Available, FixedAmount, Amount[h])
      BY <2>2, QuotientsAre
    <3>2. Amount[h] \in Nat
      BY <1>2
    <3>3. QED
      BY <1>1, <2>1, <3>1, <3>2, ProportionsAre, ProportionsCompare
  <2>4. QED
    BY <2>1, <2>3
<1>5. ASSUME ~Scarce PROVE \A h \in Fixed : base[h] = Amount[h]
  BY <1>5 DEF Bases
<1>6. \A h \in Fixed : base[h] \in Nat /\ base[h] <= Amount[h]
  <2>1. CASE Scarce
    BY <1>4, <2>1
  <2>2. CASE ~Scarce
    BY <1>2, <1>5, <2>2
  <2>3. QED
    BY <2>1, <2>2
<1>7. /\ first \in [Fixed -> Nat]
      /\ \A h \in Fixed : first[h] = Payable(base[h]) /\ first[h] <= base[h]
  <2>1. ASSUME NEW h \in Fixed PROVE Payable(base[h]) \in Nat /\ Payable(base[h]) <= base[h]
    <3>1. base[h] \in Int /\ base[h] >= 0
      BY <1>6
    <3>2. QED
      BY <3>1, PayableType
  <2>2. QED
    BY <2>1 DEF FixedFirst
<1> HIDE DEF first
<1>8. \A h \in Fixed \ D : first[h] = 0
  <2>1. ASSUME NEW h \in Fixed \ D PROVE base[h] \in Nat /\ base[h] <= Dust
    BY <1>2, <1>6, DustType
  <2>2. QED
    BY <1>7, <2>1, DustType DEF Payable
<1>9. Sum(first, Fixed) = Sum(first, D)
  <2>1. Sum(first, Fixed \ D) = 0
    BY <1>2, <1>8, SumOfZeros
  <2>2. D \cup (Fixed \ D) = Fixed /\ D \cap (Fixed \ D) = {}
    OBVIOUS
  <2>3. \A h \in D \cup (Fixed \ D) : first[h] \in Int
    BY <1>7
  <2>4. Sum(first, D \cup (Fixed \ D)) = Sum(first, D) + Sum(first, Fixed \ D)
    BY <1>2, <2>2, <2>3, SumUnion
  <2>5. Sum(first, Fixed) = Sum(first, D) + Sum(first, Fixed \ D)
    BY <2>2, <2>4, Zenon
  <2>6. Sum(first, D) \in Int
    BY <1>2, <1>7, SumType
  <2>7. QED
    BY <2>1, <2>5, <2>6
<1>10. Sum(first, D) <= Available
  <2>1. CASE Scarce
    <3> DEFINE q == [h \in D |-> base[h]]
               N == [h \in D |-> Payable(q[h])]
    <3>1. q \in Quotients(D, Available, FixedAmount, Amount)
      <4>1. \A h \in D : q[h] \in Proportions(Available, FixedAmount, Amount[h])
        BY <1>4, <2>1
      <4>2. DOMAIN q = D /\ q = [h \in D |-> q[h]]
        OBVIOUS
      <4> HIDE DEF D, q
      <4>3. QED
        BY <4>1, <4>2, QuotientsAre
    <3>2. N \in Normalized(D, Available, FixedAmount, Amount)
      <4> HIDE DEF D, q
      <4>1. QED
        BY <3>1 DEF Normalized
    <3>3. \A h \in D : N[h] = first[h]
      BY <1>7
    <3> HIDE DEF N
    <3>4. Sum(N, D) = Sum(first, D)
      BY <1>2, <3>3, SumAgrees
    <3>5. Sum(N, D) <= Available
      <4>1. \A h \in D : Amount[h] \in Nat
        BY <1>2
      <4>2. Sum(Amount, D) <= FixedAmount
        BY <1>3
      <4>3. FixedAmount \in Nat \ {0}
        BY <1>4, <2>1
      <4> HIDE DEF D
      <4>4. QED
        BY <1>1, <1>2, <3>2, <4>1, <4>2, <4>3, NormalizedFits
    <3>6. QED
      BY <3>4, <3>5
  <2>2. CASE ~Scarce
    <3>1. \A h \in D : first[h] \in Int /\ Amount[h] \in Int /\ first[h] <= Amount[h]
      BY <1>2, <1>5, <1>7, <2>2
    <3>2. Sum(first, D) <= Sum(Amount, D)
      <4> HIDE DEF D
      <4>1. QED
        BY <1>2, <3>1, SumAtMost
    <3>3. FixedAmount <= Available
      BY <1>1, <1>3, <2>2 DEF Scarce
    <3>4. Sum(first, D) \in Int
      BY <1>2, <1>7, SumType
    <3> HIDE DEF D
    <3>5. QED
      BY <1>1, <1>3, <3>2, <3>3, <3>4
  <2>3. QED
    BY <2>1, <2>2
<1>11. Sum(first, Fixed) \in Nat
  BY <1>2, <1>7, SumIsNatural
<1>12. QED
  BY <1>1, <1>3, <1>6, <1>7, <1>9, <1>10, <1>11 DEF first

(* The percentages share at most what the fixed amounts leave.            *)
LEMMA PercentFits ==
  ASSUME Inputs, j \in 1 .. Len(fees), fee \in Nat, Available >= 0,
         NEW base \in Bases, NEW percent \in PercentPaid(base)
  PROVE  LET P == DOMAIN percent IN
         /\ P \subseteq Percent /\ percent \in [P -> Nat] /\ IsFiniteSet(P)
         /\ Sum(percent, P) \in Nat
         /\ Sum(FixedFirst(base), Fixed) + Sum(percent, P) <= Available
         /\ Left(base, percent) \in Nat
         /\ Left(base, percent) = Available - Sum(FixedFirst(base), Fixed) - Sum(percent, P)
<1> DEFINE rest == Available - Sum(FixedFirst(base), Fixed)
           S == IF rest > 0 THEN Percent ELSE {}
           relative == Sum(Amount, Percent)
<1>1. /\ rest \in Nat /\ Available \in Nat /\ Sum(FixedFirst(base), Fixed) \in Nat
      /\ Available < Precision /\ Precision \in Nat
  BY FixedFirstFits, AmountsAssumption
<1>2. percent \in Normalized(S, rest, relative, Amount)
  BY DEF PercentPaid
<1>3. IsFiniteSet(Percent) /\ \A h \in Percent : Amount[h] \in Nat \ {0}
  BY HeirsType
<1>4. DOMAIN percent = S /\ S \subseteq Percent /\ IsFiniteSet(S)
  BY <1>2, <1>3, FS_EmptySet DEF Normalized
<1>5. /\ percent \in [S -> Nat] /\ Sum(percent, S) \in Nat /\ Sum(percent, S) <= rest
  <2>1. CASE S = {}
    <3>1. percent \in [S -> Nat]
      BY <1>2, <2>1 DEF Normalized
    <3> HIDE DEF S
    <3>2. Sum(percent, S) = 0
      BY <2>1, SumOfNone
    <3>3. QED
      BY <1>1, <3>1, <3>2
  <2>2. CASE S # {}
    <3>1. S = Percent /\ Percent \in SUBSET DOMAIN heirs
      BY <2>2, HeirsType
    <3>2. relative \in Nat \ {0}
      BY <2>2, <3>1, AmountsAddUp
    <3>3. \A h \in Percent : Amount[h] \in Nat
      BY <1>3
    <3>4. Sum(Amount, Percent) <= relative /\ rest < Precision
      BY <1>1, <3>2
    <3> HIDE DEF relative, rest, S
    <3>5. percent \in Normalized(Percent, rest, relative, Amount)
      BY <1>2, <3>1
    <3>6. percent \in [Percent -> Nat]
      BY <1>1, <3>2, <3>3, <3>5, NormalizedIs
    <3>7. Sum(percent, Percent) <= rest
      BY <1>1, <1>3, <3>2, <3>3, <3>4, <3>5, NormalizedFits
    <3>8. Sum(percent, Percent) \in Nat
      BY <1>3, <3>6, SumIsNatural
    <3>9. QED
      BY <3>1, <3>6, <3>7, <3>8
  <2>3. QED
    BY <2>1, <2>2
<1>6. Left(base, percent) = Available - Sum(FixedFirst(base), Fixed) - Sum(percent, DOMAIN percent)
  BY DEF Left
<1> HIDE DEF S
<1>7. /\ Sum(FixedFirst(base), Fixed) + Sum(percent, S) <= Available
      /\ Available - Sum(FixedFirst(base), Fixed) - Sum(percent, S) \in Nat
  BY <1>1, <1>5
<1>8. QED
  BY <1>4, <1>5, <1>6, <1>7

(* What the fixed heirs have in the end, with the percentages.            *)
LEMMA FixedFits ==
  ASSUME Inputs, j \in 1 .. Len(fees), fee \in Nat, Available >= 0,
         NEW base \in Bases, NEW percent \in PercentPaid(base),
         NEW fixed \in FixedPaid(base, percent)
  PROVE  /\ fixed \in [Fixed -> Nat]
         /\ Sum(fixed, Fixed) \in Nat
         /\ Sum(fixed, Fixed) + Sum(percent, DOMAIN percent) <= Available
<1> DEFINE first == Sum(FixedFirst(base), Fixed)
           rest == Sum(percent, DOMAIN percent)
           left == Left(base, percent)
           relative == Sum(Amount, Fixed)
<1>1. /\ first \in Nat /\ rest \in Nat /\ Available \in Nat /\ left \in Nat
      /\ left + first = Available - rest /\ left + first \in Nat /\ left + first < Precision
  <2>1. first \in Nat /\ Available \in Nat /\ Available < Precision /\ Precision \in Nat
    BY FixedFirstFits, AmountsAssumption
  <2>2. rest \in Nat /\ left \in Nat /\ left = Available - first - rest
    BY PercentFits
  <2> HIDE DEF first, rest, left
  <2>3. QED
    BY <2>1, <2>2
<1>2. IsFiniteSet(Fixed) /\ Fixed \in SUBSET DOMAIN heirs /\ \A h \in Fixed : Amount[h] \in Nat \ {0}
  BY HeirsType
<1>3. /\ \A h \in Fixed : base[h] \in Nat /\ base[h] <= Amount[h]
      /\ FixedFirst(base) \in [Fixed -> Nat]
  BY FixedFirstFits
<1>4. CASE left > 0 /\ Fixed # {}
  <2>1. fixed \in Normalized(Fixed, left + first, relative, base)
    BY <1>4 DEF FixedPaid
  <2>2. relative \in Nat \ {0}
    BY <1>2, <1>4, AmountsAddUp
  <2>3. Sum(base, Fixed) <= relative
    <3>1. \A h \in Fixed : base[h] \in Int /\ Amount[h] \in Int /\ base[h] <= Amount[h]
      BY <1>2, <1>3
    <3>2. QED
      BY <1>2, <3>1, SumAtMost
  <2>4. \A h \in Fixed : base[h] \in Nat
    BY <1>3
  <2> HIDE DEF left, first, rest, relative
  <2>5. fixed \in [Fixed -> Nat]
    BY <1>1, <2>1, <2>2, <2>4, NormalizedIs
  <2>6. Sum(fixed, Fixed) <= left + first
    BY <1>1, <1>2, <2>1, <2>2, <2>3, <2>4, NormalizedFits
  <2>7. Sum(fixed, Fixed) \in Nat
    BY <1>2, <2>5, SumIsNatural
  <2>8. Sum(fixed, Fixed) + rest <= Available
    BY <1>1, <2>6, <2>7
  <2>9. QED
    BY <2>5, <2>7, <2>8 DEF rest
<1>5. CASE Fixed = {}
  <2>1. fixed \in [Fixed -> Nat]
    BY <1>3, <1>5 DEF FixedPaid, Normalized
  <2>2. Sum(fixed, Fixed) = 0 /\ first = 0
    BY <1>5, SumOfNone
  <2> HIDE DEF first, rest, left
  <2>3. 0 + rest <= Available /\ 0 \in Nat
    BY <1>1, <2>2
  <2>4. QED
    BY <2>1, <2>2, <2>3 DEF rest
<1>6. CASE ~(left > 0)
  <2>1. fixed = FixedFirst(base)
    BY <1>6 DEF FixedPaid
  <2>2. first + rest <= Available
    BY PercentFits
  <2>3. QED
    BY <1>1, <1>3, <2>1, <2>2
<1>7. QED
  BY <1>4, <1>5, <1>6

(* prepare_lists lists every fixed heir, and those with a percentage if    *)
(* anything is left for them.                                              *)
LEMMA ListedIs ==
  ASSUME Inputs, j \in 1 .. Len(fees), fee \in Nat, Available >= 0,
         NEW base \in Bases, NEW percent \in PercentPaid(base),
         NEW fixed \in FixedPaid(base, percent)
  PROVE  LET listed == Listed(fixed, percent) IN
         /\ DOMAIN listed = Fixed \cup DOMAIN percent
         /\ DOMAIN listed \subseteq DOMAIN heirs /\ IsFiniteSet(DOMAIN listed)
         /\ listed \in [DOMAIN listed -> Nat]
         /\ \A h \in Fixed : listed[h] = fixed[h]
         /\ \A h \in DOMAIN percent : listed[h] = percent[h]
         /\ Sum(listed, DOMAIN listed) = Sum(fixed, Fixed) + Sum(percent, DOMAIN percent)
         /\ Sum(listed, DOMAIN listed) \in Nat /\ Sum(listed, DOMAIN listed) <= Available
<1> DEFINE P == DOMAIN percent
           listed == Listed(fixed, percent)
<1>1. /\ P \subseteq Percent /\ percent \in [P -> Nat] /\ IsFiniteSet(P)
      /\ Sum(percent, P) \in Nat
  BY PercentFits
<1>2. fixed \in [Fixed -> Nat] /\ Sum(fixed, Fixed) \in Nat
  BY FixedFits
<1>3. /\ IsFiniteSet(Fixed) /\ Fixed \cap P = {} /\ Fixed \cup P \subseteq DOMAIN heirs
      /\ IsFiniteSet(Fixed \cup P)
  BY <1>1, HeirsType, FS_Union
<1>4. listed = [h \in Fixed \cup P |-> IF h \in Fixed THEN fixed[h] ELSE percent[h]]
  <2>1. DOMAIN fixed = Fixed
    BY <1>2
  <2>2. QED
    BY <2>1 DEF Listed
<1>5. /\ DOMAIN listed = Fixed \cup P
      /\ \A h \in Fixed : listed[h] = fixed[h]
      /\ \A h \in P : listed[h] = percent[h]
  BY <1>3, <1>4
<1>6. listed \in [Fixed \cup P -> Nat]
  BY <1>1, <1>2, <1>4
<1> HIDE DEF listed
<1>7. Sum(listed, Fixed \cup P) = Sum(fixed, Fixed) + Sum(percent, P)
  <2>1. \A h \in Fixed \cup P : listed[h] \in Int
    BY <1>6
  <2>2. Sum(listed, Fixed \cup P) = Sum(listed, Fixed) + Sum(listed, P)
    BY <1>1, <1>3, <2>1, SumUnion
  <2>3. Sum(listed, Fixed) = Sum(fixed, Fixed)
    BY <1>3, <1>5, SumAgrees
  <2>4. Sum(listed, P) = Sum(percent, P)
    BY <1>1, <1>5, SumAgrees
  <2>5. QED
    BY <2>2, <2>3, <2>4
<1>8. Sum(fixed, Fixed) + Sum(percent, P) <= Available
  BY FixedFits
<1> HIDE DEF P
<1>9. Sum(listed, Fixed \cup P) \in Nat /\ Sum(listed, Fixed \cup P) <= Available
  BY <1>1, <1>2, <1>7, <1>8
<1>10. QED
  BY <1>3, <1>5, <1>6, <1>7, <1>9 DEF P, listed

(* If they are not more than there is, dividing what is left gives no     *)
(* fixed heir less than before.                                           *)
LEMMA ListedKeepsFixed ==
  ASSUME Inputs, j \in 1 .. Len(fees), fee \in Nat, Available >= 0,
         NEW base \in Bases, NEW percent \in PercentPaid(base),
         NEW fixed \in FixedPaid(base, percent),
         Plenty, \A h \in Fixed : Amount[h] > Dust
  PROVE  \A h \in Fixed : fixed[h] >= Amount[h]
<1> DEFINE first == Sum(FixedFirst(base), Fixed)
           left == Left(base, percent)
           relative == Sum(Amount, Fixed)
<1>1. /\ first \in Nat /\ left \in Nat /\ left + first \in Nat /\ left + first < Precision
  <2>1. first \in Nat /\ Available \in Nat /\ Available < Precision /\ Precision \in Nat
    BY FixedFirstFits, AmountsAssumption
  <2>2. /\ Sum(percent, DOMAIN percent) \in Nat /\ left \in Nat
        /\ left = Available - first - Sum(percent, DOMAIN percent)
    BY PercentFits
  <2> HIDE DEF first, left
  <2>3. QED
    BY <2>1, <2>2
<1>2. /\ IsFiniteSet(Fixed) /\ Fixed \in SUBSET DOMAIN heirs
      /\ \A h \in Fixed : Amount[h] \in Nat \ {0}
  BY HeirsType
<1>3. ~Scarce
  BY FixedFirstFits DEF Plenty, Scarce
<1>4. \A h \in Fixed : base[h] = Amount[h]
  BY <1>3 DEF Bases
<1>5. \A h \in Fixed : FixedFirst(base)[h] = Amount[h]
  BY <1>2, <1>4, DustType DEF FixedFirst, Payable
<1>6. first = relative
  BY <1>2, <1>5, SumAgrees
<1>7. ASSUME NEW h \in Fixed PROVE fixed[h] >= Amount[h]
  <2>1. CASE left > 0
    <3> DEFINE total == left + first
    <3>1. relative \in Nat \ {0} /\ total \in Nat /\ total < Precision /\ relative < total
      <4>1. relative \in Nat \ {0}
        BY <1>2, AmountsAddUp
      <4>2. QED
        BY <1>1, <1>6, <2>1, <4>1
    <3>2. fixed \in Normalized(Fixed, total, relative, base)
      BY <2>1 DEF FixedPaid
    <3>3. \A x \in Fixed : base[x] \in Nat
      BY <1>2, <1>4
    <3> HIDE DEF total, relative, left, first
    <3>4. PICK v \in Proportions(total, relative, base[h]) : fixed[h] = Payable(v)
      BY <3>2, ShareIs
    <3>5. v \in Nat /\ v >= Amount[h] /\ Amount[h] \in Nat /\ Amount[h] > Dust
      BY <1>2, <1>4, <3>1, <3>3, ProportionsAre, ProportionsCompare
    <3>6. QED
      BY <3>4, <3>5, DustType DEF Payable
  <2>2. CASE ~(left > 0)
    <3>1. fixed = FixedFirst(base)
      BY <2>2 DEF FixedPaid
    <3>2. QED
      BY <1>2, <1>5, <3>1
  <2>3. QED
    BY <2>1, <2>2
<1>8. QED
  BY <1>7

(* If nobody's share is dust, at most one unit for each is left.          *)
LEMMA ListedLeaves ==
  ASSUME Inputs, j \in 1 .. Len(fees), fee \in Nat, Available >= 0,
         NEW base \in Bases, NEW percent \in PercentPaid(base),
         NEW fixed \in FixedPaid(base, percent), Plenty,
         \A h \in Fixed : fixed[h] > 0,
         DOMAIN percent = Percent, \A h \in Percent : percent[h] > 0,
         DOMAIN heirs # {}
  PROVE  Available - (Sum(fixed, Fixed) + Sum(percent, Percent)) <= Cardinality(DOMAIN heirs)
<1> DEFINE first == Sum(FixedFirst(base), Fixed)
           rest == Sum(percent, Percent)
           left == Left(base, percent)
<1>1. /\ first \in Nat /\ rest \in Nat /\ Available \in Nat /\ left \in Nat
      /\ left = Available - first - rest
      /\ left + first = Available - rest /\ left + first \in Nat
      /\ left + first < Precision /\ Available - first \in Nat /\ Available - first < Precision
  <2>1. first \in Nat /\ Available \in Nat /\ Available < Precision /\ Precision \in Nat
    BY FixedFirstFits, AmountsAssumption
  <2>2. rest \in Nat /\ left \in Nat /\ left = Available - first - rest
    BY PercentFits
  <2> HIDE DEF first, rest, left
  <2>3. QED
    BY <2>1, <2>2
<1>2. /\ IsFiniteSet(Fixed) /\ IsFiniteSet(Percent) /\ IsFiniteSet(DOMAIN heirs)
      /\ DOMAIN heirs = Fixed \cup Percent /\ Fixed \cap Percent = {}
      /\ \A h \in DOMAIN heirs : Amount[h] \in Nat \ {0}
  BY HeirsType
<1>3. /\ Cardinality(Fixed) \in Nat /\ Cardinality(Percent) \in Nat
      /\ Cardinality(DOMAIN heirs) = Cardinality(Fixed) + Cardinality(Percent)
  <2>1. Cardinality(Fixed) \in Nat /\ Cardinality(Percent) \in Nat
    BY <1>2, FS_CardinalityType
  <2>2. Cardinality(Fixed \cup Percent) = Cardinality(Fixed) + Cardinality(Percent) - 0
    BY <1>2, FS_Union, FS_EmptySet
  <2>3. QED
    BY <1>2, <2>1, <2>2
<1>4. Sum(fixed, Fixed) \in Nat
  BY FixedFits
<1>5. \A h \in Fixed : base[h] = Amount[h]
  BY FixedFirstFits DEF Plenty, Scarce, Bases
<1>6. CASE left > 0 /\ Fixed # {}
  <2> DEFINE relative == Sum(Amount, Fixed)
  <2>1. fixed \in Normalized(Fixed, left + first, relative, base)
    BY <1>6 DEF FixedPaid
  <2>2. relative \in Nat \ {0}
    BY <1>2, <1>6, AmountsAddUp
  <2>3. Sum(base, Fixed) = relative
    BY <1>2, <1>5, SumAgrees
  <2>4. \A h \in Fixed : base[h] \in Nat
    BY <1>2, <1>5
  <2> HIDE DEF left, first, rest, relative
  <2>5. (left + first) - Sum(fixed, Fixed) <= Cardinality(Fixed)
    <3>1. /\ left + first \in Nat /\ left + first < Precision /\ IsFiniteSet(Fixed)
          /\ \A h \in Fixed : fixed[h] > 0
      BY <1>1, <1>2
    <3>2. QED
      BY <2>1, <2>2, <2>3, <2>4, <3>1, NormalizedLeaves, Zenon
  <2>6. Available - (Sum(fixed, Fixed) + rest) <= Cardinality(DOMAIN heirs)
    <3> DEFINE f == Sum(fixed, Fixed)
               some == Cardinality(Fixed)
               all == Cardinality(DOMAIN heirs)
    <3>1. f \in Nat
      BY <1>4
    <3>2. some \in Nat /\ all \in Nat /\ some <= all
      BY <1>3
    <3>3. (left + first) - f <= some
      BY <2>5
    <3> HIDE DEF f, some, all
    <3>4. Available - (f + rest) <= all
      BY <1>1, <3>1, <3>2, <3>3
    <3>5. QED
      BY <3>4 DEF f, all
  <2>7. QED
    BY <2>6 DEF rest
<1>7. CASE left > 0 /\ Fixed = {}
  <2> DEFINE relative == Sum(Amount, Percent)
             total == Available - first
  <2>1. Sum(fixed, Fixed) = 0 /\ first = 0
    BY <1>7, SumOfNone
  <2>2. total \in Nat /\ total < Precision
    BY <1>1
  <2>3. percent \in Normalized(Percent, total, relative, Amount)
    <3>1. CASE total > 0
      BY <3>1 DEF PercentPaid
    <3>2. CASE ~(total > 0)
      <4> HIDE DEF first, rest, left
      <4>1. QED
        BY <1>1, <1>7, <3>2
    <3>3. QED
      BY <3>1, <3>2
  <2>4. \A h \in Percent : Amount[h] \in Nat
    BY <1>2
  <2>5. Percent # {}
    BY <1>2, <1>7
  <2>6. relative \in Nat \ {0} /\ Sum(Amount, Percent) = relative
    BY <1>2, <2>5, AmountsAddUp
  <2> HIDE DEF total, relative
  <2>7. total - Sum(percent, Percent) <= Cardinality(Percent)
    BY <1>2, <2>2, <2>3, <2>4, <2>6, NormalizedLeaves
  <2>8. Available - (0 + rest) <= Cardinality(DOMAIN heirs)
    <3>1. total = Available - first /\ first = 0 /\ total - rest <= Cardinality(Percent)
      BY <2>1, <2>7 DEF total
    <3> HIDE DEF first, rest, left
    <3>2. QED
      BY <1>1, <1>3, <3>1
  <2>9. QED
    BY <2>1, <2>8 DEF rest
<1>8. CASE ~(left > 0)
  <2>1. fixed = FixedFirst(base)
    BY <1>8 DEF FixedPaid
  <2>2. Sum(fixed, Fixed) = first
    BY <2>1
  <2> HIDE DEF first, rest, left
  <2>3. Available - (first + rest) <= Cardinality(DOMAIN heirs)
    BY <1>1, <1>3, <1>8
  <2>4. QED
    BY <2>2, <2>3 DEF rest
<1>9. QED
  BY <1>6, <1>7, <1>8

-----------------------------------------------------------------------------
(* The rounds.                                                             *)

Transactions == [ins : Nat, outs : Nat, value : Nat, spent : Nat, change : Nat]

Paid == UNION {[S -> Nat] : S \in SUBSET Names}

Entries == [tx : Transactions, executor : Nat, paid : Paid, rounds : Nat]

Dividing == {"lists", "tx", "fees"}

AmountTypes ==
  /\ Inputs
  /\ pc \in {"start", "next", "lists", "tx", "fees", "rest", "end"}
  /\ j \in 0 .. Len(fees) /\ i \in 0 .. MaxRounds /\ fee \in Nat
  /\ paid \in Paid /\ DOMAIN paid \subseteq DOMAIN heirs
  /\ tx \in Transactions /\ tx.spent <= tx.value
  /\ built \in Seq(Entries) /\ Len(built) <= j

(* An executor is being tried, there is something to divide and somebody  *)
(* to divide it among, and not every round is used up.                    *)
Started ==
  /\ pc \in Dividing =>
       /\ j > 0 /\ Len(built) < j
       /\ DOMAIN heirs # {} /\ Len(coins) > 0
  /\ pc \in {"next", "rest"} => DOMAIN heirs # {} /\ Len(coins) > 0
  /\ pc = "lists" => i < MaxRounds
  /\ pc = "start" => j = 0

(* What prepare_lists may list in this round.                              *)
IsDivision(list) ==
  \E base \in Bases : \E percent \in PercentPaid(base) :
    \E fixed \in FixedPaid(base, percent) : list = Listed(fixed, percent)

(* What is to be paid is what was divided in this round.                  *)
PaidIsListed == pc = "tx" => Available >= 0 /\ IsDivision(paid)

(* Whoever was tried and is not in built left a reason.                   *)
ReasonLeft ==
  /\ pc = "next" /\ j > 0 /\ built = <<>> => error # "none"
  /\ pc \in {"rest", "end"} /\ built = <<>> => error # "none"

(* In an ample wallet the first round has no fee, and the second the fee  *)
(* of a transaction of every coin and every heir, without a change.       *)
FullFee(executor) ==
  Needed([ins |-> Len(coins), outs |-> Cardinality(DOMAIN heirs) + Count(executor)])

Settling ==
  pc \in Dividing /\ Ample(fees[j]) =>
    /\ pc = "lists" => \/ i = 0 /\ fee = 0
                       \/ i = 1 /\ fee = FullFee(fees[j])
    /\ pc \in {"tx", "fees"} => \/ i = 1 /\ fee = 0
                                \/ i = 2 /\ fee = FullFee(fees[j])
    /\ pc = "fees" => /\ Needed(tx) = FullFee(fees[j]) /\ tx.value = Balance
                      /\ fee <= tx.value - tx.spent /\ tx.value - tx.spent <= fee + Dust


(* No heirs and no coins are the empty function and sequence.              *)
LEMMA NoneIsEmpty ==
  ASSUME Inputs
  PROVE  (heirs = <<>> <=> DOMAIN heirs = {}) /\ (coins = <<>> <=> Len(coins) = 0)
<1>1. PICK S \in SUBSET Names : heirs \in [S -> Shares]
  BY DEF Inputs
<1>2. heirs = <<>> => DOMAIN heirs = {}
  OBVIOUS
<1>3. ASSUME DOMAIN heirs = {} PROVE heirs = <<>>
  BY <1>1, <1>3
<1>4. coins = <<>> <=> Len(coins) = 0
  BY CoinsType
<1>5. QED
  BY <1>2, <1>3, <1>4

(* What is listed is a natural amount for some of the heirs.               *)
LEMMA PaidType ==
  ASSUME NEW p \in Paid
  PROVE  /\ IsFiniteSet(DOMAIN p) /\ DOMAIN p \subseteq Names
         /\ p \in [DOMAIN p -> Nat] /\ Sum(p, DOMAIN p) \in Nat
<1>1. PICK S \in SUBSET Names : p \in [S -> Nat]
  BY DEF Paid
<1>2. IsFiniteSet(S) /\ DOMAIN p = S
  BY <1>1, AmountsAssumption, FS_Subset
<1>3. QED
  BY <1>1, <1>2, SumIsNatural

(* An output is there or not.                                              *)
LEMMA CountType ==
  ASSUME NEW a \in Int
  PROVE  Count(a) \in {0, 1}
BY DEF Count

(* The fee a transaction needs is a natural number.                        *)
LEMMA NeededType ==
  ASSUME NEW t, t.ins \in Nat, t.outs \in Nat
  PROVE  Needed(t) \in Nat
<1>1. 1 + t.ins + t.outs \in Nat /\ FeeRate \in Nat
  BY DustType
<1>2. QED
  BY <1>1, ProductType DEF Needed

(* There is a first coin with which it is enough, or they are all taken.  *)
LEMMA TakenIs ==
  ASSUME Inputs, Len(coins) > 0, NEW spent \in Nat
  PROVE  /\ Taken(spent) \in DOMAIN coins /\ Taken(spent) \in Nat
         /\ Value(Taken(spent)) >= spent \/ Taken(spent) = Len(coins)
         /\ \A l \in 1 .. Taken(spent) - 1 : Value(l) < spent
<1> DEFINE Enough == {k \in 1 .. Len(coins) : Value(k) >= spent \/ k = Len(coins)}
           Right(k) == /\ Value(k) >= spent \/ k = Len(coins)
                       /\ \A l \in 1 .. k - 1 : Value(l) < spent
<1>1. Len(coins) \in Nat /\ DOMAIN coins = 1 .. Len(coins) /\ \A k \in 0 .. Len(coins) : Value(k) \in Nat
  BY CoinsType
<1>2. Enough \subseteq Nat /\ Enough # {}
  BY <1>1
<1>3. PICK k \in Enough : \A l \in Enough : k <= l
  <2> HIDE DEF Enough
  <2>1. QED
    BY <1>2, LeastNatural
<1>4. Right(k)
  <2>1. ASSUME NEW l \in 1 .. k - 1 PROVE Value(l) < spent
    <3>1. k \in 1 .. Len(coins) /\ Len(coins) \in Nat
      BY <1>1
    <3>2. l \in 1 .. Len(coins) /\ l < k
      BY <3>1
    <3>3. l \notin Enough
      <4> HIDE DEF Enough
      <4>1. QED
        BY <1>3, <3>1, <3>2
    <3>4. l \in 0 .. Len(coins)
      BY <3>1, <3>2
    <3>5. Value(l) \in Nat
      BY <1>1, <3>4
    <3>6. QED
      BY <3>2, <3>3, <3>5
  <2>2. QED
    BY <2>1
<1>5. k \in DOMAIN coins
  BY <1>1
<1>6. Taken(spent) = CHOOSE x \in DOMAIN coins : Right(x)
  BY DEF Taken
<1> HIDE DEF Right
<1>7. Taken(spent) \in DOMAIN coins /\ Right(Taken(spent))
  BY <1>4, <1>5, <1>6, Zenon
<1>8. Taken(spent) \in Nat
  <2>1. ASSUME NEW m \in 1 .. Len(coins) PROVE m \in Nat
    OBVIOUS
  <2>2. DOMAIN coins = 1 .. Len(coins)
    BY <1>1
  <2>3. QED
    BY <1>7, <2>1, <2>2, Zenon
<1>9. QED
  BY <1>7, <1>8, Zenon DEF Right

(* What the build never changes.                                          *)
LEMMA InputsStay ==
  ASSUME UNCHANGED inputVars
  PROVE  /\ Inputs => Inputs'
         /\ Balance' = Balance /\ DOMAIN heirs' = DOMAIN heirs
         /\ \A e : Ample(e)' <=> Ample(e)
         /\ \A e : FullFee(e)' = FullFee(e)
         /\ \A t : Needed(t)' = Needed(t)
         /\ UNCHANGED <<j, fee>> =>
              /\ Available' = Available /\ Bases' = Bases
              /\ \A b : PercentPaid(b)' = PercentPaid(b)
              /\ \A b, p : FixedPaid(b, p)' = FixedPaid(b, p)
<1>1. heirs' = heirs /\ coins' = coins /\ fees' = fees
  BY DEF inputVars
<1>2. (Inputs => Inputs') /\ Balance' = Balance /\ DOMAIN heirs' = DOMAIN heirs
  BY <1>1 DEF Inputs, Balance, Sum
<1>3. Amount' = Amount /\ Fixed' = Fixed /\ Percent' = Percent
  BY <1>1 DEF Amount, Fixed, Percent
<1>4. FixedAmount' = FixedAmount
  BY <1>3 DEF FixedAmount, Sum
<1>5. \A t : Needed(t)' = Needed(t)
  BY DEF Needed
<1>6. LargestFee' = LargestFee /\ \A e : FullFee(e)' = FullFee(e)
  BY <1>1 DEF LargestFee, FullFee, Needed, Count
<1>7. ASSUME NEW e PROVE Ample(e)' <=> Ample(e)
  BY <1>1, <1>2, <1>3, <1>4, <1>6 DEF Ample, Sum
<1>8. ASSUME UNCHANGED <<j, fee>>
      PROVE  /\ Available' = Available /\ Bases' = Bases
             /\ \A b : PercentPaid(b)' = PercentPaid(b)
             /\ \A b, p : FixedPaid(b, p)' = FixedPaid(b, p)
  <2>1. Available' = Available
    BY <1>1, <1>2, <1>8 DEF Available
  <2>2. Scarce' = Scarce /\ Bases' = Bases
    BY <1>3, <1>4, <2>1 DEF Scarce, Bases, Quotients, Proportions
  <2>3. \A b : FixedFirst(b)' = FixedFirst(b)
    BY <1>3 DEF FixedFirst, Payable
  <2>4. ASSUME NEW b PROVE PercentPaid(b)' = PercentPaid(b)
    <3> DEFINE rest == Available - Sum(FixedFirst(b), Fixed)
               S == IF rest > 0 THEN Percent ELSE {}
               written == Sum(Amount, Percent)
    <3>1. S' = S /\ rest' = rest /\ written' = written
      BY <1>3, <2>1, <2>3 DEF Sum
    <3>2. PercentPaid(b) = Normalized(S, rest, written, Amount)
      BY DEF PercentPaid
    <3>3. PercentPaid(b)' = Normalized(S, rest, written, Amount)'
      BY DEF PercentPaid
    <3> HIDE DEF S, rest, written
    <3>4. Normalized(S, rest, written, Amount)' = Normalized(S, rest, written, Amount)
      BY <1>3, <3>1 DEF Normalized, Quotients, Proportions, Payable
    <3>5. QED
      BY <3>2, <3>3, <3>4
  <2>5. ASSUME NEW b, NEW p PROVE FixedPaid(b, p)' = FixedPaid(b, p)
    <3> DEFINE left == Left(b, p)
               total == left + Sum(FixedFirst(b), Fixed)
               written == Sum(Amount, Fixed)
               first == FixedFirst(b)
    <3>1. left' = left /\ total' = total /\ written' = written /\ first' = first
      BY <1>3, <2>1, <2>3 DEF Left, Sum
    <3>2. FixedPaid(b, p) = IF left > 0 THEN Normalized(Fixed, total, written, b) ELSE {first}
      BY DEF FixedPaid
    <3>3. FixedPaid(b, p)' = IF left' > 0 THEN Normalized(Fixed, total, written, b)' ELSE {first'}
      BY DEF FixedPaid
    <3> HIDE DEF left, total, written, first
    <3>4. Normalized(Fixed, total, written, b)' = Normalized(Fixed, total, written, b)
      BY <1>3, <3>1 DEF Normalized, Quotients, Proportions, Payable
    <3>5. QED
      BY <3>1, <3>2, <3>3, <3>4
  <2>6. QED
    BY <2>1, <2>2, <2>4, <2>5
<1>9. QED
  BY <1>2, <1>5, <1>6, <1>7, <1>8

(* Types, progress, and reasons: everything but the number of rounds.     *)
Basics == AmountTypes /\ Started /\ PaidIsListed /\ ReasonLeft

(* The invariant holds at the start.                                       *)
LEMMA BasicsInit ==
  ASSUME Init
  PROVE  Basics
<1>1. Inputs
  BY DEF Init, Inputs
<1>2. Len(fees) \in Nat /\ MaxRounds \in Nat
  BY <1>1, CoinsType, DustType
<1>3. j \in 0 .. Len(fees) /\ i \in 0 .. MaxRounds /\ fee \in Nat
  BY <1>2 DEF Init
<1>4. paid \in Paid /\ DOMAIN paid \subseteq DOMAIN heirs
  <2>1. paid = <<>> /\ DOMAIN paid = {} /\ paid \in [{} -> Nat]
    BY DEF Init
  <2>2. QED
    BY <2>1 DEF Paid
<1>5. tx \in Transactions /\ tx.spent <= tx.value
  BY DEF Init, NoTx, Transactions
<1>6. built \in Seq(Entries) /\ Len(built) <= j
  BY DEF Init
<1>7. AmountTypes
  BY <1>1, <1>3, <1>4, <1>5, <1>6 DEF AmountTypes, Init
<1>8. QED
  BY <1>7 DEF Basics, Started, PaidIsListed, ReasonLeft, Dividing, Init

(* Begin keeps it.                                                         *)
LEMMA BeginBasics ==
  ASSUME Basics, Begin
  PROVE  Basics'
<1>1. /\ AmountTypes /\ pc = "start"
      /\ UNCHANGED <<heirs, coins, fees, j, i, fee, paid, tx, built>>
  BY DEF Basics, Begin, inputVars
<1>2. Inputs' /\ UNCHANGED inputVars
  BY <1>1, InputsStay DEF AmountTypes, inputVars
<1>3. AmountTypes'
  BY <1>1, <1>2 DEF AmountTypes, Begin, Dividing
<1>4. Started' /\ PaidIsListed'
  <2>1. ASSUME pc' = "next" PROVE DOMAIN heirs # {} /\ Len(coins) > 0
    <3>1. Len(coins) \in Nat
      BY <1>1, CoinsType DEF AmountTypes
    <3>2. heirs # <<>> /\ coins # <<>>
      BY <2>1 DEF Begin
    <3>3. Inputs
      BY <1>1 DEF AmountTypes
    <3>4. QED
      BY <3>1, <3>2, <3>3, NoneIsEmpty
  <2>2. pc' \in {"next", "end"}
    BY DEF Begin
  <2>3. QED
    BY <1>1, <2>1, <2>2 DEF Started, PaidIsListed, Dividing
<1>5. ReasonLeft'
  <2>1. pc' = "end" => error' # "none"
    BY DEF Begin
  <2>2. j' = 0
    BY <1>1 DEF Basics, Started
  <2>3. pc' \in {"next", "end"}
    BY DEF Begin
  <2>4. QED
    BY <2>1, <2>2, <2>3 DEF ReasonLeft
<1>6. QED
  BY <1>3, <1>4, <1>5 DEF Basics

(* NextExecutor keeps it.                                                  *)
LEMMA NextExecutorBasics ==
  ASSUME Basics, NextExecutor
  PROVE  Basics'
<1>1. /\ AmountTypes /\ Started /\ pc = "next" /\ j < Len(fees)
      /\ UNCHANGED <<heirs, coins, fees, paid, tx, built, error>>
      /\ j' = j + 1 /\ i' = 0 /\ fee' = 0 /\ pc' = "lists"
  BY DEF Basics, NextExecutor, inputVars
<1>2. Inputs' /\ UNCHANGED inputVars
  BY <1>1, InputsStay DEF AmountTypes, inputVars
<1>3. Len(fees) \in Nat /\ MaxRounds \in Nat /\ MaxRounds > 1
  BY <1>1, CoinsType, DustType DEF AmountTypes
<1>4. Len(built) \in Nat
  BY <1>1 DEF AmountTypes
<1>5. /\ j' \in 0 .. Len(fees) /\ i' \in 0 .. MaxRounds /\ fee' \in Nat /\ j' > 0
      /\ Len(built) <= j' /\ Len(built) < j' /\ i' < MaxRounds
  BY <1>1, <1>3, <1>4 DEF AmountTypes
<1>6. AmountTypes'
  BY <1>1, <1>2, <1>5 DEF AmountTypes
<1>7. Started' /\ PaidIsListed' /\ ReasonLeft'
  BY <1>1, <1>5 DEF Started, PaidIsListed, ReasonLeft, Dividing
<1>8. QED
  BY <1>6, <1>7 DEF Basics

(* The exceptions and the reasons for which an executor is given up.      *)
LEMMA RaiseBasics ==
  ASSUME Basics, NEW why, why # "none", Raise(why), UNCHANGED <<inputVars, j, fee, tx>>,
         i' \in 0 .. MaxRounds
  PROVE  Basics'
<1>1. /\ AmountTypes /\ UNCHANGED <<heirs, coins, fees, j, fee, paid, tx>>
      /\ pc' = "end" /\ error' = why /\ built' = <<>>
  BY DEF Basics, Raise, inputVars
<1>2. Inputs'
  BY <1>1, InputsStay DEF AmountTypes
<1>3. built' \in Seq(Entries) /\ Len(built') <= j
  BY <1>1 DEF AmountTypes
<1>4. AmountTypes'
  BY <1>1, <1>2, <1>3 DEF AmountTypes
<1>5. QED
  BY <1>1, <1>4 DEF Basics, Started, PaidIsListed, ReasonLeft, Dividing

(* An executor that is given up leaves a reason.                           *)
LEMMA GiveUpBasics ==
  ASSUME Basics, NEW why, why # "none", GiveUp(why), pc \in Dividing,
         UNCHANGED <<inputVars, j, fee, tx>>, i' \in 0 .. MaxRounds
  PROVE  Basics'
<1>1. /\ AmountTypes /\ Started /\ UNCHANGED <<heirs, coins, fees, j, fee, paid, tx, built>>
      /\ pc' = "next" /\ error' = why
  BY DEF Basics, GiveUp, inputVars
<1>2. Inputs'
  BY <1>1, InputsStay DEF AmountTypes
<1>3. AmountTypes'
  BY <1>1, <1>2 DEF AmountTypes
<1>4. QED
  BY <1>1, <1>3 DEF Basics, Started, PaidIsListed, ReasonLeft, Dividing

(* PrepareLists keeps it.                                                  *)
LEMMA PrepareListsBasics ==
  ASSUME Basics, PrepareLists
  PROVE  Basics'
<1>1. /\ AmountTypes /\ Started /\ pc = "lists" /\ i' = i + 1
      /\ UNCHANGED <<inputVars, j, fee, tx>> /\ UNCHANGED <<heirs, coins, fees>>
  BY DEF Basics, PrepareLists, inputVars
<1>2. /\ Inputs' /\ Available' = Available /\ Bases' = Bases
      /\ \A b : PercentPaid(b)' = PercentPaid(b)
      /\ \A b, p : FixedPaid(b, p)' = FixedPaid(b, p)
  BY <1>1, InputsStay DEF AmountTypes
<1>3. i' \in 0 .. MaxRounds
  BY <1>1, DustType DEF AmountTypes, Started
<1>4. CASE \E why : why # "none" /\ Raise(why)
  BY <1>1, <1>3, <1>4, RaiseBasics
<1>5. CASE \E why : why # "none" /\ GiveUp(why)
  BY <1>1, <1>3, <1>5, GiveUpBasics DEF Dividing
<1>6. ASSUME ~(Available < 0), NEW base \in Bases, NEW percent \in PercentPaid(base),
             NEW fixed \in FixedPaid(base, percent),
             pc' = "tx", paid' = Listed(fixed, percent), UNCHANGED <<error, built>>
      PROVE  Basics'
  <2> DEFINE listed == Listed(fixed, percent)
  <2>1. j \in 1 .. Len(fees)
    BY <1>1, CoinsType DEF AmountTypes, Started, Dividing
  <2>2. Available \in Int
    BY <1>1, <2>1, CoinsType DEF AmountTypes, Available
  <2>3. Available >= 0
    BY <1>6, <2>2
  <2>4. DOMAIN listed \subseteq DOMAIN heirs /\ listed \in [DOMAIN listed -> Nat]
    BY <1>1, <2>1, <2>3, ListedIs DEF AmountTypes
  <2>5. paid' = listed
    BY <1>6
  <2> HIDE DEF listed
  <2>6. listed \in Paid
    <3>1. DOMAIN heirs \subseteq Names
      BY <1>1 DEF AmountTypes, Inputs
    <3>2. DOMAIN listed \in SUBSET Names
      BY <2>4, <3>1
    <3>3. QED
      BY <2>4, <3>2 DEF Paid
  <2>7. AmountTypes'
    BY <1>1, <1>2, <1>3, <1>6, <2>4, <2>5, <2>6 DEF AmountTypes
  <2>8. Started' /\ ReasonLeft'
    BY <1>1, <1>6 DEF Started, ReasonLeft, Dividing
  <2>9. IsDivision(paid)'
    <3>1. base \in Bases' /\ percent \in PercentPaid(base)' /\ fixed \in FixedPaid(base, percent)'
      BY <1>2
    <3>2. paid' = Listed(fixed, percent)'
      BY <1>6
    <3>3. QED
      BY <3>1, <3>2 DEF IsDivision
  <2>10. QED
    BY <1>2, <2>3, <2>7, <2>8, <2>9 DEF Basics, PaidIsListed
<1>7. CASE Available < 0 \/ Balance < fee \/ Balance < Dust
  BY <1>4, <1>5, <1>7 DEF PrepareLists
<1>8. CASE ~(Available < 0) /\ ~(Balance < fee \/ Balance < Dust)
  <2>1. PICK base \in Bases : \E percent \in PercentPaid(base) :
          \E fixed \in FixedPaid(base, percent) :
            LET listed == Listed(fixed, percent) IN
            IF listed # <<>> /\ \A h \in DOMAIN listed : listed[h] = 0
            THEN Raise("HeirAmountIsDust")
            ELSE IF listed = <<>> /\ fees[j] = 0 THEN GiveUp("NO_FUTURE_DATE")
            ELSE pc' = "tx" /\ paid' = listed /\ UNCHANGED <<error, built>>
    BY <1>8 DEF PrepareLists
  <2>2. PICK percent \in PercentPaid(base) :
          \E fixed \in FixedPaid(base, percent) :
            \/ Raise("HeirAmountIsDust")
            \/ GiveUp("NO_FUTURE_DATE")
            \/ pc' = "tx" /\ paid' = Listed(fixed, percent) /\ UNCHANGED <<error, built>>
    BY <2>1, Zenon
  <2>3. PICK fixed \in FixedPaid(base, percent) :
          \/ Raise("HeirAmountIsDust")
          \/ GiveUp("NO_FUTURE_DATE")
          \/ pc' = "tx" /\ paid' = Listed(fixed, percent) /\ UNCHANGED <<error, built>>
    BY <2>2
  <2>4. CASE Raise("HeirAmountIsDust")
    BY <1>4, <2>4
  <2>5. CASE GiveUp("NO_FUTURE_DATE")
    BY <1>5, <2>5
  <2>6. CASE pc' = "tx" /\ paid' = Listed(fixed, percent) /\ UNCHANGED <<error, built>>
    BY <1>6, <1>8, <2>6
  <2>7. QED
    BY <2>3, <2>4, <2>5, <2>6
<1>9. QED
  BY <1>7, <1>8

(* The transaction of a round: what it takes, pays and gives back.        *)
LEMMA PrepareTransactionsIs ==
  ASSUME Basics, PrepareTransactions, pc' = "fees"
  PROVE  LET value == Sum(paid, DOMAIN paid) + fees[j]
             n == Taken(value + fee)
             change == Payable(Value(n) - (value + fee) - fee) IN
         /\ value \in Nat /\ Sum(paid, DOMAIN paid) \in Nat /\ fees[j] \in Nat
         /\ n \in DOMAIN coins /\ n \in Nat
         /\ Value(n) \in Nat /\ Value(n) >= value + fee
         /\ \A l \in 1 .. n - 1 : Value(l) < value + fee
         /\ tx'.ins = n /\ tx'.value = Value(n) /\ tx'.change = change
         /\ tx'.spent = value + change
         /\ tx'.outs = Cardinality({h \in DOMAIN paid : paid[h] > 0})
                         + Count(fees[j]) + Count(change)
         /\ tx' \in Transactions /\ tx'.spent <= tx'.value
<1> DEFINE value == Sum(paid, DOMAIN paid) + fees[j]
           n == Taken(value + fee)
           change == Payable(Value(n) - (value + fee) - fee)
           winners == {h \in DOMAIN paid : paid[h] > 0}
<1>1. AmountTypes /\ Started /\ pc = "tx"
  BY DEF Basics, PrepareTransactions
<1>2. Inputs /\ Len(coins) > 0 /\ j \in 1 .. Len(fees) /\ fee \in Nat /\ paid \in Paid
  BY <1>1, CoinsType DEF AmountTypes, Started, Dividing
<1>3. fees[j] \in Nat /\ Sum(paid, DOMAIN paid) \in Nat /\ value \in Nat
  BY <1>2, CoinsType, PaidType
<1>4. value + fee \in Nat
  BY <1>2, <1>3
<1>5. /\ n \in DOMAIN coins /\ n \in Nat
      /\ \A l \in 1 .. n - 1 : Value(l) < value + fee
  BY <1>2, <1>4, TakenIs
<1>6. Value(n) \in Nat
  <2>1. n \in 0 .. Len(coins)
    BY <1>2, <1>5, CoinsType
  <2>2. QED
    BY <1>2, <2>1, CoinsType
<1>7. /\ ~(Value(n) < value + fee)
      /\ tx' = [ins |-> n, outs |-> Cardinality(winners) + Count(fees[j]) + Count(change),
                value |-> Value(n), spent |-> value + change, change |-> change]
  BY DEF PrepareTransactions, ChangeOutput
<1>8. Cardinality(winners) \in Nat
  <2>1. IsFiniteSet(DOMAIN paid)
    BY <1>2, PaidType
  <2>2. IsFiniteSet(winners)
    BY <2>1, FS_Subset
  <2>3. QED
    BY <2>2, FS_CardinalityType
<1> HIDE DEF value, n, winners
<1>9. Value(n) - (value + fee) - fee \in Int /\ Value(n) >= value + fee
  BY <1>2, <1>3, <1>6, <1>7
<1>10. /\ change \in Nat
       /\ Value(n) - (value + fee) - fee >= 0 => change <= Value(n) - (value + fee) - fee
       /\ change > 0 => change = Value(n) - (value + fee) - fee
  BY <1>9, PayableType
<1> HIDE DEF change
<1>11. value + change <= Value(n) /\ value + change \in Nat
  BY <1>2, <1>3, <1>6, <1>9, <1>10
<1>12. Count(fees[j]) \in {0, 1} /\ Count(change) \in {0, 1}
  BY <1>3, <1>10, CountType
<1>13. tx' \in Transactions /\ tx'.spent <= tx'.value
  BY <1>5, <1>6, <1>7, <1>8, <1>10, <1>11, <1>12 DEF Transactions
<1>14. QED
  BY <1>3, <1>5, <1>6, <1>7, <1>9, <1>13 DEF value, n, change, winners

(* PrepareTransactions keeps it.                                           *)
LEMMA PrepareTransactionsBasics ==
  ASSUME Basics, PrepareTransactions
  PROVE  Basics'
<1>1. /\ AmountTypes /\ Started /\ pc = "tx"
      /\ UNCHANGED <<heirs, coins, fees, j, i, fee, paid>>
  BY DEF Basics, PrepareTransactions, inputVars
<1>2. Inputs'
  BY <1>1, InputsStay DEF AmountTypes, inputVars
<1>3. CASE pc' = "end" /\ error' = "TX_BUILD_FAILED" /\ built' = <<>> /\ UNCHANGED tx
  <2>1. built' \in Seq(Entries) /\ Len(built') <= j
    BY <1>1, <1>3 DEF AmountTypes
  <2>2. AmountTypes'
    BY <1>1, <1>2, <1>3, <2>1 DEF AmountTypes
  <2>3. QED
    BY <1>3, <2>2 DEF Basics, Started, PaidIsListed, ReasonLeft, Dividing
<1>4. CASE pc' = "fees" /\ UNCHANGED <<error, built>>
  <2>1. tx' \in Transactions /\ tx'.spent <= tx'.value
    BY <1>4, PrepareTransactionsIs
  <2>2. AmountTypes'
    BY <1>1, <1>2, <1>4, <2>1 DEF AmountTypes
  <2>3. QED
    BY <1>1, <1>4, <2>2 DEF Basics, Started, PaidIsListed, ReasonLeft, Dividing
<1>5. QED
  BY <1>3, <1>4 DEF PrepareTransactions

(* Settle keeps it.                                                        *)
LEMMA SettleBasics ==
  ASSUME Basics, Settle
  PROVE  Basics'
<1>1. /\ AmountTypes /\ Started /\ pc = "fees" /\ fee' = Needed(tx)
      /\ UNCHANGED <<heirs, coins, fees, j, i, paid, tx, error>>
  BY DEF Basics, Settle, inputVars
<1>2. Inputs' /\ Inputs
  BY <1>1, InputsStay DEF AmountTypes, inputVars
<1>3. fee' \in Nat
  BY <1>1, NeededType DEF AmountTypes, Transactions
<1>4. CASE i < MaxRounds /\ pc' = "lists" /\ UNCHANGED built
  <2>1. AmountTypes'
    BY <1>1, <1>2, <1>3, <1>4 DEF AmountTypes
  <2>2. QED
    BY <1>1, <1>4, <2>1 DEF Basics, Started, PaidIsListed, ReasonLeft, Dividing
<1>5. CASE /\ pc' = "next"
           /\ built' = Append(built, [tx |-> tx, executor |-> fees[j], paid |-> paid, rounds |-> i])
  <2> DEFINE entry == [tx |-> tx, executor |-> fees[j], paid |-> paid, rounds |-> i]
  <2>1. fees[j] \in Nat
    BY <1>1, <1>2, CoinsType DEF AmountTypes, Started, Dividing
  <2>2. i \in Nat
    BY <1>1, DustType DEF AmountTypes
  <2>3. entry \in Entries
    BY <1>1, <2>1, <2>2 DEF AmountTypes, Entries
  <2> HIDE DEF entry
  <2>4. built' \in Seq(Entries) /\ Len(built') = Len(built) + 1 /\ built' # <<>>
    BY <1>1, <1>5, <2>3 DEF AmountTypes, entry
  <2>5. Len(built) \in Nat /\ Len(built) < j /\ j \in Nat
    BY <1>1, <1>2, CoinsType DEF AmountTypes, Started, Dividing
  <2>6. AmountTypes'
    BY <1>1, <1>2, <1>3, <1>5, <2>4, <2>5 DEF AmountTypes
  <2>7. QED
    BY <1>1, <1>5, <2>4, <2>6 DEF Basics, Started, PaidIsListed, ReasonLeft, Dividing
<1>6. QED
  BY <1>4, <1>5 DEF Settle

(* NoMoreExecutors keeps it.                                               *)
LEMMA NoMoreExecutorsBasics ==
  ASSUME Basics, NoMoreExecutors
  PROVE  Basics'
<1>1. /\ AmountTypes /\ Started /\ ReasonLeft /\ pc = "next" /\ pc' = "rest" /\ j = Len(fees)
      /\ error' = IF fees = <<>> THEN "NO_WILLEXECUTOR_USABLE" ELSE error
      /\ UNCHANGED <<heirs, coins, fees, j, i, fee, paid, tx, built>>
  BY DEF Basics, NoMoreExecutors, inputVars
<1>2. Inputs' /\ Inputs
  BY <1>1, InputsStay DEF AmountTypes, inputVars
<1>3. AmountTypes'
  BY <1>1, <1>2 DEF AmountTypes
<1>4. fees # <<>> => j > 0
  BY <1>1, <1>2, CoinsType
<1>5. Started' /\ PaidIsListed'
  BY <1>1 DEF Started, PaidIsListed, Dividing
<1>6. ReasonLeft'
  BY <1>1, <1>4 DEF ReasonLeft
<1>7. QED
  BY <1>3, <1>5, <1>6 DEF Basics

(* Rest keeps it.                                                          *)
LEMMA RestBasics ==
  ASSUME Basics, Rest
  PROVE  Basics'
<1>1. /\ AmountTypes /\ Started /\ ReasonLeft /\ pc = "rest"
      /\ UNCHANGED <<inputVars, j, fee, tx>> /\ UNCHANGED <<heirs, coins, fees, i>>
      /\ i' \in 0 .. MaxRounds
  BY DEF Basics, Rest, inputVars, AmountTypes
<1>2. CASE Raise("BalanceTooLow")
  BY <1>1, <1>2, RaiseBasics
<1>3. CASE pc' = "end" /\ error' \in {"NO_FUTURE_DATE", error} /\ UNCHANGED <<built, paid>>
  <2>1. Inputs'
    BY <1>1, InputsStay DEF AmountTypes
  <2>2. AmountTypes'
    BY <1>1, <1>3, <2>1 DEF AmountTypes
  <2>3. QED
    BY <1>1, <1>3, <2>2 DEF Basics, Started, PaidIsListed, ReasonLeft, Dividing
<1>4. QED
  BY <1>2, <1>3 DEF Rest

(* Every step keeps it.                                                    *)
LEMMA StepKeepsBasics ==
  ASSUME Basics, [Next]_vars
  PROVE  Basics'
<1>1. CASE UNCHANGED vars
  <2>1. /\ UNCHANGED <<inputVars, j, fee>> /\ Basics
        /\ UNCHANGED <<heirs, coins, fees, pc, j, i, fee, paid, tx, built, error>>
    BY <1>1 DEF vars, inputVars
  <2>2. /\ Inputs' /\ Available' = Available /\ Bases' = Bases
        /\ \A b : PercentPaid(b)' = PercentPaid(b)
        /\ \A b, p : FixedPaid(b, p)' = FixedPaid(b, p)
    BY <2>1, InputsStay DEF Basics, AmountTypes
  <2>3. IsDivision(paid) => IsDivision(paid)'
    <3>1. SUFFICES ASSUME NEW base \in Bases, NEW percent \in PercentPaid(base),
                          NEW fixed \in FixedPaid(base, percent), paid = Listed(fixed, percent)
                   PROVE  IsDivision(paid)'
      BY DEF IsDivision
    <3>2. base \in Bases' /\ percent \in PercentPaid(base)' /\ fixed \in FixedPaid(base, percent)'
      BY <2>2
    <3>3. paid' = Listed(fixed, percent)'
      BY <2>1, <3>1
    <3>4. QED
      BY <3>2, <3>3 DEF IsDivision
  <2>4. QED
    BY <2>1, <2>2, <2>3 DEF Basics, AmountTypes, Started, PaidIsListed, ReasonLeft
<1>2. CASE Next
  BY <1>2, BeginBasics, NextExecutorBasics, PrepareListsBasics, PrepareTransactionsBasics,
     SettleBasics, NoMoreExecutorsBasics, RestBasics DEF Next
<1>3. QED
  BY <1>1, <1>2

(* It holds in every reachable state.                                      *)
LEMMA BasicsAlways == Spec => []Basics
<1>1. Init => Basics
  BY BasicsInit
<1>2. Basics /\ [Next]_vars => Basics'
  BY StepKeepsBasics
<1>3. QED
  BY <1>1, <1>2, PTL DEF Spec

(* A build that ends without a transaction has recorded why.              *)
THEOREM BuildsGiveReasons == Spec => []ReasonGiven
<1>1. Basics => ReasonGiven
  BY DEF Basics, ReasonLeft, ReasonGiven
<1>2. QED
  BY <1>1, BasicsAlways, PTL

(* Everybody is listed with something if the fixed heirs and those with a  *)
(* percentage are.                                                         *)
LEMMA EverybodyListed ==
  ASSUME Inputs, j \in 1 .. Len(fees), fee \in Nat, Available >= 0,
         NEW base \in Bases, NEW percent \in PercentPaid(base),
         NEW fixed \in FixedPaid(base, percent),
         NEW list, list = Listed(fixed, percent)
  PROVE  (\A h \in DOMAIN heirs : h \in DOMAIN list /\ list[h] > 0)
           <=> /\ DOMAIN percent = Percent /\ \A h \in Percent : percent[h] > 0
               /\ \A h \in Fixed : fixed[h] > 0
<1>1. /\ DOMAIN list = Fixed \cup DOMAIN percent
      /\ \A h \in Fixed : list[h] = fixed[h]
      /\ \A h \in DOMAIN percent : list[h] = percent[h]
  BY ListedIs
<1>2. DOMAIN percent \subseteq Percent
  BY PercentFits
<1>3. DOMAIN heirs = Fixed \cup Percent /\ Fixed \cap Percent = {}
  BY HeirsType
<1>4. QED
  BY <1>1, <1>2, <1>3

(* The invariant contains what AllAndNoMore and FixedHeirsKept say.        *)
LEMMA PaidBounds ==
  ASSUME Basics
  PROVE  AllAndNoMore /\ FixedHeirsKept
<1>1. AmountTypes /\ Started /\ PaidIsListed /\ Inputs
  BY DEF Basics, AmountTypes
<1>2. TypeOK
  <2>1. \A h \in DOMAIN paid : paid[h] \in Nat
    BY <1>1, PaidType DEF AmountTypes
  <2>2. tx.change \in Nat
    BY <1>1 DEF AmountTypes, Transactions
  <2>3. QED
    BY <1>1, <2>1, <2>2 DEF AmountTypes, TypeOK
<1>3. ASSUME pc = "tx"
      PROVE  /\ j \in 1 .. Len(fees) /\ fee \in Nat /\ Available >= 0 /\ IsDivision(paid)
             /\ DOMAIN heirs # {}
  BY <1>1, <1>3, CoinsType DEF AmountTypes, Started, PaidIsListed, Dividing
<1>4. ASSUME pc = "tx"
      PROVE  /\ fee + fees[j] + Sum(paid, DOMAIN paid) <= Balance
             /\ Plenty /\ NobodyIsDust =>
                  Available - Sum(paid, DOMAIN paid) <= Cardinality(DOMAIN heirs)
             /\ Plenty /\ (\A h \in Fixed : Amount[h] > Dust) =>
                  \A h \in Fixed : paid[h] >= Amount[h]
  <2>1. PICK base \in Bases : \E percent \in PercentPaid(base) :
          \E fixed \in FixedPaid(base, percent) : paid = Listed(fixed, percent)
    BY <1>3, <1>4 DEF IsDivision
  <2>2. PICK percent \in PercentPaid(base) :
          \E fixed \in FixedPaid(base, percent) : paid = Listed(fixed, percent)
    BY <2>1
  <2>3. PICK fixed \in FixedPaid(base, percent) : paid = Listed(fixed, percent)
    BY <2>2
  <2>4. j \in 1 .. Len(fees) /\ fee \in Nat /\ Available >= 0 /\ DOMAIN heirs # {} /\ Inputs
    BY <1>1, <1>3, <1>4
  <2>5. /\ Sum(paid, DOMAIN paid) = Sum(fixed, Fixed) + Sum(percent, DOMAIN percent)
        /\ Sum(paid, DOMAIN paid) \in Nat /\ Sum(paid, DOMAIN paid) <= Available
        /\ \A h \in Fixed : paid[h] = fixed[h]
    BY <2>3, <2>4, ListedIs
  <2>6. fee + fees[j] + Sum(paid, DOMAIN paid) <= Balance
    <3>1. fees[j] \in Nat /\ fee \in Nat /\ Balance \in Nat /\ Available = Balance - fee - fees[j]
      BY <2>4, CoinsType DEF Available
    <3>2. QED
      BY <2>5, <3>1
  <2>7. ASSUME Plenty, NobodyIsDust
        PROVE  Available - Sum(paid, DOMAIN paid) <= Cardinality(DOMAIN heirs)
    <3>1. /\ DOMAIN percent = Percent /\ \A h \in Percent : percent[h] > 0
          /\ \A h \in Fixed : fixed[h] > 0
      BY <2>3, <2>4, <2>7, EverybodyListed DEF NobodyIsDust
    <3>2. Available - (Sum(fixed, Fixed) + Sum(percent, Percent)) <= Cardinality(DOMAIN heirs)
      BY <2>4, <2>7, <3>1, ListedLeaves
    <3>3. QED
      BY <2>5, <3>1, <3>2
  <2>8. ASSUME Plenty, \A h \in Fixed : Amount[h] > Dust
        PROVE  \A h \in Fixed : paid[h] >= Amount[h]
    <3>1. \A h \in Fixed : fixed[h] >= Amount[h]
      BY <2>4, <2>8, ListedKeepsFixed
    <3>2. QED
      BY <2>5, <3>1
  <2>9. QED
    BY <2>6, <2>7, <2>8
<1>5. QED
  BY <1>2, <1>4 DEF AllAndNoMore, NeverMoreThanThere, Emptied, FixedHeirsKept

(* However often the shares are divided again in prepare_lists, the heirs *)
(* get no more than the wallet holds after the fees; and if the fixed     *)
(* amounts fit and no share is dust, all but a rounding.                  *)
THEOREM HeirsGetAllAndNoMore == Spec => []AllAndNoMore
BY PaidBounds, BasicsAlways, PTL

(* Dividing what is left never gives a fixed heir less than the amount    *)
(* the owner wrote, if the fixed amounts fit and none is dust.            *)
THEOREM FixedAmountsAreKept == Spec => []FixedHeirsKept
BY PaidBounds, BasicsAlways, PTL

-----------------------------------------------------------------------------
(* How many rounds it takes.                                               *)

(* A share of more than two units above the threshold is not dust, however *)
(* it is rounded.                                                          *)
LEMMA EnoughForAShare ==
  ASSUME NEW total \in Nat, total < Precision, NEW written \in Nat \ {0},
         NEW amount \in Nat, amount <= written, total * amount >= (Dust + 2) * written,
         NEW v \in Proportions(total, written, amount)
  PROVE  v \in Nat /\ v > Dust
<1> DEFINE r == written * Precision
           part == total * amount
<1>1. Precision \in Nat \ {0} /\ Precision - 1 \in Nat
  BY AmountsAssumption
<1>2. /\ v \in Nat /\ r \in Nat \ {0}
      /\ (total * (Precision - 1)) * amount + 1 <= r * v + r
  BY ProportionsAre
<1>3. part \in Nat /\ (total * (Precision - 1)) * amount = part * (Precision - 1)
  BY <1>1, ProductType
<1>4. Precision > Dust + 2
  <2>1. part <= total * written
    OBVIOUS
  <2>2. written * (Dust + 2) <= written * total
    <3>1. total * written \in Nat /\ (Dust + 2) * written \in Nat
      BY DustType, ProductType
    <3>2. written * (Dust + 2) = (Dust + 2) * written /\ written * total = total * written
      BY DustType
    <3>3. QED
      BY <1>3, <2>1, <3>1, <3>2
  <2>3. Dust + 2 <= total
    BY <2>2, DustType, Cancels
  <2>4. QED
    BY <1>1, <2>3, DustType
<1> HIDE DEF part
<1>5. part >= (Dust + 2) * written
  BY DEF part
<1>6. ((Dust + 2) * written) * (Precision - 1) <= part * (Precision - 1)
  <2>1. (Dust + 2) * written \in Nat
    BY DustType, ProductType
  <2>2. QED
    BY <1>1, <1>3, <1>5, <2>1
<1>7. r * (Dust + 1) < r * (v + 1)
  <2> DEFINE e == Dust + 2
  <2>1. e \in Nat /\ Precision - e \in Nat
    BY <1>1, <1>4, DustType
  <2> HIDE DEF e
  <2>2. (e * written) * (Precision - 1) = r * (e - 1) + written * (Precision - e)
    <3>1. (e * written) * (Precision - 1) = e * r - e * written
      BY <1>1, <2>1
    <3>2. r * (e - 1) = e * r - r
      BY <1>2, <2>1
    <3>3. written * (Precision - e) = r - e * written
      BY <1>1, <2>1
    <3>4. e * r \in Int /\ e * written \in Int
      BY <1>2, <2>1
    <3>5. QED
      BY <1>2, <3>1, <3>2, <3>3, <3>4
  <2>3. written * (Precision - e) \in Nat /\ r * (e - 1) \in Int
    BY <1>2, <2>1, ProductType
  <2>4. (e * written) * (Precision - 1) <= part * (Precision - 1)
    BY <1>6 DEF e
  <2>5. part * (Precision - 1) \in Nat /\ r * v \in Nat
    BY <1>1, <1>2, <1>3, ProductType
  <2>6. part * (Precision - 1) + 1 <= r * v + r
    BY <1>2, <1>3
  <2> HIDE DEF r
  <2>7. r * (e - 1) < r * v + r
    BY <1>2, <2>2, <2>3, <2>4, <2>5, <2>6
  <2>8. e - 1 = Dust + 1 /\ r * (v + 1) = r * v + r
    BY <1>2, DustType DEF e
  <2>9. QED
    BY <2>7, <2>8
<1> HIDE DEF r
<1>8. Dust + 1 < v + 1
  BY <1>2, <1>7, DustType, Cancels
<1>9. QED
  BY <1>2, <1>8, DustType

(* In an ample wallet every share is paid after any fee up to the largest.*)
LEMMA AmpleIs ==
  ASSUME Inputs, j \in 1 .. Len(fees), fee \in Nat, fee <= LargestFee, Ample(fees[j])
  PROVE  /\ Available \in Nat /\ Available < Precision /\ Plenty
         /\ \A base \in Bases : \A percent \in PercentPaid(base) :
              \A fixed \in FixedPaid(base, percent) :
                /\ DOMAIN percent = Percent /\ \A h \in Percent : percent[h] > 0
                /\ \A h \in Fixed : fixed[h] > 0
<1> DEFINE rest == Balance - LargestFee - fees[j] - FixedAmount
           written == Sum(Amount, Percent)
<1>1. /\ rest >= 0 /\ \A h \in Fixed : Amount[h] > Dust
      /\ \A h \in Percent : rest * Amount[h] >= (Dust + 2) * written
  BY DEF Ample
<1>2. Balance \in Nat /\ fees[j] \in Nat /\ Balance < Precision /\ Precision \in Nat
  BY CoinsType, AmountsAssumption
<1>3. LargestFee \in Nat
  <2>1. Cardinality(DOMAIN heirs) \in Nat /\ Len(coins) \in Nat
    BY HeirsType, CoinsType, FS_CardinalityType
  <2>2. QED
    BY <2>1, NeededType DEF LargestFee
<1>4. {h \in Fixed : Amount[h] > Dust} = Fixed
  BY <1>1
<1>5. Fixed \in SUBSET DOMAIN heirs /\ Percent \in SUBSET DOMAIN heirs
  BY HeirsType
<1>6. FixedAmount = Sum(Amount, Fixed) /\ FixedAmount \in Nat
  BY <1>4, <1>5, AmountsAddUp DEF FixedAmount
<1>7. /\ Available \in Nat /\ Available < Precision
      /\ rest \in Nat /\ Available - FixedAmount >= rest /\ Plenty
  BY <1>1, <1>2, <1>3, <1>6 DEF Available, Plenty
<1>8. \A h \in DOMAIN heirs : Amount[h] \in Nat \ {0}
  BY HeirsType
<1>9. ASSUME NEW base \in Bases, NEW percent \in PercentPaid(base),
             NEW fixed \in FixedPaid(base, percent)
      PROVE  /\ DOMAIN percent = Percent /\ \A h \in Percent : percent[h] > 0
             /\ \A h \in Fixed : fixed[h] > 0
  <2> DEFINE first == Sum(FixedFirst(base), Fixed)
             total == Available - first
  <2>1. \A h \in Fixed : fixed[h] >= Amount[h] /\ fixed[h] \in Nat
    <3>1. \A h \in Fixed : fixed[h] >= Amount[h]
      BY <1>1, <1>7, ListedKeepsFixed
    <3>2. fixed \in [Fixed -> Nat]
      BY <1>7, FixedFits
    <3>3. QED
      BY <3>1, <3>2
  <2>2. first = FixedAmount
    <3>1. ~Scarce
      BY <1>6, <1>7 DEF Plenty, Scarce
    <3>2. \A h \in Fixed : base[h] = Amount[h]
      BY <3>1 DEF Bases
    <3>3. \A h \in Fixed : FixedFirst(base)[h] = Amount[h]
      BY <1>1, <3>2 DEF FixedFirst, Payable
    <3>4. QED
      BY <1>6, <3>3, HeirsType, SumAgrees
  <2>3. total \in Nat /\ total >= rest /\ total < Precision
    BY <1>2, <1>6, <1>7, <2>2
  <2>4. percent \in Normalized(IF total > 0 THEN Percent ELSE {}, total, written, Amount)
    BY DEF PercentPaid
  <2> HIDE DEF total, first, rest
  <2>5. ASSUME NEW h \in Percent
        PROVE  /\ total > 0 /\ written \in Nat \ {0} /\ Amount[h] <= written
               /\ total * Amount[h] >= (Dust + 2) * written
    <3> DEFINE a == Amount[h]
    <3>1. a \in Nat \ {0} /\ written \in Nat \ {0} /\ a <= written
      <4>1. written \in Nat \ {0} /\ a \in Nat \ {0}
        BY <1>5, <1>8, AmountsAddUp
      <4>2. Sum(Amount, {h}) <= written
        BY <1>5, AmountsAddUp
      <4>3. Sum(Amount, {h}) = a
        BY <4>1, SumOfOne
      <4>4. QED
        BY <4>1, <4>2, <4>3
    <3>2. rest * a >= (Dust + 2) * written
      BY <1>1
    <3> HIDE DEF a, written
    <3>3. rest * a <= total * a /\ rest * a \in Nat /\ total * a \in Nat
      BY <1>7, <2>3, <3>1, ProductType
    <3>4. (Dust + 2) * written \in Nat /\ (Dust + 2) * written > 0
      BY <3>1, DustType
    <3>5. total * a >= (Dust + 2) * written
      BY <3>2, <3>3, <3>4
    <3>6. total > 0
      <4>1. total = 0 => total * a = 0
        BY <3>1
      <4>2. QED
        BY <2>3, <3>3, <3>4, <3>5, <4>1
    <3>7. QED
      BY <3>1, <3>5, <3>6 DEF a
  <2> HIDE DEF written
  <2>6. DOMAIN percent = Percent
    BY <2>4, <2>5 DEF Normalized
  <2>7. ASSUME NEW h \in Percent PROVE percent[h] > 0
    <3>1. percent \in Normalized(Percent, total, written, Amount)
      BY <2>4, <2>5
    <3>2. PICK v \in Proportions(total, written, Amount[h]) : percent[h] = Payable(v)
      BY <3>1, ShareIs
    <3>3. v \in Nat /\ v > Dust
      <4>1. Amount[h] \in Nat
        BY <1>5, <1>8
      <4>2. QED
        BY <2>3, <2>5, <4>1, EnoughForAShare
    <3>4. QED
      BY <3>2, <3>3, DustType DEF Payable
  <2>8. QED
    BY <1>1, <1>5, <1>8, <2>1, <2>6, <2>7, DustType
<1>10. QED
  BY <1>7, <1>9

(* Leaving coins out leaves out what they are worth.                      *)
LEMMA CoinsLeftOut ==
  ASSUME Inputs, NEW n \in Nat, n < Len(coins)
  PROVE  Value(n) + coins[n + 1] <= Balance
<1>1. Len(coins) \in Nat /\ DOMAIN coins = 1 .. Len(coins)
  BY CoinsType
<1> DEFINE S == 1 .. n
           y == n + 1
           R == n + 2 .. Len(coins)
<1>2. /\ IsFiniteSet(S) /\ IsFiniteSet(S \cup {y}) /\ IsFiniteSet(R)
      /\ y \notin S /\ (S \cup {y}) \cap R = {} /\ (S \cup {y}) \cup R = DOMAIN coins
  <2>1. IsFiniteSet(S) /\ IsFiniteSet(R)
    BY <1>1, FS_Interval
  <2>2. IsFiniteSet(S \cup {y})
    BY <2>1, FS_AddElement
  <2>3. y \notin S /\ (S \cup {y}) \cap R = {} /\ (S \cup {y}) \cup R = DOMAIN coins
    BY <1>1
  <2>4. QED
    BY <2>1, <2>2, <2>3
<1>3. \A k \in (S \cup {y}) \cup R : coins[k] \in Nat
  <2>1. \A k \in DOMAIN coins : coins[k] \in Nat
    BY CoinsType
  <2>2. QED
    BY <1>2, <2>1
<1> HIDE DEF S, R, y
<1>4. Sum(coins, (S \cup {y}) \cup R) = Sum(coins, S \cup {y}) + Sum(coins, R)
  <2>1. \A k \in (S \cup {y}) \cup R : coins[k] \in Int
    BY <1>3
  <2>2. QED
    BY <1>2, <2>1, SumUnion
<1>5. Sum(coins, S \cup {y}) = coins[y] + Sum(coins, S)
  <2>1. coins[y] \in Int /\ \A k \in S : coins[k] \in Int
    BY <1>3
  <2>2. QED
    BY <1>2, <2>1, SumAdd
<1>6. Sum(coins, R) \in Nat /\ Sum(coins, S) \in Nat /\ coins[y] \in Nat
  <2>1. (\A k \in R : coins[k] \in Nat) /\ (\A k \in S : coins[k] \in Nat) /\ coins[y] \in Nat
    BY <1>3
  <2>2. QED
    BY <1>2, <2>1, SumIsNatural
<1>7. Balance = Sum(coins, (S \cup {y}) \cup R) /\ Value(n) = Sum(coins, S)
  BY <1>2 DEF Balance, Value, S
<1>8. QED
  BY <1>4, <1>5, <1>6, <1>7 DEF y

(* The rounds of an ample wallet: every coin is taken, everybody is paid, *)
(* nothing is given back, and what is left is the fee and less than dust. *)
LEMMA AmpleRound ==
  ASSUME Basics, Settling, PrepareTransactions, pc' = "fees", Ample(fees[j])
  PROVE  /\ Needed(tx') = FullFee(fees[j]) /\ tx'.value = Balance
         /\ fee <= tx'.value - tx'.spent /\ tx'.value - tx'.spent <= fee + Dust
<1> DEFINE value == Sum(paid, DOMAIN paid) + fees[j]
           n == Taken(value + fee)
           change == Payable(Value(n) - (value + fee) - fee)
           left == Available - Sum(paid, DOMAIN paid)
           size == Cardinality(DOMAIN heirs)
           winners == {h \in DOMAIN paid : paid[h] > 0}
<1>1. AmountTypes /\ Started /\ PaidIsListed /\ pc = "tx" /\ Inputs
  BY DEF Basics, PrepareTransactions, AmountTypes
<1>2. /\ j \in 1 .. Len(fees) /\ fee \in Nat /\ DOMAIN heirs # {} /\ Len(coins) > 0
      /\ Available >= 0 /\ IsDivision(paid)
  BY <1>1, CoinsType DEF AmountTypes, Started, PaidIsListed, Dividing
<1>3. size \in Nat /\ size <= Dust /\ \A k \in DOMAIN coins : coins[k] > size
  BY <1>1, HeirsType, FS_CardinalityType DEF Ample
<1>4. fees[j] \in Nat /\ Count(fees[j]) \in {0, 1} /\ Balance \in Nat /\ Len(coins) \in Nat
  BY <1>1, <1>2, CoinsType, CountType
<1>5. fee <= LargestFee
  <2> DEFINE few == 1 + Len(coins) + (size + Count(fees[j]))
             many == 1 + Len(coins) + (size + 2)
  <2>1. few \in Nat /\ many \in Nat /\ few <= many
    BY <1>3, <1>4
  <2>2. FullFee(fees[j]) = FeeRate * few /\ LargestFee = FeeRate * many
    BY DEF FullFee, LargestFee, Needed
  <2> HIDE DEF few, many
  <2>3. FullFee(fees[j]) <= LargestFee /\ 0 <= LargestFee
    BY <2>1, <2>2, DustType
  <2>4. fee \in {0, FullFee(fees[j])}
    BY <1>1 DEF Settling, Dividing
  <2>5. QED
    BY <2>3, <2>4
<1>6. Available \in Nat /\ Plenty /\ NobodyIsDust
  <2>1. PICK base \in Bases : \E percent \in PercentPaid(base) :
          \E fixed \in FixedPaid(base, percent) : paid = Listed(fixed, percent)
    BY <1>2 DEF IsDivision
  <2>2. PICK percent \in PercentPaid(base) :
          \E fixed \in FixedPaid(base, percent) : paid = Listed(fixed, percent)
    BY <2>1
  <2>3. PICK fixed \in FixedPaid(base, percent) : paid = Listed(fixed, percent)
    BY <2>2
  <2>4. /\ Available \in Nat /\ Plenty
        /\ DOMAIN percent = Percent /\ \A h \in Percent : percent[h] > 0
        /\ \A h \in Fixed : fixed[h] > 0
    BY <1>1, <1>2, <1>5, AmpleIs
  <2>5. \A h \in DOMAIN heirs : h \in DOMAIN paid /\ paid[h] > 0
    BY <1>1, <1>2, <2>3, <2>4, EverybodyListed
  <2>6. QED
    BY <2>4, <2>5 DEF NobodyIsDust
<1>7. Sum(paid, DOMAIN paid) \in Nat /\ left \in Nat /\ left <= size
  <2>1. NeverMoreThanThere /\ Emptied
    BY PaidBounds DEF AllAndNoMore
  <2>2. left <= size
    BY <1>1, <1>6, <2>1 DEF Emptied
  <2>3. Sum(paid, DOMAIN paid) \in Nat
    BY <1>1, PaidType DEF AmountTypes
  <2>4. fee + fees[j] + Sum(paid, DOMAIN paid) <= Balance
    BY <1>1, <2>1 DEF NeverMoreThanThere
  <2>5. Available = Balance - fee - fees[j]
    BY DEF Available
  <2>6. left \in Nat
    BY <1>2, <1>4, <1>6, <2>3, <2>4, <2>5
  <2>7. QED
    BY <2>2, <2>3, <2>6
<1>8. /\ value \in Nat /\ n \in DOMAIN coins /\ n \in Nat
      /\ Value(n) \in Nat /\ Value(n) >= value + fee
      /\ tx'.ins = n /\ tx'.value = Value(n)
      /\ tx'.spent = value + change
      /\ tx'.outs = Cardinality(winners) + Count(fees[j]) + Count(change)
  BY PrepareTransactionsIs
<1>9. value + fee = Balance - left
  BY <1>2, <1>4, <1>6, <1>7 DEF Available
<1>10. winners = DOMAIN heirs
  BY <1>1, <1>6 DEF AmountTypes, NobodyIsDust
<1> HIDE DEF left, n, value, winners, size
<1>11. n = Len(coins)
  <2>1. n <= Len(coins)
    <3>1. DOMAIN coins = 1 .. Len(coins)
      BY <1>1, CoinsType
    <3>2. QED
      BY <1>8, <3>1
  <2>2. ASSUME n < Len(coins) PROVE FALSE
    <3>1. Value(n) + coins[n + 1] <= Balance
      BY <1>1, <1>8, <2>2, CoinsLeftOut
    <3>2. n + 1 \in DOMAIN coins
      <4>1. DOMAIN coins = 1 .. Len(coins)
        BY <1>1, CoinsType
      <4>2. QED
        BY <1>4, <1>8, <2>2, <4>1
    <3>3. coins[n + 1] \in Nat /\ coins[n + 1] > size
      BY <1>1, <1>3, <3>2, CoinsType
    <3>4. QED
      BY <1>3, <1>4, <1>7, <1>8, <1>9, <3>1, <3>3
  <2>3. QED
    BY <1>4, <1>8, <2>1, <2>2
<1>12. Value(n) = Balance
  <2>1. DOMAIN coins = 1 .. Len(coins)
    BY <1>1, CoinsType
  <2>2. QED
    BY <1>11, <2>1 DEF Value, Balance
<1>13. change = 0
  <2>1. Value(n) - (value + fee) - fee = left - fee
    BY <1>2, <1>4, <1>7, <1>9, <1>12
  <2>2. left - fee <= Dust /\ left - fee \in Int
    BY <1>2, <1>3, <1>7, DustType
  <2>3. QED
    BY <2>1, <2>2, DustType DEF Payable
<1>14. tx'.outs = size + Count(fees[j]) /\ tx'.spent = value
  <2>1. Count(change) = 0
    BY <1>13 DEF Count
  <2> HIDE DEF change
  <2>2. QED
    BY <1>3, <1>4, <1>8, <1>10, <1>13, <2>1 DEF size
<1>15. Needed(tx') = FullFee(fees[j])
  BY <1>8, <1>11, <1>14 DEF Needed, FullFee, size
<1>16. tx'.value - tx'.spent = fee + left
  BY <1>2, <1>4, <1>7, <1>8, <1>9, <1>12, <1>14
<1>17. QED
  BY <1>2, <1>3, <1>7, <1>8, <1>12, <1>15, <1>16, DustType

(* A transaction that was built stays as it was built.                     *)
LEMMA OldEntriesStay ==
  ASSUME Settles, UNCHANGED inputVars, UNCHANGED built \/ built' = <<>>
  PROVE  Settles'
<1>1. /\ \A e : Ample(e)' <=> Ample(e)
      /\ \A t : Needed(t)' = Needed(t)
  BY InputsStay
<1>2. CASE UNCHANGED built
  BY <1>1, <1>2 DEF Settles
<1>3. CASE built' = <<>>
  BY <1>3 DEF Settles
<1>4. QED
  BY <1>2, <1>3

(* A round of an ample wallet that ends the executor is the second at      *)
(* most, and its transaction pays the fee it needs.                        *)
LEMMA SettleSettles ==
  ASSUME Basics, Settling, Settles, Settle
  PROVE  Settling' /\ Settles'
<1>1. /\ AmountTypes /\ Started /\ Inputs /\ pc = "fees" /\ fee' = Needed(tx)
      /\ UNCHANGED inputVars /\ UNCHANGED <<j, i, paid, tx, error>> /\ fees' = fees
  BY DEF Basics, AmountTypes, Settle, inputVars
<1>2. /\ Balance' = Balance /\ \A e : Ample(e)' <=> Ample(e)
      /\ \A e : FullFee(e)' = FullFee(e)
      /\ \A t : Needed(t)' = Needed(t)
  BY <1>1, InputsStay
<1>3. Needed(tx) \in Nat /\ Balance \in Nat /\ tx.value \in Nat /\ tx.spent \in Nat /\ i \in Nat
  <2>1. tx.ins \in Nat /\ tx.outs \in Nat /\ tx.value \in Nat /\ tx.spent \in Nat
    BY <1>1 DEF AmountTypes, Transactions
  <2>2. i \in 0 .. MaxRounds
    BY <1>1 DEF AmountTypes
  <2>3. i \in Nat
    BY <2>2, DustType
  <2>4. QED
    BY <1>1, <2>1, <2>3, NeededType, CoinsType
<1>4. ASSUME Ample(fees[j])
      PROVE  /\ i = 1 \/ (i = 2 /\ fee = Needed(tx))
             /\ Needed(tx) = FullFee(fees[j]) /\ tx.value = Balance
             /\ fee <= tx.value - tx.spent /\ tx.value - tx.spent <= fee + Dust
  <2>1. pc = "fees" /\ pc \in Dividing
    BY <1>1 DEF Dividing
  <2>2. /\ \/ i = 1 /\ fee = 0
           \/ i = 2 /\ fee = FullFee(fees[j])
        /\ Needed(tx) = FullFee(fees[j]) /\ tx.value = Balance
        /\ fee <= tx.value - tx.spent /\ tx.value - tx.spent <= fee + Dust
    BY <1>4, <2>1 DEF Settling
  <2>3. QED
    BY <2>2
<1> DEFINE redo == \/ tx.value - tx.spent < Needed(tx)
                   \/ tx.value - tx.spent > Needed(tx) + Dust
                   \/ Balance - tx.value > Dust
<1>5. CASE redo /\ pc' = "lists" /\ UNCHANGED built
  <2>1. ASSUME Ample(fees[j]) PROVE i = 1
    <3>1. Balance - tx.value <= Dust
      BY <1>3, <1>4, <2>1, DustType
    <3>2. ASSUME fee = Needed(tx) PROVE FALSE
      BY <1>3, <1>4, <1>5, <2>1, <3>1, <3>2, DustType
    <3>3. QED
      BY <1>4, <2>1, <3>2
  <2>2. Settling'
    BY <1>1, <1>2, <1>4, <1>5, <2>1 DEF Settling, Dividing
  <2>3. QED
    BY <1>1, <1>5, <2>2, OldEntriesStay
<1>6. CASE /\ ~redo \/ i >= MaxRounds
           /\ built' = Append(built, [tx |-> tx, executor |-> fees[j], paid |-> paid, rounds |-> i])
           /\ pc' = "next"
  <2> DEFINE entry == [tx |-> tx, executor |-> fees[j], paid |-> paid, rounds |-> i]
  <2>1. ASSUME Ample(fees[j]) PROVE i <= 2 /\ tx.value - tx.spent >= Needed(tx)
    <3>1. i <= 2
      BY <1>4, <2>1
    <3>2. CASE ~redo
      <4>1. ~(tx.value - tx.spent < Needed(tx))
        BY <3>2
      <4>2. QED
        BY <1>3, <3>1, <4>1
    <3>3. CASE i >= MaxRounds
      <4>1. i = 2 /\ fee = Needed(tx)
        BY <1>3, <1>4, <2>1, <3>3, DustType
      <4>2. QED
        BY <1>3, <1>4, <2>1, <4>1
    <3>4. QED
      BY <1>6, <3>1, <3>2, <3>3
  <2>2. built \in Seq(Entries)
    BY <1>1 DEF AmountTypes
  <2> HIDE DEF redo
  <2>3. /\ \A k \in DOMAIN built' : (k \in DOMAIN built /\ built'[k] = built[k]) \/ built'[k] = entry
    BY <1>6, <2>2
  <2>4. Settling'
    BY <1>6 DEF Settling, Dividing
  <2>5. ASSUME NEW k \in DOMAIN built', Ample(built'[k].executor)
        PROVE  /\ built'[k].rounds <= 2
               /\ built'[k].tx.value - built'[k].tx.spent >= Needed(built'[k].tx)
    <3>1. CASE k \in DOMAIN built /\ built'[k] = built[k]
      BY <2>5, <3>1 DEF Settles
    <3>2. CASE built'[k] = entry
      <4>1. /\ built'[k].tx = tx /\ built'[k].executor = fees[j] /\ built'[k].rounds = i
        BY <3>2
      <4>2. QED
        BY <2>1, <2>5, <4>1
    <3>3. QED
      BY <2>3, <3>1, <3>2
  <2>6. Settles'
    BY <1>2, <2>5 DEF Settles
  <2>7. QED
    BY <2>4, <2>6
<1>7. QED
  BY <1>5, <1>6 DEF Settle

(* Every step keeps the rounds of an ample wallet settling.                *)
LEMMA StepSettles ==
  ASSUME Basics, Settling, Settles, [Next]_vars
  PROVE  Settling' /\ Settles'
<1>1. CASE UNCHANGED vars
  <2>1. /\ UNCHANGED inputVars /\ UNCHANGED <<heirs, coins, fees, pc, j, i, fee, paid, tx, built, error>>
    BY <1>1 DEF vars, inputVars
  <2>2. /\ Balance' = Balance /\ \A e : Ample(e)' <=> Ample(e)
        /\ \A e : FullFee(e)' = FullFee(e) /\ \A t : Needed(t)' = Needed(t)
    BY <2>1, InputsStay
  <2>3. Settling'
    BY <2>1, <2>2 DEF Settling
  <2>4. QED
    BY <2>1, <2>3, OldEntriesStay
<1>2. CASE Begin \/ NoMoreExecutors \/ Rest
  <2>1. pc' \notin Dividing /\ UNCHANGED inputVars /\ (UNCHANGED built \/ built' = <<>>)
    BY <1>2 DEF Begin, NoMoreExecutors, Rest, Raise, Dividing
  <2>2. QED
    BY <2>1, OldEntriesStay DEF Settling
<1>3. CASE NextExecutor
  <2>1. pc' = "lists" /\ i' = 0 /\ fee' = 0 /\ UNCHANGED inputVars /\ UNCHANGED built
    BY <1>3 DEF NextExecutor
  <2>2. QED
    BY <2>1, OldEntriesStay DEF Settling
<1>4. CASE PrepareLists
  <2>1. /\ pc = "lists" /\ i' = i + 1 /\ UNCHANGED inputVars /\ UNCHANGED <<j, fee, tx>>
        /\ pc' \in {"end", "next", "tx"} /\ (UNCHANGED built \/ built' = <<>>) /\ fees' = fees
    BY <1>4 DEF PrepareLists, Raise, GiveUp, inputVars
  <2>2. /\ \A e : Ample(e)' <=> Ample(e)
        /\ \A e : FullFee(e)' = FullFee(e)
    BY <2>1, InputsStay
  <2>3. Settling'
    BY <2>1, <2>2 DEF Settling, Dividing
  <2>4. QED
    BY <2>1, <2>3, OldEntriesStay
<1>5. CASE PrepareTransactions
  <2>1. /\ pc = "tx" /\ pc' \in {"end", "fees"} /\ UNCHANGED inputVars /\ UNCHANGED <<j, i, fee, paid>>
        /\ (UNCHANGED built \/ built' = <<>>) /\ fees' = fees
    BY <1>5 DEF PrepareTransactions, inputVars
  <2>2. /\ Balance' = Balance /\ \A e : Ample(e)' <=> Ample(e)
        /\ \A e : FullFee(e)' = FullFee(e) /\ \A t : Needed(t)' = Needed(t)
    BY <2>1, InputsStay
  <2>3. ASSUME pc' = "fees", Ample(fees[j])
        PROVE  /\ Needed(tx') = FullFee(fees[j]) /\ tx'.value = Balance
               /\ fee <= tx'.value - tx'.spent /\ tx'.value - tx'.spent <= fee + Dust
    BY <1>5, <2>3, AmpleRound
  <2>4. Settling'
    BY <2>1, <2>2, <2>3 DEF Settling, Dividing
  <2>5. QED
    BY <2>1, <2>4, OldEntriesStay
<1>6. CASE Settle
  BY <1>6, SettleSettles
<1>7. QED
  BY <1>1, <1>2, <1>3, <1>4, <1>5, <1>6 DEF Next

(* In an ample wallet buildTransactions settles in its second round, and  *)
(* the fee fits the transaction.                                          *)
THEOREM RoundsSettle == Spec => []Settles
<1>1. Init => Basics /\ Settling /\ Settles
  <2>1. ASSUME Init PROVE Settling /\ Settles
    BY <2>1 DEF Init, Settling, Settles, Dividing
  <2>2. QED
    BY <2>1, BasicsInit
<1>2. Basics /\ Settling /\ Settles /\ [Next]_vars => (Basics /\ Settling /\ Settles)'
  BY StepKeepsBasics, StepSettles
<1>3. QED
  BY <1>1, <1>2, PTL DEF Spec
================================================================================

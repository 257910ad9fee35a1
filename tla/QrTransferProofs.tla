-------------------------- MODULE QrTransferProofs --------------------------
(***************************************************************************)
(* The receivers of QR codes, for every set of wills, formats and sizes,   *)
(* every number of parts, every choice of the fragments of mixed parts and *)
(* every bound: the import page is in order, the fountain decoder is       *)
(* sound, and only the formats without a digest can mix two wills.         *)
(*                                                                         *)
(* The recursive functions of Fountain are followed step by step: what     *)
(* holds at the first step and is kept by each one holds at the last, for  *)
(* otherwise there were a first step at which it does not.                 *)
(*                                                                         *)
(* The decoder (DecoderInv).  Let F be the sets of fragments that are the  *)
(* exclusive or of some of the parts taken so far.  All the decoder has is *)
(* an item of a set of F: its data is the exclusive or of its fragments.   *)
(* F grows at most twofold with a part, so n single fragments need n       *)
(* different parts, which is why the slots are enough when the decoder is  *)
(* done.  The loop of _receive stops: after its first turn, what is queued *)
(* and what is mixed together becomes fewer at every turn.                 *)
(*                                                                         *)
(* The session (Good).  Its parts are of one total and header, and the set *)
(* R of the numbers it has taken is what the slots of the import page are  *)
(* (Receiving).                                                            *)
(***************************************************************************)
EXTENDS QrTransfer, FiniteSetTheorems, WellFoundedInduction, TLAPS

(* A set of numbers has a least one.                                       *)
LEMMA LeastNatural ==
  ASSUME NEW S, S \subseteq Nat, S # {}
  PROVE  \E m \in S : \A k \in S : m <= k
<1> DEFINE R == OpToRel(<, Nat)
<1>1. IsWellFoundedOn(R, Nat)
  BY NatLessThanWellFounded
<1>2. ASSUME NEW x \in Nat, NEW y \in Nat, ~(<<y, x>> \in R) PROVE x <= y
  <2>1. ~(y < x)
    BY <1>2 DEF OpToRel
  <2>2. QED
    BY <2>1
<1> HIDE DEF R
<1>3. PICK x \in S : \A y \in S : ~(<<y, x>> \in R)
  BY <1>1, WFMin
<1>4. \A y \in S : x <= y
  BY <1>2, <1>3
<1>5. QED
  BY <1>4

(* Of the subsets of a finite set, those with a property include a         *)
(* smallest one.                                                           *)
LEMMA SmallestSet ==
  ASSUME NEW S, IsFiniteSet(S), NEW F, F \subseteq SUBSET S, F # {}
  PROVE  \E T \in F : \A U \in F : U \subseteq T => U = T
<1>1. IsWellFoundedOn(StrictSubsetOrdering(S), SUBSET S)
  BY FS_StrictSubsetOrderingWellFounded, FS_FiniteSubsetsOfFinite
<1>2. PICK T \in F : \A U \in F : ~(<<U, T>> \in StrictSubsetOrdering(S))
  BY <1>1, WFMin
<1>3. ASSUME NEW U \in F, U \subseteq T PROVE U = T
  BY <1>2, <1>3 DEF StrictSubsetOrdering
<1>4. QED
  BY <1>3

(* f is given step by step, from x, by the functions of G.                 *)
Runs(f, D, x, N, G) ==
  f \in [0 .. N -> D] /\ f[0] = x /\ \A k \in 1 .. N : f[k] = G[k][f[k - 1]]

(* Such a function exists.                                                 *)
LEMMA StepsExist ==
  ASSUME NEW D, NEW x \in D, NEW N \in Nat, NEW G,
         \A k \in 1 .. N : \A y \in D : G[k][y] \in D
  PROVE  \E f : Runs(f, D, x, N, G)
<1> DEFINE Steps(K) == {f \in [0 .. K -> D] :
                          f[0] = x /\ \A k \in 1 .. K : f[k] = G[k][f[k - 1]]}
           Bad == {K \in 0 .. N : Steps(K) = {}}
<1>1. CASE Bad = {}
  BY <1>1 DEF Runs
<1>2. CASE Bad # {}
  <2>1. Bad \subseteq Nat
    OBVIOUS
  <2>2. PICK m \in Bad : \A K \in Bad : m <= K
    <3> HIDE DEF Bad
    <3> QED
      BY <1>2, <2>1, LeastNatural
  <2>3. m \in 0 .. N /\ Steps(m) = {}
    OBVIOUS
  <2>4. m # 0
    <3>1. [k \in 0 .. 0 |-> x] \in Steps(0)
      OBVIOUS
    <3>2. QED
      BY <2>3, <3>1
  <2>5. m - 1 \in 0 .. N /\ ~(m <= m - 1)
    BY <2>3, <2>4
  <2>6. Steps(m - 1) # {}
    BY <2>2, <2>5
  <2>7. PICK f \in [0 .. m - 1 -> D] : f[0] = x /\ \A k \in 1 .. m - 1 : f[k] = G[k][f[k - 1]]
    BY <2>6
  <2> DEFINE g == [k \in 0 .. m |-> IF k = m THEN G[m][f[m - 1]] ELSE f[k]]
  <2>8. m - 1 \in 0 .. m - 1 /\ m \in 1 .. N
    BY <2>3, <2>4
  <2>9. g \in [0 .. m -> D]
    <3>1. G[m][f[m - 1]] \in D
      BY <2>7, <2>8
    <3>2. \A k \in 0 .. m : k # m => f[k] \in D
      BY <2>3, <2>7
    <3>3. QED
      BY <3>1, <3>2
  <2>10. g[0] = x
    BY <2>3, <2>4, <2>7
  <2>11. ASSUME NEW k \in 1 .. m PROVE g[k] = G[k][g[k - 1]]
    <3>1. g[k - 1] = f[k - 1]
      BY <2>3, <2>11
    <3>2. CASE k = m
      BY <2>3, <3>1, <3>2
    <3>3. CASE k # m
      <4>1. k \in 1 .. m - 1 /\ g[k] = f[k]
        BY <2>3, <3>3
      <4>2. QED
        BY <2>7, <3>1, <4>1
    <3>4. QED
      BY <3>2, <3>3
  <2>12. g \in Steps(m)
    <3> HIDE DEF g
    <3> QED
      BY <2>9, <2>10, <2>11
  <2>13. QED
    BY <2>3, <2>12
<1>3. QED
  BY <1>1, <1>2

-----------------------------------------------------------------------------
(* The decoder.                                                            *)

(* Sets of fragments that can be computed from one another.                *)
Closed(F, n) ==
  /\ F \subseteq SUBSET Fragments(n)
  /\ {} \in F
  /\ \A a, b \in F : Xor(a, b) \in F

(* The items of transfer t for such sets: their data is what it should be. *)
Items(F, t) == {Item(S, Mix(t, S)) : S \in F \ {{}}}

SimpleItems(F, t) == {x \in Items(F, t) : IsSimple(x)}

Decoders(F, t) ==
  [simple : SUBSET SimpleItems(F, t), mixed : Seq(Items(F, t)), queue : Seq(Items(F, t))]

(* A transfer of n fragments has n of them.                                *)
LEMMA FragmentsFinite ==
  ASSUME NEW n \in Nat
  PROVE  IsFiniteSet(Fragments(n)) /\ Cardinality(Fragments(n)) = n
<1>1. 0 \in Int /\ n - 1 \in Int
  OBVIOUS
<1>2. IsFiniteSet(0 .. n - 1) /\ Cardinality(0 .. n - 1) = IF 0 > n - 1 THEN 0 ELSE n - 1 - 0 + 1
  BY <1>1, FS_Interval
<1>3. QED
  BY <1>2 DEF Fragments

(* An item has its fragments and their exclusive or.                       *)
LEMMA ItemIs ==
  ASSUME NEW F, NEW t, NEW x \in Items(F, t)
  PROVE  /\ x = [indexes |-> x.indexes, data |-> x.data]
         /\ x.indexes \in F \ {{}} /\ x.data = Mix(t, x.indexes)
BY DEF Items, Item

(* The item of a set of fragments.                                         *)
LEMMA ItemIn ==
  ASSUME NEW F, NEW t, NEW S \in F \ {{}}
  PROVE  /\ Item(S, Mix(t, S)) \in Items(F, t)
         /\ Item(S, Mix(t, S)).indexes = S
BY DEF Items, Item

(* There are finitely many items, so that SetToSeq can list some.          *)
LEMMA ItemsFinite ==
  ASSUME NEW n \in Nat, NEW F, Closed(F, n), NEW t
  PROVE  IsFiniteSet(Items(F, t))
<1> DEFINE f == [S \in F \ {{}} |-> Item(S, Mix(t, S))]
<1>1. IsFiniteSet(SUBSET Fragments(n))
  BY FragmentsFinite, FS_SUBSET
<1>2. F \ {{}} \in SUBSET (SUBSET Fragments(n))
  BY DEF Closed
<1>3. IsFiniteSet(F \ {{}})
  BY <1>1, <1>2, FS_Subset
<1>4. f \in Surjection(F \ {{}}, Items(F, t))
  BY DEF Surjection, Items
<1>5. QED
  BY <1>3, <1>4, FS_Surjection

(* The exclusive or with a part of a set takes that part away, in the      *)
(* indexes and in the data.                                                *)
LEMMA XorOfPart ==
  ASSUME NEW a, NEW b, b \subseteq a, NEW t
  PROVE  Xor(a, b) = a \ b /\ Xor(Mix(t, a), Mix(t, b)) = Mix(t, a \ b)
<1>1. Xor(a, b) = a \ b
  BY DEF Xor
<1>2. Mix(t, b) \subseteq Mix(t, a)
  BY DEF Mix
<1>3. \A x : x \in Mix(t, a) \ Mix(t, b) <=> x \in Mix(t, a \ b)
  BY DEF Mix
<1>4. Xor(Mix(t, a), Mix(t, b)) = Mix(t, a) \ Mix(t, b)
  BY <1>2 DEF Xor
<1> DEFINE A == Mix(t, a) \ Mix(t, b)
           B == Mix(t, a \ b)
<1>5. A = B
  <2>1. \A x : x \in A <=> x \in B
    BY <1>3
  <2> HIDE DEF A, B
  <2>2. QED
    BY <2>1
<1>6. QED
  BY <1>1, <1>4, <1>5

(* Reducing a part keeps its data the exclusive or of its fragments.       *)
LEMMA ReduceKeeps ==
  ASSUME NEW n, NEW F, Closed(F, n), NEW t, NEW x \in Items(F, t), NEW y \in Items(F, t)
  PROVE  ReducePart(x, y) \in Items(F, t)
<1> DEFINE a == x.indexes
           b == y.indexes
<1>1. a \in F \ {{}} /\ b \in F \ {{}} /\ x.data = Mix(t, a) /\ y.data = Mix(t, b)
  BY ItemIs
<1>2. CASE b # a /\ b \subseteq a
  <2>1. Xor(a, b) = a \ b /\ Xor(x.data, y.data) = Mix(t, a \ b)
    <3>1. b \subseteq a /\ x.data = Mix(t, a) /\ y.data = Mix(t, b)
      BY <1>1, <1>2
    <3> HIDE DEF a, b
    <3>2. Xor(a, b) = a \ b /\ Xor(Mix(t, a), Mix(t, b)) = Mix(t, a \ b)
      BY <3>1, XorOfPart
    <3>3. QED
      BY <3>1, <3>2
  <2>2. a \ b \in F
    BY <1>1, <2>1 DEF Closed
  <2>3. a \ b # {}
    BY <1>2
  <2>4. ReducePart(x, y) = Item(a \ b, Mix(t, a \ b))
    BY <1>2, <2>1 DEF ReducePart
  <2>5. QED
    BY <2>2, <2>3, <2>4, ItemIn
<1>3. CASE ~(b # a /\ b \subseteq a)
  BY <1>3 DEF ReducePart
<1>4. QED
  BY <1>2, <1>3

(* The recursive function in ReduceByAll.                                  *)
Reduces(by, item, items) ==
  by = [k \in 0 .. Len(items) |->
          IF k = 0 THEN item ELSE Apply(LAMBDA a : ReducePart(a, items[k]), by[k - 1])]

(* ReduceByAll by the function it chooses, which a proof can then name.    *)
LEMMA ReduceByAllIs ==
  ASSUME NEW item, NEW items
  PROVE  ReduceByAll(item, items) = (CHOOSE by : Reduces(by, item, items))[Len(items)]
BY DEF ReduceByAll, Reduces

(* Apply gives the value of its operator.                                  *)
LEMMA ReduceApplied ==
  ASSUME NEW a, NEW b
  PROVE  Apply(LAMBDA x : ReducePart(x, b), a) = ReducePart(a, b)
BY DEF Apply

(* Reducing by a whole sequence keeps an item an item; by the first step   *)
(* at which it would not.                                                  *)
LEMMA ReduceByAllKeeps ==
  ASSUME NEW n, NEW F, Closed(F, n), NEW t, NEW x \in Items(F, t), NEW items \in Seq(Items(F, t))
  PROVE  ReduceByAll(x, items) \in Items(F, t)
<1> DEFINE D == Items(F, t)
           N == Len(items)
           G == [k \in 1 .. N |-> [y \in D |-> ReducePart(y, items[k])]]
<1>1. N \in Nat
  OBVIOUS
<1>2. \A k \in 1 .. N : \A y \in D : G[k][y] = ReducePart(y, items[k]) /\ G[k][y] \in D
  <2>1. TAKE k \in 1 .. N
  <2>2. TAKE y \in D
  <2>3. items[k] \in D
    OBVIOUS
  <2>4. G[k][y] = ReducePart(y, items[k])
    OBVIOUS
  <2>5. QED
    BY <2>3, <2>4, ReduceKeeps
<1>3. \E f : Runs(f, D, x, N, G)
  <2>1. \A k \in 1 .. N : \A y \in D : G[k][y] \in D
    BY <1>2
  <2> HIDE DEF D, N, G
  <2>2. x \in D
    BY DEF D
  <2>3. QED
    BY <1>1, <2>1, <2>2, StepsExist
<1>4. PICK f \in [0 .. N -> D] : f[0] = x /\ \A k \in 1 .. N : f[k] = G[k][f[k - 1]]
  BY <1>3 DEF Runs
<1>5. ASSUME NEW y, NEW i PROVE Apply(LAMBDA a : ReducePart(a, items[i]), y) = ReducePart(y, items[i])
  BY ReduceApplied
<1>6. Reduces(f, x, items)
  <2>1. \A k \in 0 .. N : f[k] = IF k = 0 THEN x ELSE G[k][f[k - 1]]
    BY <1>4
  <2>2. \A k \in 0 .. N : k # 0 => k \in 1 .. N /\ f[k - 1] \in D
    BY <1>1
  <2>3. \A k \in 0 .. N : k # 0 => G[k][f[k - 1]] = ReducePart(f[k - 1], items[k])
    BY <1>2, <2>2
  <2> HIDE DEF D, G
  <2>4. \A k \in 0 .. N : f[k] = IF k = 0 THEN x ELSE ReducePart(f[k - 1], items[k])
    BY <2>1, <2>3
  <2>5. \A k \in 0 .. N :
          f[k] = IF k = 0 THEN x ELSE Apply(LAMBDA a : ReducePart(a, items[k]), f[k - 1])
    BY <2>4 DEF Apply
  <2>6. f = [k \in 0 .. N |-> f[k]]
    OBVIOUS
  <2>7. QED
    BY <2>5, <2>6 DEF Reduces, N
<1>7. PICK g : g = (CHOOSE by : Reduces(by, x, items)) /\ Reduces(g, x, items)
  BY <1>6
<1> DEFINE Bad == {k \in 0 .. N : g[k] \notin D}
<1>8. \A k \in 0 .. N : g[k] = IF k = 0 THEN x ELSE ReducePart(g[k - 1], items[k])
  BY <1>7 DEF Reduces, Apply
<1>9. Bad = {}
  <2>1. SUFFICES ASSUME Bad # {} PROVE FALSE
    OBVIOUS
  <2>2. PICK m \in Bad : \A k \in Bad : m <= k
    <3>1. Bad \subseteq Nat
      OBVIOUS
    <3> HIDE DEF Bad
    <3>2. QED
      BY <2>1, <3>1, LeastNatural
  <2>3. m \in 0 .. N /\ g[m] \notin D
    OBVIOUS
  <2>4. m # 0
    BY <1>8, <2>3
  <2>5. m - 1 \in 0 .. N /\ ~(m <= m - 1) /\ m \in 1 .. N
    BY <1>1, <2>3, <2>4
  <2>6. g[m - 1] \in D
    BY <2>2, <2>5
  <2>7. items[m] \in D
    BY <2>5
  <2>8. g[m] = ReducePart(g[m - 1], items[m])
    BY <1>8, <2>3, <2>4
  <2>9. QED
    BY <2>3, <2>6, <2>7, <2>8, ReduceKeeps
<1>10. N \in 0 .. N
  BY <1>1
<1>11. QED
  BY <1>7, <1>9, <1>10, ReduceByAllIs

(* Counting the positions up to l reaches every number at some position.   *)
LEMMA EveryCountIsReached ==
  ASSUME NEW N \in Nat, NEW P, P \subseteq 1 .. N, NEW k \in 1 .. Cardinality(P)
  PROVE  \E l \in P : Cardinality({m \in P : m <= l}) = k
<1> DEFINE UpTo(l) == {m \in P : m <= l}
           Enough == {l \in 0 .. N : Cardinality(UpTo(l)) >= k}
<1>1. IsFiniteSet(P)
  <2>1. IsFiniteSet(1 .. N)
    BY FS_Interval
  <2>2. QED
    BY <2>1, FS_Subset
<1>2. \A l : IsFiniteSet(UpTo(l)) /\ Cardinality(UpTo(l)) \in Nat
  <2>1. TAKE l
  <2>2. UpTo(l) \in SUBSET P
    OBVIOUS
  <2> HIDE DEF UpTo
  <2>3. QED
    BY <1>1, <2>2, FS_Subset, FS_CardinalityType
<1>3. N \in Enough
  <2>1. UpTo(N) = P
    <3>1. \A m \in P : m <= N
      OBVIOUS
    <3>2. QED
      BY <3>1
  <2>2. k \in Nat /\ Cardinality(P) \in Nat /\ Cardinality(P) >= k
    BY <1>1, FS_CardinalityType
  <2> HIDE DEF UpTo
  <2>3. QED
    BY <2>1, <2>2
<1>4. PICK l \in Enough : \A o \in Enough : l <= o
  <2>1. Enough \subseteq Nat
    OBVIOUS
  <2> HIDE DEF Enough
  <2>2. Enough # {}
    BY <1>3
  <2>3. QED
    BY <2>1, <2>2, LeastNatural
<1>5. l \in 0 .. N /\ Cardinality(UpTo(l)) >= k /\ k \in Nat /\ k >= 1
  <2>1. Cardinality(P) \in Nat
    BY <1>1, FS_CardinalityType
  <2> HIDE DEF UpTo
  <2>2. QED
    BY <2>1
<1>6. l # 0
  <2>1. UpTo(0) = {}
    <3>1. \A m \in P : ~(m <= 0)
      OBVIOUS
    <3>2. QED
      BY <3>1
  <2> HIDE DEF UpTo
  <2>2. QED
    BY <1>5, <2>1, FS_EmptySet
<1>7. l - 1 \in 0 .. N /\ ~(l <= l - 1)
  BY <1>5, <1>6
<1>8. ~(Cardinality(UpTo(l - 1)) >= k)
  BY <1>4, <1>7
<1>9. UpTo(l) = IF l \in P THEN UpTo(l - 1) \cup {l} ELSE UpTo(l - 1)
  <2>1. \A m \in P : m <= l <=> m <= l - 1 \/ m = l
    BY <1>5, <1>6
  <2>2. \A m : m \in UpTo(l) <=> m \in UpTo(l - 1) \/ (m \in P /\ m = l)
    BY <1>5, <1>6, <2>1
  <2> HIDE DEF UpTo
  <2>3. QED
    BY <2>2
<1>10. l \notin UpTo(l - 1)
  BY <1>5
<1> HIDE DEF UpTo, Enough
<1>11. l \in P
  BY <1>5, <1>8, <1>9
<1>12. Cardinality(UpTo(l)) = Cardinality(UpTo(l - 1)) + 1
  BY <1>2, <1>9, <1>10, <1>11, FS_AddElement
<1>13. Cardinality(UpTo(l)) = k
  BY <1>2, <1>5, <1>8, <1>12
<1>14. QED
  BY <1>11, <1>13 DEF UpTo

(* What is picked out of a sequence.                                       *)
LEMMA PickType ==
  ASSUME NEW N \in Nat, NEW P, P \subseteq 1 .. N, NEW items, NEW S,
         \A l \in P : items[l] \in S
  PROVE  Pick(items, P) \in Seq(S) /\ Len(Pick(items, P)) = Cardinality(P)
<1>1. Cardinality(P) \in Nat
  <2>1. IsFiniteSet(1 .. N)
    BY FS_Interval
  <2>2. QED
    BY <2>1, FS_Subset, FS_CardinalityType
<1> DEFINE at(k) == CHOOSE l \in P : Cardinality({m \in P : m <= l}) = k
<1>2. \A k \in 1 .. Cardinality(P) : at(k) \in P
  BY EveryCountIsReached
<1>3. Pick(items, P) = [k \in 1 .. Cardinality(P) |-> items[at(k)]]
  BY DEF Pick
<1> HIDE DEF at
<1>4. \A k \in 1 .. Cardinality(P) : items[at(k)] \in S
  BY <1>2
<1>5. QED
  BY <1>1, <1>3, <1>4

(* A sequence of the items of a finite set.                                *)
LEMMA SetToSeqType ==
  ASSUME NEW S, IsFiniteSet(S)
  PROVE  SetToSeq(S) \in Seq(S)
<1>1. Cardinality(S) \in Nat /\ ExistsBijection(1 .. Cardinality(S), S)
  BY FS_CardinalityType
<1>2. \E f \in [1 .. Cardinality(S) -> S] : IsInjective(f)
  BY <1>1 DEF ExistsBijection, Bijection, Injection, IsInjective
<1>3. SetToSeq(S) \in [1 .. Cardinality(S) -> S]
  BY <1>2 DEF SetToSeq
<1>4. QED
  BY <1>1, <1>3

(* e comes from d by working on an item: nothing received is lost, only    *)
(* simple items are queued, and of the mixed ones as many are left as were *)
(* not queued, and at most extra ones.                                     *)
Works(F, t, d, e, extra) ==
  /\ e \in Decoders(F, t)
  /\ Received(d) \subseteq Received(e)
  /\ \E q \in Seq(SimpleItems(F, t)) :
       e.queue = d.queue \o q /\ Len(q) + Len(e.mixed) <= Len(d.mixed) + extra

(* The three parts of a decoder.                                           *)
LEMMA DecoderIs ==
  ASSUME NEW F, NEW t, NEW d \in Decoders(F, t)
  PROVE  /\ d = [simple |-> d.simple, mixed |-> d.mixed, queue |-> d.queue]
         /\ d.simple \subseteq SimpleItems(F, t)
         /\ d.mixed \in Seq(Items(F, t)) /\ d.queue \in Seq(Items(F, t))
         /\ Len(d.mixed) \in Nat /\ Len(d.queue) \in Nat
         /\ DOMAIN d.mixed = 1 .. Len(d.mixed) /\ DOMAIN d.queue = 1 .. Len(d.queue)
BY DEF Decoders

(* Simple items are items.                                                 *)
LEMMA SimpleIsItem ==
  ASSUME NEW F, NEW t
  PROVE  /\ SimpleItems(F, t) \subseteq Items(F, t)
         /\ \A q \in Seq(SimpleItems(F, t)) : q \in Seq(Items(F, t))
BY DEF SimpleItems

(* Two disjoint sets of positions have no more elements than there are     *)
(* positions.                                                              *)
LEMMA DisjointPositions ==
  ASSUME NEW N \in Nat, NEW P, NEW Q, P \subseteq 1 .. N, Q \subseteq 1 .. N, P \cap Q = {}
  PROVE  /\ Cardinality(P) \in Nat /\ Cardinality(Q) \in Nat
         /\ Cardinality(P) + Cardinality(Q) <= N
<1>1. IsFiniteSet(1 .. N) /\ Cardinality(1 .. N) = N
  <2>1. 1 \in Int /\ N \in Int
    OBVIOUS
  <2>2. IsFiniteSet(1 .. N) /\ Cardinality(1 .. N) = IF 1 > N THEN 0 ELSE N - 1 + 1
    BY <2>1, FS_Interval
  <2>3. QED
    BY <2>2
<1>2. IsFiniteSet(P) /\ IsFiniteSet(Q) /\ IsFiniteSet(P \cup Q)
  BY <1>1, FS_Subset, FS_Union
<1>3. Cardinality(P \cup Q) = Cardinality(P) + Cardinality(Q) - Cardinality(P \cap Q)
  BY <1>2, FS_Union
<1>4. Cardinality(P \cup Q) <= Cardinality(1 .. N)
  BY <1>1, FS_Subset
<1>5. Cardinality(P \cap Q) = 0
  BY FS_EmptySet
<1>6. Cardinality(P) \in Nat /\ Cardinality(Q) \in Nat /\ Cardinality(P \cup Q) \in Nat
  BY <1>2, FS_CardinalityType
<1>7. QED
  BY <1>1, <1>3, <1>4, <1>5, <1>6

(* _reduce_mixed_by: every mixed part is queued, kept or dropped, and none *)
(* becomes two.                                                            *)
LEMMA ReduceMixedWorks ==
  ASSUME NEW n, NEW F, Closed(F, n), NEW t, NEW d \in Decoders(F, t), NEW item \in Items(F, t)
  PROVE  /\ Works(F, t, d, ReduceMixedBy(d, item), 0)
         /\ ReduceMixedBy(d, item).simple = d.simple
<1> DEFINE N == Len(d.mixed)
           reduced == [k \in DOMAIN d.mixed |-> ReducePart(d.mixed[k], item)]
           simple == {k \in DOMAIN reduced : IsSimple(reduced[k])}
           first == {k \in DOMAIN reduced \ simple :
                       \A l \in 1 .. k - 1 : reduced[l].indexes # reduced[k].indexes}
           e == [d EXCEPT !.queue = @ \o Pick(reduced, simple), !.mixed = Pick(reduced, first)]
<1>1. ReduceMixedBy(d, item) = e
  BY DEF ReduceMixedBy
<1>2. N \in Nat /\ DOMAIN d.mixed = 1 .. N /\ \A k \in 1 .. N : d.mixed[k] \in Items(F, t)
  BY DecoderIs
<1>3. DOMAIN reduced = 1 .. N /\ \A k \in 1 .. N : reduced[k] \in Items(F, t)
  BY <1>2, ReduceKeeps
<1>4. simple \subseteq 1 .. N /\ first \subseteq 1 .. N /\ simple \cap first = {}
  BY <1>3
<1>5. \A k \in simple : reduced[k] \in SimpleItems(F, t)
  BY <1>3 DEF SimpleItems
<1>6. \A k \in first : reduced[k] \in Items(F, t)
  BY <1>3
<1> HIDE DEF reduced, simple, first
<1>7. Pick(reduced, simple) \in Seq(SimpleItems(F, t)) /\ Len(Pick(reduced, simple)) = Cardinality(simple)
  BY <1>2, <1>4, <1>5, PickType
<1>8. Pick(reduced, first) \in Seq(Items(F, t)) /\ Len(Pick(reduced, first)) = Cardinality(first)
  BY <1>2, <1>4, <1>6, PickType
<1>9. /\ Cardinality(simple) \in Nat /\ Cardinality(first) \in Nat
      /\ Cardinality(simple) + Cardinality(first) <= N
  BY <1>2, <1>4, DisjointPositions
<1> DEFINE q == Pick(reduced, simple)
           m == Pick(reduced, first)
<1>10. e = [simple |-> d.simple, mixed |-> m, queue |-> d.queue \o q]
  <2>1. e = [d EXCEPT !.queue = d.queue \o q, !.mixed = m]
    OBVIOUS
  <2>2. d = [simple |-> d.simple, mixed |-> d.mixed, queue |-> d.queue]
    BY DecoderIs
  <2> HIDE DEF e, q, m
  <2>3. QED
    BY <2>1, <2>2
<1>11. e \in Decoders(F, t)
  <2>1. d.queue \o q \in Seq(Items(F, t))
    <3>1. d.queue \in Seq(Items(F, t)) /\ q \in Seq(Items(F, t))
      BY <1>7, DecoderIs, SimpleIsItem
    <3> HIDE DEF q
    <3>2. QED
      BY <3>1
  <2>2. QED
    BY <1>8, <1>10, <2>1, DecoderIs DEF Decoders
<1>12. Received(d) \subseteq Received(e) /\ e.simple = d.simple
  BY <1>10 DEF Received
<1>13. e.queue = d.queue \o q /\ Len(q) + Len(e.mixed) <= N + 0
  BY <1>2, <1>7, <1>8, <1>9, <1>10
<1> HIDE DEF e, q
<1>14. q \in Seq(SimpleItems(F, t))
  BY <1>7 DEF q
<1>15. QED
  BY <1>1, <1>11, <1>12, <1>13, <1>14 DEF Works

(* _process_simple: the fragment is there afterwards.                      *)
LEMMA ProcessSimpleWorks ==
  ASSUME NEW n, NEW F, Closed(F, n), NEW t, NEW d \in Decoders(F, t),
         NEW item \in SimpleItems(F, t)
  PROVE  /\ Works(F, t, d, ProcessSimple(d, item, n), 0)
         /\ item.indexes \subseteq Received(ProcessSimple(d, item, n))
<1> DEFINE kept == [d EXCEPT !.simple = @ \cup {item}]
           e == ProcessSimple(d, item, n)
<1>1. /\ d = [simple |-> d.simple, mixed |-> d.mixed, queue |-> d.queue]
      /\ Len(d.mixed) \in Nat /\ d.queue \in Seq(Items(F, t))
  BY DecoderIs
<1> DEFINE simple == d.simple \cup {item}
<1>2. kept = [simple |-> simple, mixed |-> d.mixed, queue |-> d.queue]
  <2>1. kept = [d EXCEPT !.simple = simple]
    OBVIOUS
  <2> HIDE DEF kept, simple
  <2>2. QED
    BY <1>1, <2>1
<1>3. kept \in Decoders(F, t)
  BY <1>2, DecoderIs DEF Decoders
<1>4. Received(d) \subseteq Received(kept) /\ item.indexes \subseteq Received(kept)
  BY <1>2 DEF Received
<1>5. /\ <<>> \in Seq(SimpleItems(F, t)) /\ d.queue = d.queue \o <<>>
      /\ Len(<<>>) + Len(d.mixed) <= Len(d.mixed) + 0
  BY <1>1
<1>6. CASE item.indexes \subseteq Received(d)
  <2>1. e = d
    BY <1>6 DEF ProcessSimple
  <2>2. Works(F, t, d, d, 0)
    BY <1>5 DEF Works
  <2>3. QED
    BY <1>6, <2>1, <2>2
<1>7. CASE ~(item.indexes \subseteq Received(d)) /\ Complete(kept, n)
  <2>1. e = kept
    BY <1>7 DEF ProcessSimple
  <2>2. kept.queue = d.queue /\ kept.mixed = d.mixed
    BY <1>2
  <2> HIDE DEF kept, e
  <2>3. Works(F, t, d, kept, 0)
    BY <1>3, <1>4, <1>5, <2>2 DEF Works
  <2>4. QED
    BY <1>4, <2>1, <2>3 DEF e
<1>8. CASE ~(item.indexes \subseteq Received(d)) /\ ~Complete(kept, n)
  <2>1. e = ReduceMixedBy(kept, item)
    BY <1>8 DEF ProcessSimple
  <2>2. kept.queue = d.queue /\ kept.mixed = d.mixed
    BY <1>2
  <2>3. item \in Items(F, t)
    BY SimpleIsItem
  <2> HIDE DEF kept, e
  <2>4. Works(F, t, kept, e, 0) /\ e.simple = kept.simple
    BY <1>3, <2>1, <2>3, ReduceMixedWorks
  <2>5. Received(e) = Received(kept)
    BY <2>4 DEF Received
  <2>6. Works(F, t, d, e, 0)
    BY <1>4, <2>2, <2>4, <2>5 DEF Works
  <2>7. QED
    BY <1>4, <2>5, <2>6 DEF e
<1>9. QED
  BY <1>6, <1>7, <1>8

(* _process_mixed: the part is queued or kept, unless it is there.         *)
LEMMA ProcessMixedWorks ==
  ASSUME NEW n \in Nat, NEW F, Closed(F, n), NEW t, NEW d \in Decoders(F, t),
         NEW item \in Items(F, t)
  PROVE  Works(F, t, d, ProcessMixed(d, item), 1)
<1> DEFINE reduced == ReduceByAll(ReduceByAll(item, SetToSeq(d.simple)), d.mixed)
           rest == ReduceMixedBy(d, reduced)
           e == ProcessMixed(d, item)
<1>1. /\ d = [simple |-> d.simple, mixed |-> d.mixed, queue |-> d.queue]
      /\ Len(d.mixed) \in Nat /\ d.queue \in Seq(Items(F, t))
      /\ d.mixed \in Seq(Items(F, t)) /\ d.simple \subseteq Items(F, t)
  BY DecoderIs, SimpleIsItem
<1>2. reduced \in Items(F, t)
  <2>1. IsFiniteSet(d.simple)
    BY <1>1, ItemsFinite, FS_Subset
  <2>2. SetToSeq(d.simple) \in Seq(d.simple)
    BY <2>1, SetToSeqType
  <2> DEFINE simple == SetToSeq(d.simple)
  <2>3. simple \in Seq(Items(F, t))
    <3> HIDE DEF simple
    <3>1. simple \in Seq(d.simple)
      BY <2>2 DEF simple
    <3>2. QED
      BY <1>1, <3>1
  <2>4. ReduceByAll(item, simple) \in Items(F, t)
    BY <2>3, ReduceByAllKeeps
  <2>5. QED
    BY <1>1, <2>4, ReduceByAllKeeps
<1> HIDE DEF reduced
<1>3. CASE Has(d.mixed, item.indexes)
  <2>1. e = d
    BY <1>3 DEF ProcessMixed
  <2>2. /\ <<>> \in Seq(SimpleItems(F, t)) /\ d.queue = d.queue \o <<>>
        /\ Len(<<>>) + Len(d.mixed) <= Len(d.mixed) + 1
    BY <1>1
  <2>3. Works(F, t, d, d, 1)
    BY <2>2 DEF Works
  <2>4. QED
    BY <2>1, <2>3
<1>4. CASE ~Has(d.mixed, item.indexes) /\ IsSimple(reduced)
  <2>1. e = [d EXCEPT !.queue = Append(@, reduced)]
    BY <1>4 DEF ProcessMixed, reduced
  <2>2. e = [simple |-> d.simple, mixed |-> d.mixed, queue |-> Append(d.queue, reduced)]
    BY <1>1, <2>1
  <2> HIDE DEF e
  <2>3. e \in Decoders(F, t)
    BY <1>1, <1>2, <2>2 DEF Decoders
  <2>4. Received(d) \subseteq Received(e)
    BY <2>2 DEF Received
  <2>5. /\ <<reduced>> \in Seq(SimpleItems(F, t)) /\ e.queue = d.queue \o <<reduced>>
        /\ Len(<<reduced>>) = 1
    BY <1>1, <1>2, <1>4, <2>2 DEF SimpleItems
  <2>6. Len(<<reduced>>) + Len(e.mixed) <= Len(d.mixed) + 1
    BY <1>1, <2>2, <2>5
  <2>7. Works(F, t, d, e, 1)
    BY <2>3, <2>4, <2>5, <2>6 DEF Works
  <2>8. QED
    BY <2>7 DEF e
<1>5. CASE ~Has(d.mixed, item.indexes) /\ ~IsSimple(reduced)
  <2>1. e = [rest EXCEPT !.mixed = Put(@, reduced)]
    BY <1>5 DEF ProcessMixed, reduced
  <2>2. Works(F, t, d, rest, 0) /\ rest.simple = d.simple
    BY <1>2, ReduceMixedWorks
  <2> HIDE DEF rest
  <2>3. rest \in Decoders(F, t) /\ Received(d) \subseteq Received(rest)
    BY <2>2 DEF Works
  <2>4. rest = [simple |-> rest.simple, mixed |-> rest.mixed, queue |-> rest.queue]
    BY <2>3, DecoderIs
  <2>5. /\ Len(rest.mixed) \in Nat /\ rest.queue \in Seq(Items(F, t))
        /\ rest.mixed \in Seq(Items(F, t))
    BY <2>3, DecoderIs
  <2>6. e = [simple |-> rest.simple, mixed |-> Put(rest.mixed, reduced), queue |-> rest.queue]
    BY <2>1, <2>4
  <2>7. /\ Put(rest.mixed, reduced) \in Seq(Items(F, t))
        /\ Len(Put(rest.mixed, reduced)) \in Nat
        /\ Len(Put(rest.mixed, reduced)) <= Len(rest.mixed) + 1
    BY <1>2, <2>5 DEF Put
  <2> HIDE DEF e
  <2>8. e \in Decoders(F, t)
    BY <2>3, <2>6, <2>7 DEF Decoders
  <2>9. Received(d) \subseteq Received(e)
    BY <2>3, <2>6 DEF Received
  <2>10. PICK q \in Seq(SimpleItems(F, t)) :
           rest.queue = d.queue \o q /\ Len(q) + Len(rest.mixed) <= Len(d.mixed) + 0
    BY <2>2 DEF Works
  <2>11. e.queue = d.queue \o q /\ Len(q) + Len(e.mixed) <= Len(d.mixed) + 1
    <3>1. Len(q) \in Nat
      OBVIOUS
    <3>2. e.queue = rest.queue /\ e.mixed = Put(rest.mixed, reduced)
      BY <2>6
    <3>3. QED
      BY <1>1, <2>5, <2>7, <2>10, <3>1, <3>2
  <2>12. Works(F, t, d, e, 1)
    BY <2>8, <2>9, <2>11 DEF Works
  <2>13. QED
    BY <2>12 DEF e
<1>6. QED
  BY <1>3, <1>4, <1>5

(* One turn takes the head off the queue; what is queued is simple, and    *)
(* parts do not become more.                                               *)
LEMMA ProcessWorks ==
  ASSUME NEW n \in Nat, NEW F, Closed(F, n), NEW t, NEW d \in Decoders(F, t),
         ~Complete(d, n), d.queue # <<>>
  PROVE  /\ Head(d.queue) \in Items(F, t) /\ Tail(d.queue) \in Seq(Items(F, t))
         /\ Process(d, n) \in Decoders(F, t)
         /\ Received(d) \subseteq Received(Process(d, n))
         /\ IsSimple(Head(d.queue)) => Head(d.queue).indexes \subseteq Received(Process(d, n))
         /\ \E q \in Seq(SimpleItems(F, t)) :
              /\ Process(d, n).queue = Tail(d.queue) \o q
              /\ Len(q) + Len(Process(d, n).mixed) <=
                   Len(d.mixed) + IF IsSimple(Head(d.queue)) THEN 0 ELSE 1
<1> DEFINE item == Head(d.queue)
           queue == Tail(d.queue)
           rest == [d EXCEPT !.queue = queue]
           e == Process(d, n)
<1>1. d = [simple |-> d.simple, mixed |-> d.mixed, queue |-> d.queue] /\ d.queue \in Seq(Items(F, t))
  BY DecoderIs
<1>2. item \in Items(F, t) /\ queue \in Seq(Items(F, t))
  BY <1>1
<1>3. rest = [simple |-> d.simple, mixed |-> d.mixed, queue |-> queue]
  <2> HIDE DEF queue
  <2> QED
    BY <1>1
<1>4. rest \in Decoders(F, t)
  BY <1>2, <1>3, DecoderIs DEF Decoders
<1>5. Received(rest) = Received(d) /\ rest.mixed = d.mixed /\ rest.queue = queue
  BY <1>3 DEF Received
<1>6. e = IF IsSimple(item) THEN ProcessSimple(rest, item, n) ELSE ProcessMixed(rest, item)
  BY DEF Process
<1> HIDE DEF rest, e, item, queue
<1>7. CASE IsSimple(item)
  <2>1. item \in SimpleItems(F, t)
    BY <1>2, <1>7 DEF SimpleItems
  <2>2. Works(F, t, rest, e, 0) /\ item.indexes \subseteq Received(e)
    BY <1>4, <1>6, <1>7, <2>1, ProcessSimpleWorks
  <2>3. QED
    BY <1>2, <1>5, <1>7, <2>2 DEF Works, e, item, queue
<1>8. CASE ~IsSimple(item)
  <2>1. Works(F, t, rest, e, 1)
    BY <1>2, <1>4, <1>6, <1>8, ProcessMixedWorks
  <2>2. QED
    BY <1>2, <1>5, <1>8, <2>1 DEF Works, e, item, queue
<1>9. QED
  BY <1>7, <1>8

(* Nothing is left to do for a decoder that is complete or has an empty    *)
(* queue.                                                                  *)
LEMMA ProcessStops ==
  ASSUME NEW n, NEW d, Complete(d, n) \/ d.queue = <<>>
  PROVE  Process(d, n) = d
BY DEF Process

(* What the loop of _receive has done after its first turn.                *)
Turned(F, t, n, item, m, d, e, k) ==
  /\ e \in Decoders(F, t)
  /\ Received(d) \subseteq Received(e)
  /\ k >= 1 =>
       /\ IsSimple(item) => item.indexes \subseteq Received(e)
       /\ \/ Complete(e, n)
          \/ e.queue = <<>>
          \/ e.queue \in Seq(SimpleItems(F, t)) /\ Len(e.queue) + Len(e.mixed) <= m + 2 - k

(* The first turn, which may make the part that came one of the mixed      *)
(* ones.                                                                   *)
LEMMA FirstTurn ==
  ASSUME NEW n \in Nat, NEW F, Closed(F, n), NEW t, NEW d \in Decoders(F, t),
         ~Complete(d, n), NEW item \in Items(F, t), d.queue = <<item>>
  PROVE  Turned(F, t, n, item, Len(d.mixed), d, Process(d, n), 1)
<1> DEFINE e == Process(d, n)
<1>1. d.queue # <<>> /\ Head(d.queue) = item /\ Tail(d.queue) = <<>> /\ Len(d.mixed) \in Nat
  BY DecoderIs
<1>2. /\ e \in Decoders(F, t) /\ Received(d) \subseteq Received(e)
      /\ IsSimple(item) => item.indexes \subseteq Received(e)
      /\ \E q \in Seq(SimpleItems(F, t)) :
           e.queue = <<>> \o q /\ Len(q) + Len(e.mixed) <= Len(d.mixed) + IF IsSimple(item) THEN 0 ELSE 1
  BY <1>1, ProcessWorks
<1> HIDE DEF e
<1>3. PICK q \in Seq(SimpleItems(F, t)) :
        e.queue = <<>> \o q /\ Len(q) + Len(e.mixed) <= Len(d.mixed) + IF IsSimple(item) THEN 0 ELSE 1
  BY <1>2
<1>4. e.queue = q /\ Len(q) \in Nat
  BY <1>3
<1>5. Len(e.mixed) \in Nat
  BY <1>2, DecoderIs
<1>6. e.queue \in Seq(SimpleItems(F, t)) /\ Len(e.queue) + Len(e.mixed) <= Len(d.mixed) + 2 - 1
  <2> DEFINE extra == IF IsSimple(item) THEN 0 ELSE 1
  <2>1. extra \in {0, 1} /\ Len(q) + Len(e.mixed) <= Len(d.mixed) + extra
    BY <1>3
  <2> HIDE DEF extra
  <2>2. Len(q) + Len(e.mixed) <= Len(d.mixed) + 2 - 1
    BY <1>1, <1>4, <1>5, <2>1
  <2>3. QED
    BY <1>4, <2>2
<1>7. QED
  BY <1>2, <1>6 DEF Turned, e

(* The sum that each later turn makes smaller by one.                      *)
LEMMA Counted ==
  ASSUME NEW a \in Nat, NEW b \in Nat, NEW x \in Nat, NEW y \in Nat, NEW m \in Nat, NEW k \in Nat,
         a + b <= m + 2 - k, x + y <= b + 0
  PROVE  a - 1 + x + y <= m + 2 - (k + 1)
OBVIOUS

(* After Turns(d) turns that sum would be negative if anything was queued. *)
LEMMA NoTurnsLeft ==
  ASSUME NEW a \in Nat, NEW b \in Nat, NEW m \in Nat, NEW k, k = m + 3
  PROVE  ~(a + b <= m + 2 - k)
OBVIOUS

(* Every later turn processes a simple part, or nothing.                   *)
LEMMA NextTurn ==
  ASSUME NEW n \in Nat, NEW F, Closed(F, n), NEW t, NEW item, NEW m \in Nat, NEW d, NEW e,
         NEW k \in Nat \ {0}, Turned(F, t, n, item, m, d, e, k)
  PROVE  Turned(F, t, n, item, m, d, Process(e, n), k + 1)
<1>1. k >= 1 /\ k + 1 >= 1
  OBVIOUS
<1>2. /\ e \in Decoders(F, t) /\ Received(d) \subseteq Received(e)
      /\ IsSimple(item) => item.indexes \subseteq Received(e)
      /\ \/ Complete(e, n)
         \/ e.queue = <<>>
         \/ e.queue \in Seq(SimpleItems(F, t)) /\ Len(e.queue) + Len(e.mixed) <= m + 2 - k
  BY <1>1 DEF Turned
<1>3. CASE Complete(e, n) \/ e.queue = <<>>
  <2>1. Process(e, n) = e
    BY <1>3, ProcessStops
  <2>2. QED
    BY <1>2, <1>3, <2>1 DEF Turned
<1>4. CASE ~(Complete(e, n) \/ e.queue = <<>>)
  <2> DEFINE g == Process(e, n)
  <2>1. e.queue \in Seq(SimpleItems(F, t)) /\ Len(e.queue) + Len(e.mixed) <= m + 2 - k
    BY <1>2, <1>4
  <2>2. /\ Head(e.queue) \in SimpleItems(F, t) /\ Tail(e.queue) \in Seq(SimpleItems(F, t))
        /\ Len(Tail(e.queue)) = Len(e.queue) - 1 /\ Len(e.queue) \in Nat
    BY <1>4, <2>1
  <2>3. IsSimple(Head(e.queue))
    BY <2>2 DEF SimpleItems
  <2>4. /\ g \in Decoders(F, t) /\ Received(e) \subseteq Received(g)
        /\ \E q \in Seq(SimpleItems(F, t)) :
             g.queue = Tail(e.queue) \o q /\ Len(q) + Len(g.mixed) <= Len(e.mixed) + 0
    BY <1>2, <1>4, <2>3, ProcessWorks
  <2> HIDE DEF g
  <2>5. PICK q \in Seq(SimpleItems(F, t)) :
          g.queue = Tail(e.queue) \o q /\ Len(q) + Len(g.mixed) <= Len(e.mixed) + 0
    BY <2>4
  <2>6. Len(g.mixed) \in Nat /\ Len(e.mixed) \in Nat
    BY <1>2, <2>4, DecoderIs
  <2>7. /\ g.queue \in Seq(SimpleItems(F, t)) /\ Len(g.queue) = Len(Tail(e.queue)) + Len(q)
        /\ Len(q) \in Nat
    BY <2>2, <2>5
  <2>8. Len(g.queue) + Len(g.mixed) <= m + 2 - (k + 1)
    <3>1. Len(e.queue) - 1 + Len(q) + Len(g.mixed) <= m + 2 - (k + 1)
      BY <2>1, <2>2, <2>5, <2>6, <2>7, Counted
    <3>2. QED
      BY <2>2, <2>7, <3>1, Zenon
  <2>9. QED
    BY <1>2, <2>4, <2>7, <2>8 DEF Turned, g
<1>5. QED
  BY <1>3, <1>4

Turning(after, start, n, N) ==
  after = [k \in 0 .. N |->
             IF k = 0 THEN start ELSE Apply(LAMBDA e : Process(e, n), after[k - 1])]

(* Receive by the function it chooses, which a proof can then name.        *)
LEMMA ReceiveIs ==
  ASSUME NEW d, NEW S, NEW data, NEW n
  PROVE  Receive(d, S, data, n) =
           IF Complete(d, n) THEN d
           ELSE (CHOOSE after : Turning(after, [d EXCEPT !.queue = Append(@, Item(S, data))],
                                        n, Turns(d)))[Turns(d)]
BY DEF Receive, Turning

(* A turn leaves a decoder.                                                *)
LEMMA ProcessType ==
  ASSUME NEW n \in Nat, NEW F, Closed(F, n), NEW t, NEW d \in Decoders(F, t)
  PROVE  Process(d, n) \in Decoders(F, t)
<1>1. CASE Complete(d, n) \/ d.queue = <<>>
  BY <1>1, ProcessStops
<1>2. CASE ~(Complete(d, n) \/ d.queue = <<>>)
  BY <1>2, ProcessWorks
<1>3. QED
  BY <1>1, <1>2

(* The function of the turns exists.                                       *)
LEMMA TurningExists ==
  ASSUME NEW n \in Nat, NEW F, Closed(F, n), NEW t, NEW start \in Decoders(F, t), NEW N \in Nat
  PROVE  \E g : Turning(g, start, n, N)
<1> DEFINE D == Decoders(F, t)
           G == [k \in 1 .. N |-> [y \in D |-> Process(y, n)]]
<1>1. \A k \in 1 .. N : \A y \in D : G[k][y] = Process(y, n) /\ G[k][y] \in D
  <2>1. \A y \in D : Process(y, n) \in D
    BY ProcessType
  <2> HIDE DEF D
  <2>2. QED
    BY <2>1
<1>2. \E f : Runs(f, D, start, N, G)
  <2>1. \A k \in 1 .. N : \A y \in D : G[k][y] \in D
    BY <1>1
  <2> HIDE DEF D, G
  <2>2. start \in D
    BY DEF D
  <2>3. QED
    BY <2>1, <2>2, StepsExist
<1>3. PICK f : Runs(f, D, start, N, G)
  BY <1>2
<1> HIDE DEF D, G
<1>4. f \in [0 .. N -> D] /\ f[0] = start /\ \A k \in 1 .. N : f[k] = G[k][f[k - 1]]
  BY <1>3 DEF Runs
<1>5. \A k \in 0 .. N : k # 0 => k \in 1 .. N /\ f[k - 1] \in D
  BY <1>4
<1>6. \A k \in 0 .. N : f[k] = IF k = 0 THEN start ELSE Process(f[k - 1], n)
  BY <1>1, <1>4, <1>5
<1>7. \A k \in 0 .. N :
        f[k] = IF k = 0 THEN start ELSE Apply(LAMBDA e : Process(e, n), f[k - 1])
  BY <1>6 DEF Apply
<1>8. f = [k \in 0 .. N |-> f[k]]
  BY <1>4
<1>9. Turning(f, start, n, N)
  BY <1>7, <1>8 DEF Turning
<1>10. QED
  BY <1>9

(* All turns, after a part has come.                                       *)
LEMMA AllTurns ==
  ASSUME NEW n \in Nat, NEW F, Closed(F, n), NEW t, NEW start \in Decoders(F, t),
         ~Complete(start, n), NEW item \in Items(F, t), start.queue = <<item>>,
         NEW N \in Nat, NEW g, Turning(g, start, n, N)
  PROVE  \A k \in 0 .. N : Turned(F, t, n, item, Len(start.mixed), start, g[k], k)
<1> DEFINE M == Len(start.mixed)
           Bad == {k \in 0 .. N : ~Turned(F, t, n, item, M, start, g[k], k)}
<1>1. \A k \in 0 .. N : g[k] = IF k = 0 THEN start ELSE Process(g[k - 1], n)
  BY DEF Turning, Apply
<1>2. M \in Nat
  BY DecoderIs
<1>3. SUFFICES ASSUME Bad # {} PROVE FALSE
  OBVIOUS
<1>4. PICK m \in Bad : \A k \in Bad : m <= k
  <2>1. Bad \subseteq Nat
    OBVIOUS
  <2> HIDE DEF Bad
  <2>2. QED
    BY <1>3, <2>1, LeastNatural
<1>5. m \in 0 .. N /\ ~Turned(F, t, n, item, M, start, g[m], m)
  OBVIOUS
<1>6. \A k \in 0 .. N : ~(m <= k) => Turned(F, t, n, item, M, start, g[k], k)
  BY <1>4
<1> HIDE DEF Bad, M
<1>7. CASE m = 0
  <2>1. g[0] = start
    BY <1>1, <1>5, <1>7
  <2>2. Turned(F, t, n, item, M, start, start, 0)
    BY DEF Turned
  <2>3. QED
    BY <1>5, <1>7, <2>1, <2>2
<1>8. CASE m = 1
  <2>1. g[1] = Process(start, n)
    <3>1. 0 \in 0 .. N /\ m # 0 /\ m - 1 = 0
      BY <1>8
    <3>2. g[m] = Process(g[m - 1], n) /\ g[0] = start
      BY <1>1, <1>5, <3>1
    <3>3. QED
      BY <1>8, <3>1, <3>2
  <2>2. Turned(F, t, n, item, M, start, Process(start, n), 1)
    BY FirstTurn DEF M
  <2>3. QED
    BY <1>5, <1>8, <2>1, <2>2
<1>9. CASE m > 1
  <2> DEFINE k == m - 1
  <2>1. k \in 0 .. N /\ k \in Nat \ {0} /\ ~(m <= k) /\ k + 1 = m /\ m # 0
    BY <1>5, <1>9
  <2>2. g[m] = Process(g[k], n)
    BY <1>1, <1>5, <2>1
  <2>3. Turned(F, t, n, item, M, start, g[k], k)
    BY <1>6, <2>1
  <2> HIDE DEF k
  <2>4. Turned(F, t, n, item, M, start, Process(g[k], n), k + 1)
    BY <1>2, <2>1, <2>3, NextTurn
  <2>5. QED
    BY <1>5, <2>1, <2>2, <2>4
<1>10. QED
  BY <1>5, <1>7, <1>8, <1>9

(* A part that comes is worked in: the queue is empty again, or all is     *)
(* there; a simple part is there.                                          *)
LEMMA ReceiveWorks ==
  ASSUME NEW n \in Nat, NEW F, Closed(F, n), NEW t, NEW d \in Decoders(F, t),
         Complete(d, n) \/ d.queue = <<>>, NEW S \in F \ {{}}
  PROVE  LET e == Receive(d, S, Mix(t, S), n) IN
         /\ e \in Decoders(F, t)
         /\ Received(d) \subseteq Received(e)
         /\ Complete(e, n) \/ e.queue = <<>>
         /\ Cardinality(S) = 1 => S \subseteq Received(e)
<1> DEFINE e == Receive(d, S, Mix(t, S), n)
           item == Item(S, Mix(t, S))
           start == [d EXCEPT !.queue = Append(@, item)]
           N == Turns(d)
<1>1. CASE Complete(d, n)
  <2>1. e = d
    BY <1>1, ReceiveIs
  <2>2. S \subseteq Received(d)
    BY <1>1 DEF Complete, Closed
  <2>3. QED
    BY <1>1, <2>1, <2>2
<1>2. CASE ~Complete(d, n)
  <2>1. d = [simple |-> d.simple, mixed |-> d.mixed, queue |-> <<>>]
    BY <1>2, DecoderIs
  <2>2. item \in Items(F, t) /\ item.indexes = S
    BY ItemIn
  <2>3. start = [simple |-> d.simple, mixed |-> d.mixed, queue |-> <<item>>]
    <3> HIDE DEF item
    <3>1. Append(<<>>, item) = <<item>>
      OBVIOUS
    <3>2. start = [d EXCEPT !.queue = <<item>>]
      BY <2>1, <3>1
    <3>3. QED
      BY <2>1, <3>2
  <2>4. e = (CHOOSE after : Turning(after, start, n, N))[N]
    BY <1>2, ReceiveIs
  <2> HIDE DEF start, item, e
  <2>5. start \in Decoders(F, t)
    <3>1. <<item>> \in Seq(Items(F, t))
      BY <2>2
    <3>2. QED
      BY <2>3, <3>1, DecoderIs DEF Decoders
  <2>6. /\ Received(start) = Received(d) /\ Len(start.mixed) = Len(d.mixed)
        /\ start.queue = <<item>> /\ ~Complete(start, n)
    BY <1>2, <2>3 DEF Received, Complete
  <2>7. N = Len(d.mixed) + 3 /\ Len(d.mixed) \in Nat
    BY DecoderIs DEF Turns
  <2> HIDE DEF N
  <2>8. N \in Nat /\ N >= 1 /\ N \in 0 .. N
    BY <2>7
  <2>9. \E g : Turning(g, start, n, N)
    BY <2>5, <2>8, TurningExists
  <2> DEFINE g == CHOOSE after : Turning(after, start, n, N)
  <2>10. Turning(g, start, n, N)
    BY <2>9
  <2>11. e = g[N]
    BY <2>4
  <2> HIDE DEF g
  <2>12. Turned(F, t, n, item, Len(start.mixed), start, g[N], N)
    BY <2>2, <2>5, <2>6, <2>8, <2>10, AllTurns
  <2>13. /\ e \in Decoders(F, t) /\ Received(d) \subseteq Received(e)
         /\ IsSimple(item) => S \subseteq Received(e)
         /\ \/ Complete(e, n) \/ e.queue = <<>>
            \/ /\ e.queue \in Seq(SimpleItems(F, t))
               /\ Len(e.queue) + Len(e.mixed) <= Len(d.mixed) + 2 - N
    BY <2>2, <2>6, <2>8, <2>11, <2>12 DEF Turned
  <2>14. Len(e.queue) \in Nat /\ Len(e.mixed) \in Nat
    BY <2>13, DecoderIs
  <2>15. ~(Len(e.queue) + Len(e.mixed) <= Len(d.mixed) + 2 - N)
    BY <2>7, <2>14, NoTurnsLeft
  <2>16. Cardinality(S) = 1 => IsSimple(item)
    BY <2>2 DEF IsSimple
  <2>17. QED
    BY <2>13, <2>15, <2>16 DEF e
<1>3. QED
  BY <1>1, <1>2

-----------------------------------------------------------------------------
(* How many parts it takes.                                                *)

(* Every set of F can be computed from the parts R: there are no more of   *)
(* them than sets of parts.                                                *)
Spans(F, R, n) ==
  Closed(F, n) /\ IsFiniteSet(R) /\ \E g : g \in Surjection(SUBSET R, F)

(* The exclusive or is commutative and associative, and cancels.           *)
LEMMA XorLaws ==
  ASSUME NEW a, NEW b, NEW s
  PROVE  /\ Xor(a, b) = Xor(b, a) /\ Xor({}, s) = s
         /\ Xor(Xor(a, s), b) = Xor(Xor(a, b), s)
         /\ Xor(a, Xor(b, s)) = Xor(Xor(a, b), s)
         /\ Xor(Xor(a, s), Xor(b, s)) = Xor(a, b)
BY DEF Xor

(* From no part, only the empty set can be computed.                       *)
LEMMA SpanOfNothing ==
  ASSUME NEW n
  PROVE  Spans({{}}, {}, n)
<1>1. Closed({{}}, n)
  BY DEF Closed, Xor
<1>2. [x \in SUBSET {} |-> {}] \in Surjection(SUBSET {}, {{}})
  BY DEF Surjection
<1>3. QED
  BY <1>1, <1>2, FS_EmptySet DEF Spans

(* One more part at most doubles what can be computed.                     *)
LEMMA SpanGrows ==
  ASSUME NEW n, NEW F, NEW R, Spans(F, R, n), NEW r, r \notin R, NEW S, S \subseteq Fragments(n)
  PROVE  \E G : Spans(G, R \cup {r}, n) /\ F \subseteq G /\ S \in G
<1> DEFINE G == F \cup {Xor(a, S) : a \in F}
<1>1. PICK g : g \in Surjection(SUBSET R, F)
  BY DEF Spans
<1>2. /\ Closed(F, n) /\ IsFiniteSet(R) /\ {} \in F
      /\ \A a, b \in F : Xor(a, b) \in F
  BY DEF Spans, Closed
<1>3. F \subseteq G /\ S \in G
  <2>1. Xor({}, S) \in G
    BY <1>2
  <2>2. QED
    BY <2>1, XorLaws
<1>4. Closed(G, n)
  <2>1. G \subseteq SUBSET Fragments(n)
    BY <1>2 DEF Closed, Xor
  <2>2. ASSUME NEW x \in G, NEW y \in G PROVE Xor(x, y) \in G
    <3>1. CASE x \in F /\ y \in F
      BY <1>2, <3>1
    <3>2. CASE x \in F /\ y \notin F
      <4>1. PICK b \in F : y = Xor(b, S)
        BY <3>2
      <4>2. Xor(x, y) = Xor(Xor(x, b), S)
        BY <4>1, XorLaws
      <4>3. QED
        BY <1>2, <3>2, <4>2
    <3>3. CASE x \notin F /\ y \in F
      <4>1. PICK a \in F : x = Xor(a, S)
        BY <3>3
      <4>2. Xor(x, y) = Xor(Xor(a, y), S)
        BY <4>1, XorLaws
      <4>3. QED
        BY <1>2, <3>3, <4>2
    <3>4. CASE x \notin F /\ y \notin F
      <4>1. PICK a \in F : x = Xor(a, S)
        BY <3>4
      <4>2. PICK b \in F : y = Xor(b, S)
        BY <3>4
      <4>3. Xor(x, y) = Xor(a, b)
        BY <4>1, <4>2, XorLaws
      <4>4. QED
        BY <1>2, <4>3
    <3>5. QED
      BY <3>1, <3>2, <3>3, <3>4
  <2>3. QED
    BY <1>2, <2>1, <2>2 DEF Closed
<1> DEFINE h == [T \in SUBSET (R \cup {r}) |-> IF r \in T THEN Xor(g[T \ {r}], S) ELSE g[T]]
<1>5. h \in Surjection(SUBSET (R \cup {r}), G)
  <2>1. g \in [SUBSET R -> F] /\ \A x \in F : \E T \in SUBSET R : g[T] = x
    BY <1>1 DEF Surjection
  <2>2. ASSUME NEW T \in SUBSET (R \cup {r}) PROVE h[T] \in G
    <3>1. CASE r \in T
      <4>1. T \ {r} \in SUBSET R
        OBVIOUS
      <4>2. QED
        BY <2>1, <3>1, <4>1
    <3>2. CASE r \notin T
      <4>1. T \in SUBSET R
        BY <3>2
      <4>2. QED
        BY <2>1, <3>2, <4>1
    <3>3. QED
      BY <3>1, <3>2
  <2>3. ASSUME NEW x \in G PROVE \E T \in SUBSET (R \cup {r}) : h[T] = x
    <3>1. CASE x \in F
      <4>1. PICK T \in SUBSET R : g[T] = x
        BY <2>1, <3>1
      <4>2. T \in SUBSET (R \cup {r}) /\ r \notin T
        OBVIOUS
      <4>3. QED
        BY <4>1, <4>2
    <3>2. CASE x \notin F
      <4>1. PICK a \in F : x = Xor(a, S)
        BY <3>2
      <4>2. PICK T \in SUBSET R : g[T] = a
        BY <2>1
      <4>3. T \cup {r} \in SUBSET (R \cup {r}) /\ r \in T \cup {r} /\ (T \cup {r}) \ {r} = T
        OBVIOUS
      <4>4. h[T \cup {r}] = x
        BY <4>1, <4>2, <4>3
      <4>5. QED
        BY <4>3, <4>4
    <3>3. QED
      BY <3>1, <3>2
  <2> HIDE DEF G
  <2>4. h \in [SUBSET (R \cup {r}) -> G]
    BY <2>2
  <2> HIDE DEF h
  <2>5. QED
    BY <2>3, <2>4 DEF Surjection
<1> HIDE DEF G, h
<1>6. IsFiniteSet(R \cup {r})
  BY <1>2, FS_AddElement
<1>7. Spans(G, R \cup {r}, n)
  BY <1>4, <1>5, <1>6 DEF Spans
<1>8. QED
  BY <1>3, <1>7

(* All the fragments can be computed only from as many parts.              *)
LEMMA SpanOfAll ==
  ASSUME NEW n \in Nat, NEW F, NEW R, Spans(F, R, n), \A i \in Fragments(n) : {i} \in F
  PROVE  n <= Cardinality(R)
<1> DEFINE All == SUBSET Fragments(n)
           Bad == {T \in All : T \notin F}
           m == Cardinality(R)
<1>1. /\ Closed(F, n) /\ IsFiniteSet(R) /\ {} \in F /\ F \subseteq All
      /\ \A a, b \in F : Xor(a, b) \in F
  BY DEF Spans, Closed
<1>2. Bad = {}
  <2>1. SUFFICES ASSUME Bad # {} PROVE FALSE
    OBVIOUS
  <2>2. Bad \subseteq All /\ IsFiniteSet(Fragments(n))
    BY FragmentsFinite
  <2>3. PICK T \in Bad : \A U \in Bad : U \subseteq T => U = T
    <3> HIDE DEF Bad
    <3>1. Bad \subseteq SUBSET Fragments(n)
      BY <2>2
    <3> HIDE DEF All
    <3>2. QED
      BY <2>1, <2>2, <3>1, SmallestSet
  <2>4. T \subseteq Fragments(n) /\ T \notin F /\ T # {}
    BY <1>1
  <2>5. PICK i \in T : TRUE
    BY <2>4
  <2>6. T \ {i} \in All /\ T \ {i} # T /\ T \ {i} \subseteq T
    BY <2>4, <2>5
  <2>7. T \ {i} \in F
    BY <2>3, <2>6
  <2>8. {i} \in F
    BY <2>4, <2>5
  <2>9. Xor(T \ {i}, {i}) = T
    BY <2>5 DEF Xor
  <2>10. QED
    BY <1>1, <2>4, <2>7, <2>8, <2>9
<1>3. F = All
  BY <1>1, <1>2
<1>4. m \in Nat /\ IsFiniteSet(SUBSET R) /\ Cardinality(SUBSET R) = 2^m
  BY <1>1, FS_CardinalityType, FS_SUBSET
<1>5. Cardinality(All) <= Cardinality(SUBSET R)
  <2>1. PICK g : g \in Surjection(SUBSET R, All)
    BY <1>3 DEF Spans
  <2> HIDE DEF All
  <2>2. QED
    BY <1>4, <2>1, FS_Surjection
<1>6. SUFFICES ASSUME m < n PROVE FALSE
  BY <1>4
<1> DEFINE Fewer == SUBSET Fragments(m)
<1>7. Fewer \subseteq All /\ Fewer # All
  <2>1. Fragments(m) \subseteq Fragments(n) /\ m \in Fragments(n) /\ m \notin Fragments(m)
    BY <1>4, <1>6 DEF Fragments
  <2>2. {m} \in All /\ {m} \notin Fewer
    BY <2>1
  <2>3. QED
    BY <2>1, <2>2
<1>8. IsFiniteSet(Fewer) /\ Cardinality(Fewer) = 2^m
  <2>1. IsFiniteSet(Fragments(m)) /\ Cardinality(Fragments(m)) = m
    BY <1>4, FragmentsFinite
  <2>2. QED
    BY <2>1, FS_SUBSET
<1>9. IsFiniteSet(All)
  BY FragmentsFinite, FS_SUBSET
<1> HIDE DEF All, Fewer, m
<1>10. Cardinality(Fewer) <= Cardinality(All) /\ Cardinality(Fewer) # Cardinality(All)
  BY <1>7, <1>9, FS_Subset
<1>11. Cardinality(Fewer) \in Nat /\ Cardinality(All) \in Nat
  BY <1>8, <1>9, FS_CardinalityType
<1>12. QED
  BY <1>4, <1>5, <1>8, <1>10, <1>11

-----------------------------------------------------------------------------
(* The decoder of a session.                                               *)

(* What the decoder d of a session of transfer t, of n fragments, knows    *)
(* after the parts R: everything in it can be computed from them.          *)
DecoderInv(d, t, n, R) ==
  \E F :
    /\ Spans(F, R, n)
    /\ d \in Decoders(F, t)
    /\ Complete(d, n) \/ d.queue = <<>>
    /\ \A r \in R : ChooseFragments(r, n, Chosen) \in F
    /\ \A r \in R : r <= n => r - 1 \in Received(d)

(* The empty decoder has taken no part.                                    *)
LEMMA DecoderStart ==
  ASSUME NEW t, NEW n
  PROVE  DecoderInv(Empty, t, n, {})
<1>1. Empty \in Decoders({{}}, t) /\ Empty.queue = <<>>
  BY DEF Empty, Decoders
<1>2. QED
  BY <1>1, SpanOfNothing DEF DecoderInv

(* More sets, more decoders.                                               *)
LEMMA DecodersGrow ==
  ASSUME NEW F, NEW G, F \subseteq G, NEW t
  PROVE  Decoders(F, t) \subseteq Decoders(G, t)
<1>1. Items(F, t) \subseteq Items(G, t) /\ SimpleItems(F, t) \subseteq SimpleItems(G, t)
  BY DEF Items, SimpleItems
<1>2. QED
  BY <1>1 DEF Decoders

(* _receive, of a part that was not there or comes again.                  *)
LEMMA DecoderStep ==
  ASSUME NEW n \in Nat, NEW t, NEW R, NEW r \in Nat \ {0}, NEW d, DecoderInv(d, t, n, R),
         NEW S, S = ChooseFragments(r, n, Chosen), S \subseteq Fragments(n), S # {}
  PROVE  DecoderInv(Receive(d, S, Mix(t, S), n), t, n, R \cup {r})
<1>1. PICK F :
        /\ Spans(F, R, n)
        /\ d \in Decoders(F, t)
        /\ Complete(d, n) \/ d.queue = <<>>
        /\ \A o \in R : ChooseFragments(o, n, Chosen) \in F
        /\ \A o \in R : o <= n => o - 1 \in Received(d)
  BY DEF DecoderInv
<1>2. \E G : Spans(G, R \cup {r}, n) /\ F \subseteq G /\ S \in G
  <2>1. CASE r \in R
    <3>1. R \cup {r} = R
      BY <2>1
    <3>2. QED
      BY <1>1, <2>1, <3>1
  <2>2. CASE r \notin R
    BY <1>1, <2>2, SpanGrows
  <2>3. QED
    BY <2>1, <2>2
<1>3. PICK G : Spans(G, R \cup {r}, n) /\ F \subseteq G /\ S \in G
  BY <1>2
<1>4. Closed(G, n) /\ d \in Decoders(G, t) /\ S \in G \ {{}}
  BY <1>1, <1>3, DecodersGrow DEF Spans
<1> DEFINE e == Receive(d, S, Mix(t, S), n)
<1>5. /\ e \in Decoders(G, t) /\ Received(d) \subseteq Received(e)
      /\ Complete(e, n) \/ e.queue = <<>>
      /\ Cardinality(S) = 1 => S \subseteq Received(e)
  BY <1>1, <1>4, ReceiveWorks
<1> HIDE DEF e
<1>6. \A o \in R \cup {r} : ChooseFragments(o, n, Chosen) \in G
  BY <1>1, <1>3
<1>7. \A o \in R \cup {r} : o <= n => o - 1 \in Received(e)
  <2>1. r <= n => r - 1 \in Received(e)
    <3>1. r <= n => S = {r - 1}
      BY DEF ChooseFragments
    <3>2. Cardinality({r - 1}) = 1
      BY FS_Singleton
    <3>3. QED
      BY <1>5, <3>1, <3>2
  <2>2. QED
    BY <1>1, <1>5, <2>1
<1>8. QED
  BY <1>3, <1>5, <1>6, <1>7 DEF DecoderInv, e

(* What the invariant says of the decoder's result.                        *)
LEMMA DecoderFacts ==
  ASSUME NEW n \in Nat, NEW t, NEW R, NEW d, DecoderInv(d, t, n, R)
  PROVE  /\ Genuine(d, t)
         /\ \A k \in DOMAIN d.mixed : d.mixed[k].data = Mix(t, d.mixed[k].indexes)
         /\ Complete(d, n) \/ d.queue = <<>>
         /\ 1 .. n \subseteq R => Complete(d, n)
         /\ Complete(d, n) => n <= Cardinality(R)
<1>1. PICK F :
        /\ Spans(F, R, n)
        /\ d \in Decoders(F, t)
        /\ Complete(d, n) \/ d.queue = <<>>
        /\ \A o \in R : ChooseFragments(o, n, Chosen) \in F
        /\ \A o \in R : o <= n => o - 1 \in Received(d)
  BY DEF DecoderInv
<1>2. Closed(F, n)
  BY <1>1 DEF Spans
<1>3. d.simple \subseteq SimpleItems(F, t) /\ d.mixed \in Seq(Items(F, t))
  BY <1>1, DecoderIs
<1>4. \A x \in Items(F, t) : x.indexes \in F \ {{}} /\ x.data = Mix(t, x.indexes)
  BY ItemIs
<1>5. \A x \in d.simple : x \in Items(F, t) /\ IsSimple(x)
  BY <1>3 DEF SimpleItems
<1>6. Genuine(d, t)
  BY <1>4, <1>5 DEF Genuine
<1>7. \A k \in DOMAIN d.mixed : d.mixed[k].data = Mix(t, d.mixed[k].indexes)
  BY <1>3, <1>4
<1>8. Received(d) \subseteq Fragments(n)
  BY <1>2, <1>4, <1>5 DEF Received, Closed
<1>9. ASSUME 1 .. n \subseteq R PROVE Complete(d, n)
  <2>1. \A i \in Fragments(n) : \E r \in 1 .. n : r <= n /\ r - 1 = i
    <3>1. SUFFICES ASSUME NEW i \in Fragments(n) PROVE \E r \in 1 .. n : r <= n /\ r - 1 = i
      OBVIOUS
    <3>2. i + 1 \in 1 .. n /\ i + 1 <= n /\ (i + 1) - 1 = i
      BY DEF Fragments
    <3>3. QED
      BY <3>2, Zenon
  <2>2. \A r \in R : r <= n => r - 1 \in Received(d)
    BY <1>1
  <2>3. ASSUME NEW i \in Fragments(n) PROVE i \in Received(d)
    <3>1. PICK r \in R : r <= n /\ r - 1 = i
      BY <1>9, <2>1
    <3>2. r - 1 \in Received(d)
      BY <2>2, <3>1
    <3>3. QED
      BY <3>1, <3>2
  <2>4. QED
    BY <1>8, <2>3 DEF Complete
<1>10. ASSUME Complete(d, n) PROVE n <= Cardinality(R)
  <2>1. ASSUME NEW i \in Fragments(n) PROVE {i} \in F
    <3>1. PICK x \in d.simple : i \in x.indexes
      BY <1>10 DEF Complete, Received
    <3>2. x.indexes \in F /\ Cardinality(x.indexes) = 1
      BY <1>4, <1>5 DEF IsSimple
    <3>3. IsFiniteSet(x.indexes)
      <4>1. x.indexes \subseteq Fragments(n)
        BY <1>2, <3>2 DEF Closed
      <4>2. QED
        BY <4>1, FragmentsFinite, FS_Subset
    <3>4. PICK y : x.indexes = {y}
      BY <3>2, <3>3, FS_Singleton
    <3>5. QED
      BY <3>1, <3>2, <3>4
  <2>2. QED
    BY <1>1, <2>1, SpanOfAll
<1>11. QED
  BY <1>1, <1>6, <1>7, <1>9, <1>10

-----------------------------------------------------------------------------
(* The session.                                                            *)

(* A session s of receiver a that has taken the parts with the numbers R,  *)
(* counted from 1.                                                         *)
Good(a, s, R) ==
  /\ s = [fmt |-> s.fmt, total |-> s.total, header |-> s.header, flag |-> s.flag,
          parts |-> s.parts, fountain |-> s.fountain]
  /\ s.fmt \in Formats \cup {None}
  /\ R \subseteq Nat \ {0} /\ IsFiniteSet(R)
  /\ s.fmt = None <=> R = {}
  /\ s.fmt = None => s = NoSession
  /\ s.fmt # None => s.total \in Nat \ {0}
  /\ s.fmt = "ur2" => s.header \in Wills /\ DecoderInv(s.fountain, s.header, s.total, R)
  /\ s.fmt \in {"balqr", "ur1"} => R = DOMAIN s.parts
  /\ s.fmt = "bbqr" => R = {k + 1 : k \in DOMAIN s.parts}
  /\ s.fmt \in {None, "ur2"} => s.parts = <<>>
  /\ DOMAIN s.parts \subseteq Nat
  /\ \A k \in DOMAIN s.parts : \E w \in Wills, z \in Sizes :
       /\ s.parts[k] = <<w, z>>
       /\ Parts[a][s.fmt][w][z] = s.total
       /\ Header([fmt |-> s.fmt, will |-> w]) = s.header

(* The names that are not formats or wills.                                *)
LEMMA FormatsAre ==
  /\ None \notin Formats /\ None \notin Wills /\ "mixed" \notin Wills
  /\ \A f \in Formats : f \in {"balqr", "ur1", "ur2", "bbqr"}
BY QrAssumption DEF None

(* The number of parts of an export.                                       *)
LEMMA TotalType ==
  ASSUME app \in Apps, NEW f \in Formats, NEW w \in Wills, NEW z \in Sizes
  PROVE  Total(f, w, z) = Parts[app][f][w][z] /\ Total(f, w, z) \in Nat \ {0}
<1>1. Parts \in [Apps -> [Formats -> [Wills -> [Sizes -> Nat \ {0}]]]]
  BY QrAssumption
<1>2. Parts[app] \in [Formats -> [Wills -> [Sizes -> Nat \ {0}]]]
  BY <1>1
<1>3. Parts[app][f] \in [Wills -> [Sizes -> Nat \ {0}]]
  BY <1>2
<1>4. QED
  BY <1>3 DEF Total

(* A mixed part that is shown is of some of the fragments there are.       *)
LEMMA MixedParts ==
  ASSUME app \in Apps, NEW w \in Wills, NEW z \in Sizes, "ur2" \in Formats,
         NEW n, n = Total("ur2", w, z), NEW r \in 1 .. Ur2Codes(n)
  PROVE  /\ ChooseFragments(r, n, Chosen) \subseteq Fragments(n)
         /\ ChooseFragments(r, n, Chosen) # {}
<1>1. n \in Nat \ {0} /\ n = Parts[app]["ur2"][w][z]
  BY TotalType
<1>2. CASE r <= n
  BY <1>1, <1>2 DEF ChooseFragments, Fragments
<1>3. CASE ~(r <= n)
  <2>1. n > 1 /\ r \in n + 1 .. 2 * n
    BY <1>1, <1>3 DEF Ur2Codes
  <2>2. \A b \in Apps, f \in Formats, v \in Wills, s \in Sizes :
          Parts[b][f][v][s] > 1 =>
            Chosen[Parts[b][f][v][s]] \in
              [Parts[b][f][v][s] + 1 .. 2 * Parts[b][f][v][s] ->
                 (SUBSET Fragments(Parts[b][f][v][s])) \ {{}}]
    BY QrAssumption
  <2>3. Chosen[n] \in [n + 1 .. 2 * n -> (SUBSET Fragments(n)) \ {{}}]
    <3>1. Parts[app]["ur2"][w][z] > 1 =>
            Chosen[Parts[app]["ur2"][w][z]] \in
              [Parts[app]["ur2"][w][z] + 1 .. 2 * Parts[app]["ur2"][w][z] ->
                 (SUBSET Fragments(Parts[app]["ur2"][w][z])) \ {{}}]
      BY <2>2, Zenon
    <3>2. n = Parts[app]["ur2"][w][z]
      BY <1>1
    <3>3. QED
      BY <2>1, <3>1, <3>2, Zenon
  <2>4. Chosen[n][r] \in (SUBSET Fragments(n)) \ {{}}
    BY <2>1, <2>3
  <2>5. QED
    BY <1>3, <2>4 DEF ChooseFragments
<1>4. QED
  BY <1>2, <1>3

(* What is shown is a code of what is exported.                            *)
LEMMA ShownIs ==
  ASSUME TypeOK
  PROVE  /\ Shown.fmt \in Formats /\ Shown.will \in Wills /\ Shown.size \in Sizes
         /\ Shown.total = Parts[app][Shown.fmt][Shown.will][Shown.size]
         /\ Shown.total \in Nat \ {0} /\ Shown.seq \in Nat
         /\ Shown.fmt # "bbqr" => Slot(Shown) = Shown.seq
         /\ Shown.fmt = "bbqr" => Slot(Shown) = Shown.seq + 1
         /\ Slot(Shown) \in Nat \ {0}
         /\ Header([fmt |-> Shown.fmt, will |-> Shown.will]) = Header(Shown)
         /\ Shown.fmt = "ur2" =>
              /\ ChooseFragments(Shown.seq, Shown.total, Chosen) \subseteq Fragments(Shown.total)
              /\ ChooseFragments(Shown.seq, Shown.total, Chosen) # {}
<1>1. /\ page.fmt \in Formats /\ page.will \in Wills /\ page.size \in Sizes
      /\ page.index \in Nat \ {0} /\ page.index <= Codes(page) /\ app \in Apps
  BY DEF TypeOK
<1> DEFINE n == Total(page.fmt, page.will, page.size)
           seq == IF page.fmt = "bbqr" THEN page.index - 1 ELSE page.index
<1>2. Shown = [fmt |-> page.fmt, will |-> page.will, size |-> page.size, total |-> n, seq |-> seq]
  BY DEF Shown, Code
<1>3. n = Parts[app][page.fmt][page.will][page.size] /\ n \in Nat \ {0}
  BY <1>1, TotalType
<1>4. seq \in Nat /\ (page.fmt # "bbqr" => seq = page.index) /\ (page.fmt = "bbqr" => seq + 1 = page.index)
  BY <1>1
<1>5. page.fmt = "ur2" => seq \in 1 .. Ur2Codes(n)
  BY <1>1, <1>3, <1>4 DEF Codes, Ur2Codes
<1>6. page.fmt = "ur2" => /\ ChooseFragments(seq, n, Chosen) \subseteq Fragments(n)
                          /\ ChooseFragments(seq, n, Chosen) # {}
  BY <1>1, <1>5, MixedParts
<1> HIDE DEF n, seq
<1>7. Slot(Shown) = page.index /\ Header([fmt |-> page.fmt, will |-> page.will]) = Header(Shown)
  BY <1>1, <1>2, <1>4 DEF Slot, Header
<1>8. QED
  BY <1>1, <1>2, <1>3, <1>4, <1>6, <1>7

(* A session that has not begun is good.                                   *)
LEMMA NoSessionGood ==
  ASSUME NEW a
  PROVE  Good(a, NoSession, {})
<1>1. NoSession.fmt = None /\ NoSession.parts = <<>> /\ DOMAIN NoSession.parts = {}
  BY DEF NoSession
<1>2. NoSession = [fmt |-> NoSession.fmt, total |-> NoSession.total,
                   header |-> NoSession.header, flag |-> NoSession.flag,
                   parts |-> NoSession.parts, fountain |-> NoSession.fountain]
  BY DEF NoSession
<1>3. IsFiniteSet({})
  BY FS_EmptySet
<1>4. None \notin {"ur2", "balqr", "ur1", "bbqr"}
  BY DEF None
<1>5. QED
  BY <1>1, <1>2, <1>3, <1>4 DEF Good

(* The session a code c is put into: a new one with c's format, total and  *)
(* header, or the one there is, which has them already.                    *)
LEMMA StartedIs ==
  ASSUME TypeOK, NEW s, NEW R, Good(app, s, R), ~Conflicts(s, Shown)
  PROVE  \E flag :
           Started(s, Shown) =
             [fmt |-> Shown.fmt, total |-> Shown.total, header |-> Header(Shown),
              flag |-> flag, parts |-> s.parts, fountain |-> s.fountain]
<1>1. s = [fmt |-> s.fmt, total |-> s.total, header |-> s.header, flag |-> s.flag,
           parts |-> s.parts, fountain |-> s.fountain]
  BY DEF Good
<1>2. CASE s.fmt = None
  <2>1. Started(s, Shown) = [s EXCEPT !.fmt = Shown.fmt, !.total = Shown.total,
                                      !.header = Header(Shown), !.flag = Shown.will \in Packed]
    BY <1>2 DEF Started
  <2> DEFINE c == Shown
             h == Header(c)
             g == c.will \in Packed
  <2>2. Started(s, Shown) = [s EXCEPT !.fmt = c.fmt, !.total = c.total, !.header = h, !.flag = g]
    BY <2>1
  <2> HIDE DEF c, h, g
  <2>3. Started(s, Shown) = [fmt |-> c.fmt, total |-> c.total, header |-> h, flag |-> g,
                             parts |-> s.parts, fountain |-> s.fountain]
    BY <1>1, <2>2
  <2>4. QED
    BY <2>3, Zenon DEF c, h, g
<1>3. CASE s.fmt # None
  <2>1. Started(s, Shown) = s
    BY <1>3 DEF Started
  <2>2. s.fmt = Shown.fmt /\ s.total = Shown.total /\ s.header = Header(Shown)
    BY <1>3 DEF Conflicts
  <2>3. QED
    BY <1>1, <2>1, <2>2
<1>4. QED
  BY <1>2, <1>3

(* A part of the fountain format.                                          *)
LEMMA AddFountainGood ==
  ASSUME TypeOK, NEW s, NEW R, Good(app, s, R), ~Conflicts(s, Shown), Shown.fmt = "ur2"
  PROVE  Good(app, AddPart(s, Shown), R \cup {Slot(Shown)})
<1> DEFINE c == Shown
           h == Header(c)
           r == Slot(c)
           S == ChooseFragments(c.seq, c.total, Chosen)
           new == Receive(s.fountain, S, Mix(c.will, S), c.total)
<1>1. /\ c.will \in Wills /\ c.fmt \in Formats
      /\ c.total \in Nat \ {0} /\ r = c.seq /\ r \in Nat \ {0}
      /\ S \subseteq Fragments(c.total) /\ S # {}
  BY ShownIs
<1>2. h = c.will
  BY DEF Header
<1>3. PICK g : Started(s, c) = [fmt |-> c.fmt, total |-> c.total, header |-> h,
                                flag |-> g, parts |-> s.parts, fountain |-> s.fountain]
  BY StartedIs
<1>4. /\ R \subseteq Nat \ {0} /\ IsFiniteSet(R)
      /\ s.fmt = None \/ (s.fmt = "ur2" /\ s.total = c.total /\ s.header = h)
  BY DEF Good, Conflicts
<1>5. DecoderInv(s.fountain, h, c.total, R)
  <2>1. CASE s.fmt = None
    <3>1. s.fountain = Empty /\ R = {}
      BY <2>1 DEF Good, NoSession
    <3>2. QED
      BY <3>1, DecoderStart
  <2>2. CASE s.fmt = "ur2"
    <3>1. DecoderInv(s.fountain, s.header, s.total, R)
      BY <2>2 DEF Good
    <3>2. QED
      BY <1>4, <2>2, <3>1, FormatsAre DEF None
  <2>3. QED
    BY <1>4, <2>1, <2>2
<1>6. DecoderInv(new, h, c.total, R \cup {r})
  <2>1. S = ChooseFragments(r, c.total, Chosen)
    BY <1>1
  <2> HIDE DEF c, h, r, S
  <2>2. DecoderInv(Receive(s.fountain, S, Mix(h, S), c.total), h, c.total, R \cup {r})
    BY <1>1, <1>5, <2>1, DecoderStep
  <2>3. QED
    BY <1>2, <2>2
<1>7. s.parts = <<>>
  BY <1>4 DEF Good
<1>8. AddPart(s, c) = [Started(s, c) EXCEPT !.fountain = Receive(@, S, Mix(c.will, S), c.total)]
  BY DEF AddPart
<1>9. IsFiniteSet(R \cup {r}) /\ R \cup {r} \subseteq Nat \ {0} /\ R \cup {r} # {}
  BY <1>1, <1>4, FS_AddElement
<1> HIDE DEF h, r, S
<1>10. AddPart(s, c) = [fmt |-> c.fmt, total |-> c.total, header |-> h, flag |-> g,
                        parts |-> <<>>, fountain |-> new]
  BY <1>3, <1>7, <1>8
<1>11. "ur2" \notin {None, "balqr", "ur1", "bbqr"}
  BY DEF None
<1> DEFINE a == AddPart(s, c)
<1>12. /\ a = [fmt |-> a.fmt, total |-> a.total, header |-> a.header, flag |-> a.flag,
               parts |-> a.parts, fountain |-> a.fountain]
       /\ a.fmt = "ur2" /\ a.total = c.total /\ a.header = h /\ a.fountain = new
       /\ a.parts = <<>> /\ DOMAIN a.parts = {}
  BY <1>10
<1> HIDE DEF a, new
<1>13. DecoderInv(a.fountain, a.header, a.total, R \cup {r})
  BY <1>6, <1>12
<1>14. Good(app, a, R \cup {r})
  BY <1>1, <1>2, <1>9, <1>11, <1>12, <1>13 DEF Good
<1>15. QED
  BY <1>14 DEF a, c, r

(* A part of a format without a fountain: the one that is there stays.     *)
LEMMA AddPlainGood ==
  ASSUME TypeOK, NEW s, NEW R, Good(app, s, R), ~Conflicts(s, Shown), Shown.fmt # "ur2"
  PROVE  Good(app, AddPart(s, Shown), IF IsDup(s, Shown) THEN R ELSE R \cup {Slot(Shown)})
<1> DEFINE c == Shown
           h == Header(c)
           r == Slot(c)
           D == DOMAIN s.parts
           E == D \cup {c.seq}
           new == [k \in E |-> IF k \in D THEN s.parts[k] ELSE <<c.will, c.size>>]
           R2 == IF IsDup(s, c) THEN R ELSE R \cup {r}
           a == AddPart(s, c)
<1>1. /\ c.will \in Wills /\ c.size \in Sizes /\ c.fmt \in Formats
      /\ c.total = Parts[app][c.fmt][c.will][c.size] /\ c.total \in Nat \ {0}
      /\ c.seq \in Nat /\ r \in Nat \ {0}
      /\ c.fmt # "bbqr" => r = c.seq
      /\ c.fmt = "bbqr" => r = c.seq + 1
      /\ Header([fmt |-> c.fmt, will |-> c.will]) = h
  BY ShownIs
<1>2. PICK g : Started(s, c) = [fmt |-> c.fmt, total |-> c.total, header |-> h,
                                flag |-> g, parts |-> s.parts, fountain |-> s.fountain]
  BY StartedIs
<1>3. /\ R \subseteq Nat \ {0} /\ IsFiniteSet(R)
      /\ s.fmt = None \/ (s.fmt = c.fmt /\ s.total = c.total /\ s.header = h)
      /\ s.fmt = None <=> R = {}
      /\ s.fmt = None => s.parts = <<>>
      /\ D \subseteq Nat
  BY DEF Good, Conflicts
<1>4. c.fmt # None /\ c.fmt \in {"balqr", "ur1", "bbqr"}
  BY <1>1, FormatsAre
<1>5. a = [fmt |-> c.fmt, total |-> c.total, header |-> h, flag |-> g,
           parts |-> new, fountain |-> s.fountain]
  <2> DEFINE t == Started(s, c)
  <2>1. a = [t EXCEPT !.parts =
               [k \in DOMAIN @ \cup {c.seq} |-> IF k \in DOMAIN @ THEN @[k] ELSE <<c.will, c.size>>]]
    BY DEF AddPart
  <2> HIDE DEF a, h, t
  <2>2. t = [fmt |-> c.fmt, total |-> c.total, header |-> h,
             flag |-> g, parts |-> s.parts, fountain |-> s.fountain]
    BY <1>2 DEF t
  <2>3. t.parts = s.parts
    BY <2>2
  <2>4. a = [t EXCEPT !.parts = new]
    BY <2>1, <2>3
  <2> HIDE DEF new
  <2>5. QED
    BY <2>2, <2>4
<1>6. IsDup(s, c) <=> c.seq \in D
  BY DEF IsDup
<1>7. E \subseteq Nat /\ DOMAIN new = E
  BY <1>1, <1>3
<1>8. R2 \subseteq Nat \ {0} /\ IsFiniteSet(R2)
  BY <1>1, <1>3, FS_AddElement
<1>9. s.fmt = None => D = {}
  BY <1>3
<1>10. s.fmt # None => R # {}
  BY <1>3
<1>11. R2 # {}
  <2>1. CASE s.fmt = None
    BY <1>6, <1>9, <2>1
  <2>2. CASE s.fmt # None
    BY <1>10, <2>2
  <2>3. QED
    BY <2>1, <2>2
<1>12. c.fmt \in {"balqr", "ur1"} => R2 = E
  <2>1. SUFFICES ASSUME c.fmt \in {"balqr", "ur1"} PROVE R2 = E
    OBVIOUS
  <2>2. R = D
    <3>1. CASE s.fmt = None
      BY <1>3, <1>9, <3>1
    <3>2. CASE s.fmt # None
      <4>1. s.fmt \in {"balqr", "ur1"}
        BY <1>3, <2>1, <3>2
      <4>2. QED
        BY <4>1 DEF Good
    <3>3. QED
      BY <3>1, <3>2
  <2>3. r = c.seq
    BY <1>1, <2>1
  <2>4. QED
    BY <1>6, <2>2, <2>3
<1>13. c.fmt = "bbqr" => R2 = {k + 1 : k \in E}
  <2>1. SUFFICES ASSUME c.fmt = "bbqr" PROVE R2 = {k + 1 : k \in E}
    OBVIOUS
  <2>2. R = {k + 1 : k \in D}
    <3>1. CASE s.fmt = None
      BY <1>3, <1>9, <3>1
    <3>2. CASE s.fmt # None
      <4>1. s.fmt = "bbqr"
        BY <1>3, <2>1, <3>2
      <4>2. QED
        BY <4>1 DEF Good
    <3>3. QED
      BY <3>1, <3>2
  <2>3. r = c.seq + 1
    BY <1>1, <2>1
  <2>4. CASE c.seq \in D
    <3>1. E = D /\ R2 = R
      BY <1>6, <2>4
    <3>2. QED
      BY <2>2, <3>1
  <2>5. CASE c.seq \notin D
    <3>1. R2 = R \cup {c.seq + 1}
      BY <1>6, <2>3, <2>5
    <3> HIDE DEF R2, D
    <3>2. \A x : x \in {k + 1 : k \in D \cup {c.seq}} <=> x \in {k + 1 : k \in D} \cup {c.seq + 1}
      OBVIOUS
    <3>3. QED
      BY <2>2, <3>1, <3>2
  <2>6. QED
    BY <2>4, <2>5
<1>14. \A k \in E : \E w \in Wills, z \in Sizes :
         /\ new[k] = <<w, z>>
         /\ Parts[app][c.fmt][w][z] = c.total
         /\ Header([fmt |-> c.fmt, will |-> w]) = h
  <2>1. SUFFICES ASSUME NEW k \in E
                 PROVE  \E w \in Wills, z \in Sizes :
                          /\ new[k] = <<w, z>>
                          /\ Parts[app][c.fmt][w][z] = c.total
                          /\ Header([fmt |-> c.fmt, will |-> w]) = h
    OBVIOUS
  <2>2. CASE k \in D
    <3>1. PICK w \in Wills, z \in Sizes :
            /\ s.parts[k] = <<w, z>>
            /\ Parts[app][s.fmt][w][z] = s.total
            /\ Header([fmt |-> s.fmt, will |-> w]) = s.header
      BY <2>2 DEF Good
    <3>2. s.fmt = c.fmt /\ s.total = c.total /\ s.header = h
      BY <1>3, <1>9, <2>2
    <3>3. new[k] = s.parts[k]
      BY <2>1, <2>2
    <3>4. QED
      BY <3>1, <3>2, <3>3
  <2>3. CASE k \notin D
    <3>1. new[k] = <<c.will, c.size>>
      BY <2>1, <2>3
    <3>2. QED
      BY <1>1, <3>1
  <2>4. QED
    BY <2>2, <2>3
<1> HIDE DEF c, h, D, E, new, R2, a
<1>15. /\ a = [fmt |-> a.fmt, total |-> a.total, header |-> a.header, flag |-> a.flag,
               parts |-> a.parts, fountain |-> a.fountain]
       /\ a.fmt = c.fmt /\ a.total = c.total /\ a.header = h /\ a.parts = new
       /\ DOMAIN a.parts = E
  BY <1>5, <1>7
<1>16. Good(app, a, R2)
  <2>1. \A k \in DOMAIN a.parts : \E w \in Wills, z \in Sizes :
          /\ a.parts[k] = <<w, z>>
          /\ Parts[app][a.fmt][w][z] = a.total
          /\ Header([fmt |-> a.fmt, will |-> w]) = a.header
    BY <1>14, <1>15, Zenon
  <2>2. a.fmt = "bbqr" => R2 = {k + 1 : k \in DOMAIN a.parts}
    BY <1>13, <1>15, Zenon
  <2>3. a.fmt \in {"balqr", "ur1"} => R2 = DOMAIN a.parts
    BY <1>12, <1>15
  <2>4. a.fmt \notin {None, "ur2"} /\ a.fmt \in Formats /\ a.total \in Nat \ {0}
    BY <1>1, <1>4, <1>15
  <2>5. DOMAIN a.parts \subseteq Nat
    BY <1>7, <1>15
  <2>6. a = [fmt |-> a.fmt, total |-> a.total, header |-> a.header, flag |-> a.flag,
             parts |-> a.parts, fountain |-> a.fountain]
    BY <1>15
  <2>7. QED
    BY <1>8, <1>11, <2>1, <2>2, <2>3, <2>4, <2>5, <2>6, Zenon DEF Good
<1>17. QED
  BY <1>16 DEF a, c, R2

(* Whatever code is taken, the session stays good.                         *)
LEMMA AddPartGood ==
  ASSUME TypeOK, NEW s, NEW R, Good(app, s, R), ~Conflicts(s, Shown)
  PROVE  /\ Good(app, AddPart(s, Shown), IF IsDup(s, Shown) THEN R ELSE R \cup {Slot(Shown)})
         /\ AddPart(s, Shown).fmt # None
<1>1. Good(app, AddPart(s, Shown), IF IsDup(s, Shown) THEN R ELSE R \cup {Slot(Shown)})
  <2>1. CASE Shown.fmt = "ur2"
    <3>1. ~IsDup(s, Shown)
      BY <2>1 DEF IsDup
    <3>2. QED
      BY <2>1, <3>1, AddFountainGood
  <2>2. CASE Shown.fmt # "ur2"
    BY <2>2, AddPlainGood
  <2>3. QED
    BY <2>1, <2>2
<1>2. (IF IsDup(s, Shown) THEN R ELSE R \cup {Slot(Shown)}) # {}
  <2>1. CASE IsDup(s, Shown)
    <3>1. DOMAIN s.parts # {}
      BY <2>1 DEF IsDup
    <3>2. s.parts # <<>>
      BY <3>1
    <3>3. QED
      BY <2>1, <3>2 DEF Good
  <2>2. CASE ~IsDup(s, Shown)
    BY <2>2
  <2>3. QED
    BY <2>1, <2>2
<1>3. QED
  BY <1>1, <1>2 DEF Good

(* A session that is done has taken as many codes as it has parts.         *)
LEMMA DoneCounted ==
  ASSUME NEW a, NEW s, NEW R, Good(a, s, R), Done(s)
  PROVE  s.total <= Cardinality(R)
<1> DEFINE D == DOMAIN s.parts
<1>1. s.fmt # None /\ s.fmt \in {"balqr", "ur1", "ur2", "bbqr"} /\ s.total \in Nat
  BY FormatsAre DEF Good, Done
<1>2. CASE s.fmt = "ur2"
  <2>1. DecoderInv(s.fountain, s.header, s.total, R) /\ Complete(s.fountain, s.total)
    BY <1>2 DEF Good, Done
  <2>2. QED
    BY <1>1, <2>1, DecoderFacts
<1>3. CASE s.fmt \in {"balqr", "ur1"}
  <2>1. R = D /\ Cardinality(D) >= s.total
    BY <1>3 DEF Good, Done
  <2>2. IsFiniteSet(R)
    BY DEF Good
  <2>3. Cardinality(R) \in Nat
    BY <2>2, FS_CardinalityType
  <2>4. QED
    BY <1>1, <2>1, <2>3
<1>4. CASE s.fmt = "bbqr"
  <2>1. R = {k + 1 : k \in D} /\ Cardinality(D) >= s.total /\ D \subseteq Nat /\ IsFiniteSet(R)
    BY <1>4 DEF Good, Done
  <2> DEFINE f == [k \in D |-> k + 1]
  <2>2. f \in Injection(D, R)
    BY <2>1 DEF Injection, IsInjective
  <2>3. IsFiniteSet(D) /\ Cardinality(D) <= Cardinality(R)
    BY <2>1, <2>2, FS_Injection
  <2>4. Cardinality(D) \in Nat /\ Cardinality(R) \in Nat
    BY <2>1, <2>3, FS_CardinalityType
  <2>5. QED
    BY <1>1, <2>1, <2>3, <2>4
<1>5. QED
  BY <1>1, <1>2, <1>3, <1>4

(* What a session gives: a mixture only in the formats without a digest,   *)
(* and then it is reviewed.                                                *)
LEMMA DecodedIs ==
  ASSUME NEW a, NEW s, NEW R, Good(a, s, R), s.fmt # None, NEW o \in Decoded(s)
  PROVE  /\ o.kind \in {"review", "refused", "raised", "unparsed"}
         /\ o.what = "mixed" => s.fmt \in {"balqr", "bbqr"} /\ o.kind = "review"
<1>1. s.fmt \in {"balqr", "ur1", "ur2", "bbqr"}
  BY FormatsAre DEF Good
<1>2. CASE Cardinality(Sources(s)) = 1
  <2>1. PICK src \in Sources(s) : o = [kind |-> "review", what |-> src[1]]
    BY <1>2 DEF Decoded, Outcome
  <2>2. src[1] \in Wills
    <3>1. CASE s.fmt = "ur2"
      <4>1. src = <<s.header, "any">> /\ s.header \in Wills
        BY <2>1, <3>1 DEF Sources, Good
      <4>2. QED
        BY <4>1
    <3>2. CASE s.fmt # "ur2"
      <4>1. PICK k \in DOMAIN s.parts : src = s.parts[k]
        BY <2>1, <3>2 DEF Sources, Range
      <4>2. PICK w \in Wills, z \in Sizes : s.parts[k] = <<w, z>>
        BY DEF Good
      <4>3. QED
        BY <4>1, <4>2
    <3>3. QED
      BY <3>1, <3>2
  <2>3. QED
    BY <2>1, <2>2, FormatsAre
<1>3. CASE Cardinality(Sources(s)) # 1
  <2>1. s.fmt # "ur2"
    <3>1. ASSUME s.fmt = "ur2" PROVE FALSE
      <4>1. Sources(s) = {<<s.header, "any">>}
        BY <3>1 DEF Sources
      <4>2. Cardinality(Sources(s)) = 1
        BY <4>1, FS_Singleton
      <4>3. QED
        BY <1>3, <4>2
    <3>2. QED
      BY <3>1
  <2>2. CASE s.fmt = "ur1"
    <3>1. o = [kind |-> "refused", what |-> None]
      BY <1>3, <2>2 DEF Decoded, Outcome
    <3>2. QED
      BY <3>1 DEF None
  <2>3. CASE s.fmt # "ur1"
    <3>1. /\ o \in Garbled(s)
          /\ s.fmt \in {"balqr", "bbqr"}
      BY <1>1, <1>3, <2>1, <2>3 DEF Decoded
    <3>2. o \in {Outcome("refused", None), Outcome("unparsed", None), Outcome("raised", None),
                 Outcome("review", "mixed")}
      BY <3>1 DEF Garbled
    <3>3. QED
      BY <3>1, <3>2 DEF Outcome, None
  <2>4. QED
    BY <2>2, <2>3
<1>4. QED
  BY <1>2, <1>3

-----------------------------------------------------------------------------
(* The inductive invariant.                                                *)

(* The export page shows a code that there is.                             *)
Exporting ==
  /\ page \in [fmt : Formats, will : Wills, size : Sizes, index : Nat \ {0}]
  /\ page.index <= Codes(page)
  /\ show \in {"off", "once", "loop"} /\ reads \in 0 .. ReadsPerCode
  /\ changes \in 0 .. MaxChanges /\ app \in Apps

(* The session is a good one, of the codes that the page's slots name; the *)
(* phone has no slots and no timer.                                        *)
Receiving ==
  /\ debounce = [key |-> debounce.key, last |-> debounce.last,
                 next |-> debounce.next, count |-> debounce.count]
  /\ debounce.count \in 0 .. StableReads - 1
  /\ scanning \in BOOLEAN /\ pending \in BOOLEAN /\ deferred \in BOOLEAN
  /\ outcome.kind \in {None, "review", "refused", "raised", "unparsed"}
  /\ \E R : Good(app, session, R) /\ (app = "desktop" => R = slots)
  /\ app = "phone" => slots = {} /\ ~pending /\ ~deferred
  /\ FinishedOnce

QrInv == Exporting /\ Receiving

(* What the invariant says: types, one transfer, and slots that match.     *)
LEMMA InvIsInOrder ==
  ASSUME QrInv
  PROVE  ImportInOrder
<1>1. PICK R : Good(app, session, R) /\ (app = "desktop" => R = slots)
  BY DEF QrInv, Receiving
<1>2. app \in {"desktop", "phone"}
  BY QrAssumption DEF QrInv, Exporting
<1>3. TypeOK
  <2>1. session.fmt \in Formats \cup {None} /\ session.total \in Nat
    <3>1. session.fmt \in Formats \cup {None}
      BY <1>1 DEF Good
    <3>2. CASE session.fmt = None
      BY <1>1, <3>1, <3>2 DEF Good, NoSession
    <3>3. CASE session.fmt # None
      BY <1>1, <3>1, <3>3 DEF Good
    <3>4. QED
      BY <3>1, <3>2, <3>3
  <2>2. slots \subseteq Nat \ {0}
    <3>1. CASE app = "desktop"
      BY <1>1, <3>1 DEF Good
    <3>2. CASE app = "phone"
      BY <3>2 DEF QrInv, Receiving
    <3>3. QED
      BY <1>2, <3>1, <3>2
  <2>3. {scanning, pending, deferred} \subseteq BOOLEAN
    BY DEF QrInv, Receiving
  <2>4. QED
    BY <2>1, <2>2, <2>3 DEF QrInv, Exporting, Receiving, TypeOK
<1>4. SessionOfOneHeader
  <2>1. SUFFICES ASSUME session.fmt # None, NEW k \in DOMAIN session.parts
                 PROVE  /\ Total(session.fmt, session.parts[k][1], session.parts[k][2]) = session.total
                        /\ Header([fmt |-> session.fmt, will |-> session.parts[k][1]]) = session.header
    BY DEF SessionOfOneHeader
  <2>2. PICK w \in Wills, z \in Sizes :
          /\ session.parts[k] = <<w, z>>
          /\ Parts[app][session.fmt][w][z] = session.total
          /\ Header([fmt |-> session.fmt, will |-> w]) = session.header
    BY <1>1 DEF Good
  <2>3. session.parts[k][1] = w /\ session.parts[k][2] = z
    BY <2>2
  <2>4. QED
    BY <2>2, <2>3 DEF Total
<1>5. SlotsMatchSession
  <2>1. SUFFICES ASSUME app = "desktop"
                 PROVE  /\ session.fmt = None <=> slots = {}
                        /\ session.fmt \in {"balqr", "ur1"} => slots = DOMAIN session.parts
                        /\ session.fmt = "bbqr" => slots = {k + 1 : k \in DOMAIN session.parts}
                        /\ Done(session) => Cardinality(slots) >= session.total
    BY DEF SlotsMatchSession
  <2>2. Good(app, session, slots)
    BY <1>1, <2>1
  <2>3. Done(session) => session.total <= Cardinality(slots)
    BY <2>2, DoneCounted
  <2>4. session.total \in Nat /\ Cardinality(slots) \in Nat
    BY <1>3, <2>2, FS_CardinalityType DEF TypeOK, Good
  <2>5. Done(session) => Cardinality(slots) >= session.total
    BY <2>3, <2>4
  <2>6. QED
    BY <2>2, <2>5 DEF Good
<1>6. FinishedOnce
  BY DEF QrInv, Receiving
<1>7. QED
  BY <1>3, <1>4, <1>5, <1>6 DEF ImportInOrder

(* What the invariant says of the fountain decoder.                        *)
LEMMA InvIsSound ==
  ASSUME QrInv
  PROVE  FountainSound
<1>1. PICK R : Good(app, session, R) /\ (app = "desktop" => R = slots)
  BY DEF QrInv, Receiving
<1>2. app = "phone" => slots = {}
  BY DEF QrInv, Receiving
<1>3. app \in {"desktop", "phone"}
  BY QrAssumption DEF QrInv, Exporting
<1>4. SUFFICES ASSUME session.fmt = "ur2"
      PROVE  /\ Genuine(session.fountain, session.header)
             /\ \A k \in DOMAIN session.fountain.mixed :
                  session.fountain.mixed[k].data =
                    Mix(session.header, session.fountain.mixed[k].indexes)
             /\ Done(session) \/ session.fountain.queue = <<>>
             /\ 1 .. session.total \subseteq slots => Done(session)
  BY DEF FountainSound
<1>5. session.fmt # None /\ session.total \in Nat \ {0}
      /\ DecoderInv(session.fountain, session.header, session.total, R)
  BY <1>1, <1>4 DEF Good, None
<1>6. /\ Genuine(session.fountain, session.header)
      /\ \A k \in DOMAIN session.fountain.mixed :
           session.fountain.mixed[k].data =
             Mix(session.header, session.fountain.mixed[k].indexes)
      /\ Complete(session.fountain, session.total) \/ session.fountain.queue = <<>>
      /\ 1 .. session.total \subseteq R => Complete(session.fountain, session.total)
  BY <1>5, DecoderFacts
<1>7. Done(session) <=> Complete(session.fountain, session.total)
  BY <1>4, <1>5 DEF Done
<1>8. slots \subseteq R
  BY <1>1, <1>2, <1>3
<1>9. QED
  BY <1>6, <1>7, <1>8

(* How many codes there are to show.                                       *)
LEMMA CodesType ==
  ASSUME app \in Apps, NEW p \in [fmt : Formats, will : Wills, size : Sizes, index : Nat \ {0}]
  PROVE  Codes(p) \in Nat \ {0}
<1>1. p.fmt \in Formats /\ p.will \in Wills /\ p.size \in Sizes
  OBVIOUS
<1>2. Total(p.fmt, p.will, p.size) \in Nat \ {0}
  BY <1>1, TotalType
<1> DEFINE n == Total(p.fmt, p.will, p.size)
<1>3. Codes(p) \in {n, 1, 2 * n}
  BY DEF Codes, Ur2Codes
<1> HIDE DEF n
<1>4. n \in Nat \ {0}
  BY <1>2 DEF n
<1>5. QED
  BY <1>3, <1>4

(* A step of the export page leaves the receiver alone.                    *)
LEMMA ReceivingStays ==
  ASSUME Receiving, UNCHANGED <<app, receiverVars>>
  PROVE  Receiving'
BY DEF Receiving, receiverVars, FinishedOnce

(* A step of the receiver leaves the export page alone, but for the count. *)
LEMMA ExportingStays ==
  ASSUME Exporting, UNCHANGED <<exportVars, app>>, CountRead \/ UNCHANGED reads
  PROVE  Exporting'
<1>1. reads' \in 0 .. ReadsPerCode
  BY QrAssumption DEF Exporting, CountRead
<1>2. Codes(page)' = Codes(page)
  BY DEF Codes, Total, exportVars
<1>3. QED
  BY <1>1, <1>2 DEF Exporting, exportVars

(* The invariant holds at the start.                                       *)
LEMMA InitQrInv ==
  Init => QrInv
<1>1. SUFFICES ASSUME Init PROVE QrInv
  OBVIOUS
<1>2. PICK f \in Formats, w \in Wills, z \in Sizes :
        page = [fmt |-> f, will |-> w, size |-> z, index |-> 1]
  BY <1>1 DEF Init
<1>3. page \in [fmt : Formats, will : Wills, size : Sizes, index : Nat \ {0}] /\ page.index = 1
  BY <1>2
<1>4. app \in Apps
  BY <1>1 DEF Init
<1>5. Codes(page) \in Nat \ {0}
  BY <1>3, <1>4, CodesType
<1>6. Exporting
  BY <1>1, <1>3, <1>4, <1>5, QrAssumption DEF Init, Exporting
<1>7. Good(app, session, {}) /\ slots = {}
  BY <1>1, NoSessionGood DEF Init
<1>8. Receiving
  <2>1. debounce = [key |-> debounce.key, last |-> debounce.last,
                    next |-> debounce.next, count |-> debounce.count]
        /\ debounce.count = 0
    BY <1>1 DEF Init, Quiet
  <2>2. outcome.kind = None
    BY <1>1 DEF Init, NoOutcome, Outcome
  <2>3. scanning \in BOOLEAN /\ pending = FALSE /\ deferred = FALSE
    BY <1>1 DEF Init
  <2>4. \E R : Good(app, session, R) /\ (app = "desktop" => R = slots)
    BY <1>7, Zenon
  <2>5. debounce.count \in 0 .. StableReads - 1
    BY <2>1 DEF StableReads
  <2>6. QED
    BY <1>7, <2>1, <2>2, <2>3, <2>4, <2>5 DEF Receiving, FinishedOnce
<1>9. QED
  BY <1>6, <1>8 DEF QrInv

(* The steps of the export page.                                           *)
LEMMA TurnKeeps ==
  ASSUME QrInv, NEW i \in Nat \ {0}, i <= Codes(page), Turn(i), UNCHANGED show
  PROVE  QrInv'
<1>1. /\ page \in [fmt : Formats, will : Wills, size : Sizes, index : Nat \ {0}]
      /\ page' = [page EXCEPT !.index = i] /\ reads' = 0 /\ changes' = changes
      /\ app' = app /\ show' = show
  BY DEF QrInv, Exporting, Turn
<1>2. /\ page' \in [fmt : Formats, will : Wills, size : Sizes, index : Nat \ {0}]
      /\ page'.index = i /\ page'.fmt = page.fmt /\ page'.will = page.will
      /\ page'.size = page.size
  BY <1>1
<1>3. Codes(page)' = Codes(page)
  BY <1>1, <1>2 DEF Codes, Total
<1>4. Exporting'
  BY <1>1, <1>2, <1>3, QrAssumption DEF QrInv, Exporting
<1>5. QED
  BY <1>4, ReceivingStays DEF QrInv, Turn

(* A new export begins at its first code.                                  *)
LEMMA ReexportKeeps ==
  ASSUME QrInv, NEW p \in [fmt : Formats, will : Wills, size : Sizes, index : Nat \ {0}],
         Reexport(p)
  PROVE  QrInv'
<1>1. /\ page' = [p EXCEPT !.index = 1] /\ show' = "off" /\ reads' = 0 /\ app' = app
      /\ changes < MaxChanges /\ changes' = changes + 1
  BY DEF Reexport
<1>2. /\ page' \in [fmt : Formats, will : Wills, size : Sizes, index : Nat \ {0}]
      /\ page'.index = 1
  BY <1>1
<1>3. app \in Apps
  BY DEF QrInv, Exporting
<1>4. Codes(page)' = Codes(page')
  BY <1>1 DEF Codes, Total
<1>5. Codes(page') \in Nat \ {0}
  BY <1>2, <1>3, CodesType
<1>6. changes' \in 0 .. MaxChanges
  BY <1>1, QrAssumption DEF QrInv, Exporting
<1>7. Exporting'
  BY <1>1, <1>2, <1>3, <1>4, <1>5, <1>6, QrAssumption DEF Exporting
<1>8. QED
  BY <1>7, ReceivingStays DEF QrInv, Reexport

(* What is done at the export page keeps the invariant.                    *)
LEMMA ExportSteps ==
  ASSUME QrInv, ChangeExport \/ ToggleAuto \/ Browse \/ AutoStep
  PROVE  QrInv'
<1> DEFINE P == [fmt : Formats, will : Wills, size : Sizes, index : Nat \ {0}]
<1>1. page \in P /\ page.index <= Codes(page) /\ app \in Apps
  BY DEF QrInv, Exporting
<1>2. Codes(page) \in Nat \ {0}
  BY <1>1, CodesType
<1>3. CASE ChangeExport
  <2>1. \A w \in Wills : [page EXCEPT !.will = w] \in P
    BY <1>1
  <2>2. \A f \in Formats : [page EXCEPT !.fmt = f] \in P
    BY <1>1
  <2>3. \A s \in Sizes : [page EXCEPT !.size = s] \in P
    BY <1>1
  <2>4. \E p \in P : Reexport(p)
    BY <1>3, <2>1, <2>2, <2>3 DEF ChangeExport
  <2>5. QED
    BY <2>4, ReexportKeeps
<1>4. CASE ToggleAuto
  <2>1. /\ show' \in {"off", "once", "loop"}
        /\ UNCHANGED <<page, reads, changes, app, receiverVars>>
    BY <1>4 DEF ToggleAuto
  <2>2. Codes(page)' = Codes(page)
    BY <2>1 DEF Codes, Total
  <2>3. Exporting'
    BY <2>1, <2>2 DEF QrInv, Exporting
  <2>4. QED
    BY <2>1, <2>3, ReceivingStays DEF QrInv
<1>5. CASE Browse
  <2>1. \/ page.index > 1 /\ Turn(page.index - 1)
        \/ page.index < Codes(page) /\ Turn(page.index + 1)
    BY <1>5 DEF Browse
  <2>2. UNCHANGED show /\ page.index \in Nat \ {0}
    BY <1>1, <1>5 DEF Browse
  <2>3. \E i \in Nat \ {0} : i <= Codes(page) /\ Turn(i)
    <3>1. CASE page.index > 1 /\ Turn(page.index - 1)
      <4>1. page.index - 1 \in Nat \ {0} /\ page.index - 1 <= Codes(page)
        BY <1>1, <1>2, <2>2, <3>1
      <4>2. QED
        BY <3>1, <4>1, Zenon
    <3>2. CASE page.index < Codes(page) /\ Turn(page.index + 1)
      <4>1. page.index + 1 \in Nat \ {0} /\ page.index + 1 <= Codes(page)
        BY <1>2, <2>2, <3>2
      <4>2. QED
        BY <3>2, <4>1, Zenon
    <3>3. QED
      BY <2>1, <3>1, <3>2
  <2>4. QED
    BY <2>2, <2>3, TurnKeeps
<1>6. CASE AutoStep
  <2>1. CASE page.index < Codes(page)
    <3>1. Turn(page.index + 1) /\ UNCHANGED show
      BY <1>6, <2>1 DEF AutoStep
    <3>2. page.index + 1 \in Nat \ {0} /\ page.index + 1 <= Codes(page)
      BY <1>1, <1>2, <2>1
    <3>3. QED
      BY <3>1, <3>2, TurnKeeps
  <2>2. CASE ~(page.index < Codes(page)) /\ show = "loop"
    <3>1. Turn(1) /\ UNCHANGED show
      BY <1>6, <2>2 DEF AutoStep
    <3>2. 1 <= Codes(page)
      BY <1>2
    <3>3. QED
      BY <3>1, <3>2, TurnKeeps
  <2>3. CASE ~(page.index < Codes(page)) /\ show # "loop"
    <3>1. show' = "off" /\ UNCHANGED <<page, reads, changes, app, receiverVars>>
      BY <1>6, <2>3 DEF AutoStep
    <3>2. Codes(page)' = Codes(page)
      BY <3>1 DEF Codes, Total
    <3>3. Exporting'
      BY <3>1, <3>2 DEF QrInv, Exporting
    <3>4. QED
      BY <3>1, <3>3, ReceivingStays DEF QrInv
  <2>4. QED
    BY <2>1, <2>2, <2>3
<1>7. QED
  BY <1>3, <1>4, <1>5, <1>6

(* What the invariant says of the debounce.                                *)
Debouncing(d) ==
  /\ d = [key |-> d.key, last |-> d.last, next |-> d.next, count |-> d.count]
  /\ d.count \in 0 .. StableReads - 1

Kinds == {None, "review", "refused", "raised", "unparsed"}

(* The receiver's part of the invariant, of the state after a step.        *)
LEMMA NextReceiving ==
  ASSUME app' = app, NEW R, Good(app, session', R), app = "desktop" => R = slots',
         app = "phone" => slots' = {} /\ ~pending' /\ ~deferred',
         Debouncing(debounce'), scanning' \in BOOLEAN, pending' \in BOOLEAN,
         deferred' \in BOOLEAN, outcome'.kind \in Kinds,
         deferred' /\ pending' => ~scanning'
  PROVE  Receiving'
<1>1. \E Q : Good(app', session', Q) /\ (app' = "desktop" => Q = slots')
  <2>1. Good(app', session', R)
    BY Zenon
  <2>2. app' = "desktop" => R = slots'
    OBVIOUS
  <2>3. QED
    BY <2>1, <2>2, Zenon
<1>2. app' = "phone" => slots' = {} /\ ~pending' /\ ~deferred'
  OBVIOUS
<1>3. FinishedOnce'
  BY DEF FinishedOnce
<1>4. QED
  BY <1>1, <1>2, <1>3 DEF Receiving, Debouncing, Kinds

(* _reset_debounce.                                                        *)
LEMMA QuietIsDebouncing ==
  Debouncing(Quiet)
BY DEF Debouncing, Quiet, StableReads

(* The facts of the invariant that every step of the receiver starts from. *)
LEMMA InvFacts ==
  ASSUME QrInv
  PROVE  /\ TypeOK /\ Exporting /\ app \in {"desktop", "phone"}
         /\ Debouncing(debounce)
         /\ scanning \in BOOLEAN /\ pending \in BOOLEAN /\ deferred \in BOOLEAN
         /\ outcome.kind \in Kinds
         /\ \E R : Good(app, session, R) /\ (app = "desktop" => R = slots)
         /\ app = "phone" => slots = {} /\ ~pending /\ ~deferred
         /\ deferred /\ pending => ~scanning
<1>1. TypeOK
  BY InvIsInOrder DEF ImportInOrder
<1>2. app \in {"desktop", "phone"}
  BY QrAssumption DEF QrInv, Exporting
<1>3. QED
  BY <1>1, <1>2 DEF QrInv, Receiving, Debouncing, Kinds, FinishedOnce

(* _reset_all leaves an empty import, and the camera off.                  *)
LEMMA ResetKeeps ==
  ASSUME app = "desktop", app' = app, ResetAll, deferred' \in BOOLEAN, outcome'.kind \in Kinds
  PROVE  Receiving'
<1>1. /\ session' = NoSession /\ slots' = {} /\ debounce' = Quiet
      /\ scanning' = FALSE /\ pending' = FALSE
  BY DEF ResetAll, CameraOff
<1>2. Good(app, session', {})
  <2>1. Good(app, NoSession, {})
    BY NoSessionGood
  <2>2. QED
    BY <1>1, <2>1, Zenon
<1>3. Debouncing(debounce')
  BY <1>1, QuietIsDebouncing, Zenon
<1>4. QED
  BY <1>1, <1>2, <1>3, NextReceiving

(* _add_frame, by the camera or by hand.                                   *)
LEMMA AddFrameKeeps ==
  ASSUME QrInv, app = "desktop", ~deferred, app' = app, outcome' = outcome,
         NEW d, Debouncing(d), AddFrame(Shown, d)
  PROVE  Receiving'
<1>1. /\ TypeOK /\ scanning \in BOOLEAN /\ pending \in BOOLEAN /\ deferred = FALSE
      /\ outcome'.kind \in Kinds
  BY InvFacts
<1>2. Good(app, session, slots)
  BY InvFacts
<1>3. CASE Conflicts(session, Shown)
  <2>1. ResetAll /\ deferred' = deferred
    BY <1>3 DEF AddFrame
  <2>2. QED
    BY <1>1, <2>1, ResetKeeps
<1>4. CASE ~Conflicts(session, Shown)
  <2> DEFINE filled == IF IsDup(session, Shown) THEN slots ELSE slots \cup {Slot(Shown)}
  <2>1. Good(app, AddPart(session, Shown), filled)
    BY <1>1, <1>2, <1>4, AddPartGood
  <2>2. /\ session' = AddPart(session, Shown) /\ slots' = filled
        /\ \/ CameraOff /\ pending' = TRUE /\ deferred' = TRUE
           \/ debounce' = d /\ UNCHANGED <<scanning, pending, deferred>>
    BY <1>4 DEF AddFrame, Finish
  <2> HIDE DEF filled
  <2>3. Good(app, session', slots')
    BY <2>1, <2>2, Zenon
  <2>4. CASE CameraOff /\ pending' = TRUE /\ deferred' = TRUE
    <3>1. debounce' = Quiet /\ scanning' = FALSE
      BY <2>4 DEF CameraOff
    <3>2. Debouncing(debounce')
      BY <3>1, QuietIsDebouncing, Zenon
    <3>3. QED
      BY <1>1, <2>3, <2>4, <3>1, <3>2, NextReceiving
  <2>5. CASE debounce' = d /\ UNCHANGED <<scanning, pending, deferred>>
    <3>1. Debouncing(debounce')
      BY <2>5, Zenon
    <3>2. QED
      BY <1>1, <2>3, <2>5, <3>1, NextReceiving
  <2>6. QED
    BY <2>2, <2>4, <2>5
<1>5. QED
  BY <1>3, <1>4

(* The steps of the import page.                                           *)
LEMMA TickKeeps ==
  ASSUME QrInv, Tick
  PROVE  QrInv'
<1> DEFINE c == Shown
           waiting == Waiting(c)
<1>1. /\ app = "desktop" /\ ~deferred /\ app' = app /\ outcome' = outcome
      /\ CountRead /\ UNCHANGED exportVars
  BY DEF Tick
<1>2. /\ TypeOK /\ Exporting /\ Debouncing(debounce) /\ scanning \in BOOLEAN
      /\ pending \in BOOLEAN /\ deferred = FALSE /\ outcome'.kind \in Kinds
      /\ Good(app, session, slots)
  BY <1>1, InvFacts
<1>3. Exporting'
  BY <1>1, <1>2, ExportingStays
<1>4. /\ waiting = [key |-> debounce.key, last |-> debounce.last, next |-> c,
                    count |-> waiting.count]
      /\ waiting.count \in Nat
  <2> HIDE DEF c
  <2>1. debounce = [key |-> debounce.key, last |-> debounce.last,
                    next |-> debounce.next, count |-> debounce.count]
        /\ debounce.count \in 0 .. 1
    BY <1>2 DEF Debouncing, StableReads
  <2> DEFINE n == IF debounce.next = c THEN debounce.count + 1 ELSE 1
  <2>2. waiting = [debounce EXCEPT !.next = c, !.count = n]
    BY DEF Waiting
  <2>3. n \in Nat
    BY <2>1
  <2> HIDE DEF n, waiting
  <2>4. waiting = [key |-> debounce.key, last |-> debounce.last, next |-> c, count |-> n]
    BY <2>1, <2>2
  <2>5. QED
    BY <2>3, <2>4
<1> HIDE DEF waiting
<1>5. \/ ResetAll /\ UNCHANGED deferred
      \/ UNCHANGED <<session, slots, debounce, scanning, pending, deferred>>
      \/ AddFrame(c, [key |-> Key(c), last |-> c, next |-> NoCode, count |-> 0])
      \/ /\ ~(waiting.count >= StableReads)
         /\ debounce' = waiting /\ UNCHANGED <<session, slots, scanning, pending, deferred>>
  BY DEF Tick, waiting
<1>6. CASE ResetAll /\ UNCHANGED deferred
  BY <1>1, <1>2, <1>3, <1>6, ResetKeeps DEF QrInv
<1>7. CASE UNCHANGED <<session, slots, debounce, scanning, pending, deferred>>
  BY <1>1, <1>3, <1>7, ReceivingStays DEF QrInv, receiverVars
<1>8. CASE AddFrame(c, [key |-> Key(c), last |-> c, next |-> NoCode, count |-> 0])
  <2>1. Debouncing([key |-> Key(c), last |-> c, next |-> NoCode, count |-> 0])
    BY DEF Debouncing, StableReads
  <2>2. Receiving'
    BY <1>1, <1>8, <2>1, AddFrameKeeps
  <2>3. QED
    BY <1>3, <2>2 DEF QrInv
<1>9. CASE /\ ~(waiting.count >= StableReads)
           /\ debounce' = waiting /\ UNCHANGED <<session, slots, scanning, pending, deferred>>
  <2>1. Debouncing(waiting)
    BY <1>4, <1>9 DEF Debouncing, StableReads
  <2>2. Debouncing(debounce')
    BY <1>9, <2>1, Zenon
  <2>3. Good(app, session', slots')
    BY <1>2, <1>9, Zenon
  <2>4. Receiving'
    BY <1>1, <1>2, <1>9, <2>2, <2>3, NextReceiving
  <2>5. QED
    BY <1>3, <2>4 DEF QrInv
<1>10. QED
  BY <1>5, <1>6, <1>7, <1>8, <1>9

(* A code that is typed.                                                   *)
LEMMA AddManuallyKeeps ==
  ASSUME QrInv, AddManually
  PROVE  QrInv'
<1>1. /\ app = "desktop" /\ ~deferred /\ AddFrame(Shown, debounce)
      /\ UNCHANGED <<exportVars, reads, app, outcome>>
  BY DEF AddManually
<1>2. Exporting /\ Debouncing(debounce)
  BY InvFacts
<1>3. Exporting'
  BY <1>1, <1>2, ExportingStays
<1>4. Receiving'
  BY <1>1, <1>2, AddFrameKeeps
<1>5. QED
  BY <1>3, <1>4 DEF QrInv

(* The camera is switched on or off.                                       *)
LEMMA ToggleScanKeeps ==
  ASSUME QrInv, ToggleScan
  PROVE  QrInv'
<1>1. /\ app = "desktop" /\ UNCHANGED <<exportVars, reads, app, session, slots, deferred, outcome>>
      /\ debounce' = Quiet
      /\ \/ scanning' = FALSE /\ pending' = pending
         \/ scanning' = TRUE /\ pending' = FALSE
  BY DEF ToggleScan, CameraOff
<1>2. /\ Exporting /\ deferred' \in BOOLEAN /\ pending \in BOOLEAN
      /\ outcome'.kind \in Kinds /\ Good(app, session, slots)
  BY <1>1, InvFacts
<1>3. Exporting'
  BY <1>1, <1>2, ExportingStays
<1>4. Debouncing(debounce')
  BY <1>1, QuietIsDebouncing, Zenon
<1>5. Good(app, session', slots')
  BY <1>1, <1>2, Zenon
<1>6. Receiving'
  BY <1>1, <1>2, <1>4, <1>5, NextReceiving
<1>7. QED
  BY <1>3, <1>6 DEF QrInv

(* The Reset button.                                                       *)
LEMMA ResetStep ==
  ASSUME QrInv, Reset
  PROVE  QrInv'
<1>1. /\ app = "desktop" /\ ResetAll /\ outcome' = NoOutcome
      /\ UNCHANGED <<exportVars, reads, app, deferred>>
  BY DEF Reset
<1>2. Exporting /\ deferred' \in BOOLEAN
  BY <1>1, InvFacts
<1>3. Exporting'
  BY <1>1, <1>2, ExportingStays
<1>4. outcome'.kind \in Kinds
  BY <1>1 DEF NoOutcome, Outcome, Kinds
<1>5. Receiving'
  BY <1>1, <1>2, <1>4, ResetKeeps
<1>6. QED
  BY <1>3, <1>5 DEF QrInv

(* _review_and_sign, with what it gives.                                   *)
LEMMA ReviewKeeps ==
  ASSUME QrInv, ReviewAndSign
  PROVE  /\ QrInv'
         /\ outcome'.what = "mixed" /\ outcome' # outcome => session'.fmt \in {"balqr", "bbqr"}
<1>1. /\ app = "desktop" /\ deferred' = FALSE /\ UNCHANGED <<exportVars, reads, app>>
      /\ IF ~Done(session)
         THEN UNCHANGED <<session, slots, debounce, scanning, pending, outcome>>
         ELSE /\ outcome' \in Decoded(session)
              /\ CASE outcome'.kind = "refused" -> ResetAll
                   [] outcome'.kind = "review" -> CameraOff /\ UNCHANGED <<session, slots, pending>>
                   [] OTHER -> UNCHANGED <<session, slots, debounce, scanning, pending>>
  BY DEF ReviewAndSign
<1>2. /\ Exporting /\ Debouncing(debounce) /\ scanning \in BOOLEAN /\ pending \in BOOLEAN
      /\ outcome.kind \in Kinds /\ Good(app, session, slots)
  BY <1>1, InvFacts
<1>3. Exporting'
  BY <1>1, <1>2, ExportingStays
<1>4. CASE ~Done(session)
  <2>1. UNCHANGED <<session, slots, debounce, scanning, pending, outcome>>
    BY <1>1, <1>4
  <2>2. Good(app, session', slots')
    BY <1>2, <2>1, Zenon
  <2>3. Debouncing(debounce') /\ outcome'.kind \in Kinds
    BY <1>2, <2>1, Zenon
  <2>4. Receiving'
    BY <1>1, <1>2, <2>1, <2>2, <2>3, NextReceiving
  <2>5. QED
    BY <1>3, <2>1, <2>4 DEF QrInv
<1>5. CASE Done(session)
  <2>1. /\ outcome' \in Decoded(session) /\ session.fmt # None
        /\ \/ outcome'.kind = "refused" /\ ResetAll
           \/ outcome'.kind = "review" /\ CameraOff /\ UNCHANGED <<session, slots, pending>>
           \/ outcome'.kind # "review" /\ UNCHANGED <<session, slots, debounce, scanning, pending>>
    BY <1>1, <1>5 DEF Done
  <2>2. /\ outcome'.kind \in {"review", "refused", "raised", "unparsed"}
        /\ outcome'.what = "mixed" => session.fmt \in {"balqr", "bbqr"} /\ outcome'.kind = "review"
    BY <1>2, <2>1, DecodedIs
  <2>3. outcome'.kind \in Kinds
    BY <2>2 DEF Kinds
  <2>4. outcome'.what = "mixed" => session'.fmt \in {"balqr", "bbqr"}
    BY <2>1, <2>2
  <2>5. CASE ResetAll
    <3>1. Receiving'
      BY <1>1, <2>3, <2>5, ResetKeeps
    <3>2. QED
      BY <1>3, <2>4, <3>1 DEF QrInv
  <2>6. CASE CameraOff /\ UNCHANGED <<session, slots, pending>>
    <3>1. debounce' = Quiet /\ scanning' = FALSE
      BY <2>6 DEF CameraOff
    <3>2. Debouncing(debounce')
      BY <3>1, QuietIsDebouncing, Zenon
    <3>3. Good(app, session', slots')
      BY <1>2, <2>6, Zenon
    <3>4. Receiving'
      BY <1>1, <1>2, <2>3, <2>6, <3>1, <3>2, <3>3, NextReceiving
    <3>5. QED
      BY <1>3, <2>4, <3>4 DEF QrInv
  <2>7. CASE UNCHANGED <<session, slots, debounce, scanning, pending>>
    <3>1. Debouncing(debounce')
      BY <1>2, <2>7, Zenon
    <3>2. Good(app, session', slots')
      BY <1>2, <2>7, Zenon
    <3>3. Receiving'
      BY <1>1, <1>2, <2>3, <2>7, <3>1, <3>2, NextReceiving
    <3>4. QED
      BY <1>3, <2>4, <3>3 DEF QrInv
  <2>8. QED
    BY <2>1, <2>5, <2>6, <2>7
<1>6. QED
  BY <1>4, <1>5

(* handleFrame of the phone, with what it gives.                           *)
LEMMA PhoneReadsKeeps ==
  ASSUME QrInv, PhoneReads
  PROVE  /\ QrInv'
         /\ outcome'.what = "mixed" /\ outcome' # outcome => session'.fmt \in {"balqr", "bbqr"}
<1> DEFINE c == Shown
           added == AddPart(session, c)
<1>1. /\ app = "phone" /\ CountRead
      /\ UNCHANGED <<exportVars, app, slots, debounce, pending, deferred>>
      /\ \/ session' = NoSession /\ UNCHANGED <<scanning, outcome>>
         \/ UNCHANGED <<session, scanning, outcome>>
         \/ ~Conflicts(session, c) /\ session' = added /\ UNCHANGED <<scanning, outcome>>
         \/ /\ ~Conflicts(session, c) /\ session' = added
            /\ scanning' = FALSE /\ outcome' \in Decoded(added)
  BY DEF PhoneReads
<1>2. /\ TypeOK /\ Exporting /\ Debouncing(debounce) /\ scanning \in BOOLEAN
      /\ outcome.kind \in Kinds /\ slots = {} /\ pending = FALSE /\ deferred = FALSE
  BY <1>1, InvFacts
<1>3. PICK R : Good(app, session, R)
  BY InvFacts
<1>4. Exporting'
  BY <1>1, <1>2, ExportingStays
<1>5. app # "desktop" /\ Debouncing(debounce')
  BY <1>1, <1>2, Zenon
<1> HIDE DEF c, added
<1>6. ASSUME ~Conflicts(session, c)
      PROVE  added.fmt # None /\ \E Q : Good(app, added, Q)
  BY <1>2, <1>3, <1>6, AddPartGood DEF c, added
<1>7. CASE session' = NoSession /\ UNCHANGED <<scanning, outcome>>
  <2>1. Good(app, session', {})
    <3>1. Good(app, NoSession, {})
      BY NoSessionGood
    <3>2. QED
      BY <1>7, <3>1, Zenon
  <2>2. outcome'.kind \in Kinds
    BY <1>2, <1>7, Zenon
  <2>3. Receiving'
    BY <1>1, <1>2, <1>5, <1>7, <2>1, <2>2, NextReceiving
  <2>4. QED
    BY <1>4, <1>7, <2>3 DEF QrInv
<1>8. CASE UNCHANGED <<session, scanning, outcome>>
  <2>1. UNCHANGED <<app, receiverVars>>
    BY <1>1, <1>8 DEF receiverVars
  <2>2. QED
    BY <1>4, <1>8, <2>1, ReceivingStays DEF QrInv
<1>9. CASE ~Conflicts(session, c) /\ session' = added /\ UNCHANGED <<scanning, outcome>>
  <2>1. PICK Q : Good(app, added, Q)
    BY <1>6, <1>9
  <2>2. Good(app, session', Q)
    BY <1>9, <2>1, Zenon
  <2>3. outcome'.kind \in Kinds
    BY <1>2, <1>9, Zenon
  <2>4. Receiving'
    BY <1>1, <1>2, <1>5, <1>9, <2>2, <2>3, NextReceiving
  <2>5. QED
    BY <1>4, <1>9, <2>4 DEF QrInv
<1>10. CASE /\ ~Conflicts(session, c) /\ session' = added
            /\ scanning' = FALSE /\ outcome' \in Decoded(added)
  <2>1. PICK Q : Good(app, added, Q)
    BY <1>6, <1>10
  <2>2. Good(app, session', Q)
    BY <1>10, <2>1, Zenon
  <2>3. /\ outcome'.kind \in {"review", "refused", "raised", "unparsed"}
        /\ outcome'.what = "mixed" => added.fmt \in {"balqr", "bbqr"}
    BY <1>6, <1>10, <2>1, DecodedIs
  <2>4. outcome'.kind \in Kinds /\ (outcome'.what = "mixed" => session'.fmt \in {"balqr", "bbqr"})
    BY <1>10, <2>3 DEF Kinds
  <2>5. Receiving'
    BY <1>1, <1>2, <1>5, <1>10, <2>2, <2>4, NextReceiving
  <2>6. QED
    BY <1>4, <2>4, <2>5 DEF QrInv
<1>11. QED
  BY <1>1, <1>7, <1>8, <1>9, <1>10

(* onResume of the phone.                                                  *)
LEMMA PhoneResumesKeeps ==
  ASSUME QrInv, PhoneResumes
  PROVE  QrInv'
<1>1. /\ app = "phone" /\ scanning' = TRUE /\ session' = NoSession /\ outcome' = NoOutcome
      /\ UNCHANGED <<exportVars, reads, app, slots, debounce, pending, deferred>>
  BY DEF PhoneResumes
<1>2. /\ Exporting /\ Debouncing(debounce) /\ slots = {} /\ pending = FALSE /\ deferred = FALSE
  BY <1>1, InvFacts
<1>3. Exporting'
  BY <1>1, <1>2, ExportingStays
<1>4. Good(app, session', {})
  <2>1. Good(app, NoSession, {})
    BY NoSessionGood
  <2>2. QED
    BY <1>1, <2>1, Zenon
<1>5. outcome'.kind \in Kinds
  BY <1>1 DEF NoOutcome, Outcome, Kinds
<1>6. app # "desktop" /\ Debouncing(debounce')
  BY <1>1, <1>2, Zenon
<1>7. Receiving'
  BY <1>1, <1>2, <1>4, <1>5, <1>6, NextReceiving
<1>8. QED
  BY <1>3, <1>7 DEF QrInv

(* A step that changes nothing.                                            *)
LEMMA StutterKeeps ==
  ASSUME QrInv, UNCHANGED vars
  PROVE  QrInv'
<1>1. UNCHANGED <<exportVars, reads, app>> /\ UNCHANGED <<app, receiverVars>>
  BY DEF vars, receiverVars
<1>2. QED
  BY <1>1, ExportingStays, ReceivingStays DEF QrInv

(* Every step keeps the invariant, and a mixture is reviewed only in a     *)
(* format without a digest.                                                *)
LEMMA NextQrInv ==
  ASSUME QrInv, [Next]_vars
  PROVE  /\ QrInv'
         /\ outcome'.what = "mixed" /\ outcome' # outcome => session'.fmt \in {"balqr", "bbqr"}
<1>1. CASE ChangeExport \/ ToggleAuto \/ Browse \/ AutoStep
  <2>1. outcome' = outcome
    BY <1>1 DEF ChangeExport, Reexport, ToggleAuto, Browse, AutoStep, Turn, receiverVars
  <2>2. QED
    BY <1>1, <2>1, ExportSteps
<1>2. CASE Tick
  BY <1>2, TickKeeps DEF Tick
<1>3. CASE AddManually
  BY <1>3, AddManuallyKeeps DEF AddManually
<1>4. CASE ToggleScan
  BY <1>4, ToggleScanKeeps DEF ToggleScan
<1>5. CASE Reset
  <2>1. outcome'.what # "mixed"
    BY <1>5 DEF Reset, NoOutcome, Outcome, None
  <2>2. QED
    BY <1>5, <2>1, ResetStep
<1>6. CASE ReviewAndSign
  BY <1>6, ReviewKeeps
<1>7. CASE PhoneReads
  BY <1>7, PhoneReadsKeeps
<1>8. CASE PhoneResumes
  <2>1. outcome'.what # "mixed"
    BY <1>8 DEF PhoneResumes, NoOutcome, Outcome, None
  <2>2. QED
    BY <1>8, <2>1, PhoneResumesKeeps
<1>9. CASE UNCHANGED vars
  BY <1>9, StutterKeeps DEF vars, receiverVars
<1>10. QED
  BY <1>1, <1>2, <1>3, <1>4, <1>5, <1>6, <1>7, <1>8, <1>9 DEF Next

(* QrInv is an inductive invariant.                                        *)
LEMMA QrInvariant ==
  Spec => []QrInv
<1>1. QrInv /\ [Next]_vars => QrInv'
  BY NextQrInv
<1>2. QED
  BY <1>1, InitQrInv, PTL DEF Spec

(* The import page is in order: the parts in a session belong together as  *)
(* far as their headers tell, its slots are those of the parts it has, a   *)
(* session that is done can be reviewed, and the review that opens by      *)
(* itself finds the camera off; for every number of wills, sizes and       *)
(* parts, and whatever codes are read, missed or typed                     *)
(* (dialogs.py, BalQrImportWidget; animated_qr.py, the sessions).          *)
THEOREM ImportAlwaysInOrder ==
  Spec => []ImportInOrder
<1>1. QrInv => ImportInOrder
  BY InvIsInOrder
<1>2. QED
  BY <1>1, QrInvariant, PTL

(* The fountain decoder never computes a wrong fragment, its queue is      *)
(* empty between two parts, and the plain parts are enough to be done      *)
(* (animated_qr.py, _receive).                                             *)
THEOREM DecoderAlwaysSound ==
  Spec => []FountainSound
<1>1. QrInv => FountainSound
  BY InvIsSound
<1>2. QED
  BY <1>1, QrInvariant, PTL

(* Only the two formats whose codes do not name their transfer can give a  *)
(* mixture of two wills (animated_qr.py, decode_transfer).                 *)
THEOREM MixturesLackDigest ==
  Spec => MixedOnlyWithoutDigest
<1>1. QrInv /\ [Next]_vars =>
        [outcome'.what = "mixed" /\ outcome' # outcome => session'.fmt \in {"balqr", "bbqr"}]_vars
  BY NextQrInv
<1>2. QED
  BY <1>1, QrInvariant, PTL DEF Spec, MixedOnlyWithoutDigest
=============================================================================

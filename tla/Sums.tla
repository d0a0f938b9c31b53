-------------------------------- MODULE Sums --------------------------------
(***************************************************************************)
(* Facts about the sums MapThenSumSet computes over a finite set: the sum  *)
(* of a user's quantities is what assets.py and holdings.py are about.     *)
(*                                                                         *)
(* Each of them is an induction over the set.  The induction theorems of   *)
(* the library take an operator as a parameter; here a property that fails *)
(* somewhere fails on a smallest subset (SmallestSet), which is a          *)
(* first-order fact: the subsets of a finite set are well-founded by       *)
(* inclusion.                                                              *)
(***************************************************************************)
EXTENDS Integers, Sequences, FiniteSets, FiniteSetsExt, FiniteSetTheorems, TLAPS

\* What a sum over a set is: of the elements it picks, one after the other.
SumOver(f, S) == MapThenSumSet(LAMBDA i : f[i], S)

\* The element MapThenSumSet takes first, and the recursive function it defines.
Pick(T) == CHOOSE x \in T : TRUE

Partial(g, f, S) ==
  g = [T \in SUBSET S |-> IF T = {} THEN 0 ELSE f[Pick(T)] + g[T \ {Pick(T)}]]

\* A set of subsets that is not empty has a smallest member.
LEMMA SmallestSet ==
  ASSUME NEW S, IsFiniteSet(S), NEW Bad \in SUBSET (SUBSET S), Bad # {}
  PROVE  \E T \in Bad : \A U \in Bad : U \subseteq T => U = T
<1>1. /\ IsWellFoundedOn(StrictSubsetOrdering(S), FiniteSubsetsOf(S))
      /\ FiniteSubsetsOf(S) = SUBSET S
  BY FS_StrictSubsetOrderingWellFounded, FS_FiniteSubsetsOfFinite
<1>2. PICK T \in Bad : \A U \in Bad : <<U, T>> \notin StrictSubsetOrdering(S)
  BY <1>1, WFMin
<1>3. ASSUME NEW U \in Bad, U \subseteq T, U # T PROVE FALSE
  BY <1>2, <1>3 DEF StrictSubsetOrdering
<1>4. QED BY <1>2, <1>3

\* What is picked of a set is in it.
LEMMA PickIn == ASSUME NEW T, T # {} PROVE Pick(T) \in T
BY DEF Pick

\* Two tables of partial sums agree wherever both are defined.
LEMMA PartialsAgree ==
  ASSUME NEW f, NEW S, IsFiniteSet(S), NEW V, NEW g, NEW h, Partial(g, f, S), Partial(h, f, V)
  PROVE  \A T \in SUBSET S : T \subseteq V => g[T] = h[T]
<1> DEFINE Bad == {T \in SUBSET S : T \subseteq V /\ g[T] # h[T]}
<1> SUFFICES ASSUME Bad # {} PROVE FALSE
  OBVIOUS
<1>1. PICK T \in Bad : \A U \in Bad : U \subseteq T => U = T
  <2> HIDE DEF Bad
  <2>1. Bad \in SUBSET (SUBSET S) BY DEF Bad
  <2>2. QED BY <2>1, SmallestSet
<1>2. /\ g[T] = IF T = {} THEN 0 ELSE f[Pick(T)] + g[T \ {Pick(T)}]
      /\ h[T] = IF T = {} THEN 0 ELSE f[Pick(T)] + h[T \ {Pick(T)}]
  BY <1>1 DEF Partial
<1>3. CASE T = {}
  BY <1>1, <1>2, <1>3
<1>4. CASE T # {}
  <2>1. T \ {Pick(T)} \notin Bad
    BY <1>1, <1>4, PickIn
  <2>2. g[T \ {Pick(T)}] = h[T \ {Pick(T)}]
    BY <1>1, <2>1
  <2>3. QED BY <1>1, <1>2, <1>4, <2>2
<1>5. QED BY <1>3, <1>4

\* There is a table of the partial sums of a finite set.
LEMMA PartialExists ==
  ASSUME NEW f, NEW S, IsFiniteSet(S)
  PROVE  \E g : Partial(g, f, S)
<1> DEFINE Bad == {T \in SUBSET S : ~ \E g : Partial(g, f, T)}
<1> SUFFICES ASSUME Bad # {} PROVE FALSE
  OBVIOUS
<1>1. PICK T \in Bad : \A U \in Bad : U \subseteq T => U = T
  <2> HIDE DEF Bad
  <2>1. Bad \in SUBSET (SUBSET S) BY DEF Bad
  <2>2. QED BY <2>1, SmallestSet
<1> DEFINE H(U) == CHOOSE h : Partial(h, f, U)
           step(W) == IF W = {} THEN 0 ELSE f[Pick(W)] + H(W \ {Pick(W)})[W \ {Pick(W)}]
           g == [W \in SUBSET T |-> step(W)]
<1>2. ASSUME NEW U \in SUBSET T, U # T PROVE Partial(H(U), f, U)
  <2>1. U \notin Bad /\ U \in SUBSET S BY <1>1, <1>2
  <2>2. \E h : Partial(h, f, U) BY <2>1
  <2>3. QED BY <2>2
<1> HIDE DEF H
<1>3. ASSUME NEW U \in SUBSET T, U # T PROVE g[U] = H(U)[U]
  <2>1. H(U)[U] = IF U = {} THEN 0 ELSE f[Pick(U)] + H(U)[U \ {Pick(U)}]
    BY <1>2, <1>3 DEF Partial
  <2>2. CASE U = {}
    BY <2>1, <2>2
  <2>3. CASE U # {}
    <3> DEFINE V == U \ {Pick(U)}
    <3>1. V \in SUBSET U /\ V \in SUBSET T /\ V # T
      BY <2>3, PickIn
    <3>2. Partial(H(V), f, V) /\ Partial(H(U), f, U) /\ IsFiniteSet(V)
      BY <1>1, <1>2, <1>3, <3>1, FS_Subset
    <3>3. H(V)[V] = H(U)[V]
      <4> HIDE DEF V
      <4>1. QED BY <3>1, <3>2, PartialsAgree
    <3>4. QED BY <2>1, <2>3, <3>3
  <2>4. QED BY <2>2, <2>3
<1>4. ASSUME NEW W \in SUBSET T, W # {} PROVE g[W \ {Pick(W)}] = H(W \ {Pick(W)})[W \ {Pick(W)}]
  <2>1. W \ {Pick(W)} \in SUBSET T /\ W \ {Pick(W)} # T
    BY <1>4, PickIn
  <2>2. QED BY <1>3, <2>1
<1>5. g = [W \in SUBSET T |-> IF W = {} THEN 0 ELSE f[Pick(W)] + g[W \ {Pick(W)}]]
  <2>1. ASSUME NEW W \in SUBSET T
        PROVE  step(W) = IF W = {} THEN 0 ELSE f[Pick(W)] + g[W \ {Pick(W)}]
    BY <1>4
  <2> HIDE DEF step
  <2>2. g = [W \in SUBSET T |-> step(W)] OBVIOUS
  <2> HIDE DEF g
  <2>3. QED BY <2>1, <2>2
<1>6. Partial(g, f, T)
  BY <1>5 DEF Partial
<1>7. QED BY <1>1, <1>6

\* The sum is the entry of such a table for the whole set.
LEMMA SumIsPartial ==
  ASSUME NEW f, NEW S, IsFiniteSet(S)
  PROVE  \E g : Partial(g, f, S) /\ SumOver(f, S) = g[S]
<1> DEFINE g == CHOOSE iter : iter = [T \in SUBSET S |->
                 IF T = {} THEN 0
                 ELSE f[CHOOSE x \in T : TRUE] + iter[T \ {CHOOSE x \in T : TRUE}]]
<1>1. SumOver(f, S) = g[S]
  BY DEF SumOver, MapThenSumSet, MapThenFoldSet
<1>2. \E iter : iter = [T \in SUBSET S |->
                 IF T = {} THEN 0
                 ELSE f[CHOOSE x \in T : TRUE] + iter[T \ {CHOOSE x \in T : TRUE}]]
  <2>1. PICK h : Partial(h, f, S)
    BY PartialExists
  <2>2. h = [T \in SUBSET S |->
               IF T = {} THEN 0
               ELSE f[CHOOSE x \in T : TRUE] + h[T \ {CHOOSE x \in T : TRUE}]]
    BY <2>1 DEF Partial, Pick
  <2>3. QED BY ONLY <2>2
<1>3. g = [T \in SUBSET S |->
                 IF T = {} THEN 0
                 ELSE f[CHOOSE x \in T : TRUE] + g[T \ {CHOOSE x \in T : TRUE}]]
  BY <1>2
<1> HIDE DEF g
<1>4. QED BY <1>1, <1>3 DEF Partial, Pick

\* Nothing adds up to zero.
LEMMA SumEmpty == ASSUME NEW f PROVE SumOver(f, {}) = 0
<1>1. PICK g : Partial(g, f, {}) /\ SumOver(f, {}) = g[{}]
  BY SumIsPartial, FS_EmptySet
<1>2. QED BY <1>1 DEF Partial

\* The picked element, and the sum of the others.
LEMMA SumPick ==
  ASSUME NEW f, NEW S, IsFiniteSet(S), S # {}
  PROVE  SumOver(f, S) = f[Pick(S)] + SumOver(f, S \ {Pick(S)})
<1> DEFINE R == S \ {Pick(S)}
<1>1. PICK g : Partial(g, f, S) /\ SumOver(f, S) = g[S]
  BY SumIsPartial
<1>2. IsFiniteSet(R) /\ R \subseteq S
  BY FS_Subset
<1>3. PICK h : Partial(h, f, R) /\ SumOver(f, R) = h[R]
  <2> HIDE DEF R
  <2>1. QED BY <1>2, SumIsPartial
<1>4. g[R] = h[R]
  <2> HIDE DEF R
  <2>1. QED BY <1>1, <1>2, <1>3, PartialsAgree
<1>5. g[S] = f[Pick(S)] + g[R]
  BY <1>1 DEF Partial
<1>6. QED BY <1>1, <1>3, <1>4, <1>5

\* Equal terms have equal sums.
LEMMA SumSame ==
  ASSUME NEW S, IsFiniteSet(S), NEW f, NEW h, \A x \in S : f[x] = h[x]
  PROVE  SumOver(f, S) = SumOver(h, S)
<1> DEFINE Bad == {T \in SUBSET S : SumOver(f, T) # SumOver(h, T)}
<1> SUFFICES ASSUME Bad # {} PROVE FALSE
  OBVIOUS
<1>1. PICK T \in Bad : \A U \in Bad : U \subseteq T => U = T
  <2> HIDE DEF Bad
  <2>1. Bad \in SUBSET (SUBSET S) BY DEF Bad
  <2>2. QED BY <2>1, SmallestSet
<1>2. T # {}
  BY <1>1, SumEmpty
<1>3. IsFiniteSet(T) /\ Pick(T) \in T
  BY <1>1, <1>2, FS_Subset, PickIn
<1>4. SumOver(f, T \ {Pick(T)}) = SumOver(h, T \ {Pick(T)})
  <2>1. T \ {Pick(T)} \notin Bad BY <1>1, <1>3
  <2>2. QED BY <1>1, <2>1
<1>5. /\ SumOver(f, T) = f[Pick(T)] + SumOver(f, T \ {Pick(T)})
      /\ SumOver(h, T) = h[Pick(T)] + SumOver(h, T \ {Pick(T)})
  BY <1>2, <1>3, SumPick
<1>6. QED BY <1>1, <1>3, <1>4, <1>5

\* Integers add up to an integer.
LEMMA SumInt ==
  ASSUME NEW S, IsFiniteSet(S), NEW f, \A x \in S : f[x] \in Int
  PROVE  SumOver(f, S) \in Int
<1> DEFINE Bad == {T \in SUBSET S : SumOver(f, T) \notin Int}
<1> SUFFICES ASSUME Bad # {} PROVE FALSE
  OBVIOUS
<1>1. PICK T \in Bad : \A U \in Bad : U \subseteq T => U = T
  <2> HIDE DEF Bad
  <2>1. Bad \in SUBSET (SUBSET S) BY DEF Bad
  <2>2. QED BY <2>1, SmallestSet
<1>2. T # {}
  <2>1. SumOver(f, {}) \in Int BY SumEmpty
  <2>2. SumOver(f, T) \notin Int BY <1>1
  <2>3. QED BY ONLY <2>1, <2>2
<1>3. IsFiniteSet(T) /\ Pick(T) \in T
  BY <1>1, <1>2, FS_Subset, PickIn
<1>4. SumOver(f, T \ {Pick(T)}) \in Int
  <2>1. T \ {Pick(T)} \notin Bad BY <1>1, <1>3
  <2>2. QED BY <1>1, <2>1
<1>5. SumOver(f, T) = f[Pick(T)] + SumOver(f, T \ {Pick(T)})
  BY <1>2, <1>3, SumPick
<1>6. QED BY <1>1, <1>3, <1>4, <1>5

\* Any element, not only the one picked, can be split off.
LEMMA SumSplit ==
  ASSUME NEW S, IsFiniteSet(S), NEW f, \A x \in S : f[x] \in Int, NEW e \in S
  PROVE  SumOver(f, S) = f[e] + SumOver(f, S \ {e})
<1> DEFINE Bad == {T \in SUBSET S : \E x \in T : SumOver(f, T) # f[x] + SumOver(f, T \ {x})}
<1> SUFFICES ASSUME Bad # {} PROVE FALSE
  OBVIOUS
<1>1. PICK T \in Bad : \A U \in Bad : U \subseteq T => U = T
  <2> HIDE DEF Bad
  <2>1. Bad \in SUBSET (SUBSET S) BY DEF Bad
  <2>2. QED BY <2>1, SmallestSet
<1>2. PICK x \in T : SumOver(f, T) # f[x] + SumOver(f, T \ {x})
  BY <1>1
<1> DEFINE p == Pick(T)
<1>3. IsFiniteSet(T) /\ p \in T /\ T \subseteq S
  BY <1>1, <1>2, FS_Subset, PickIn
<1>4. SumOver(f, T) = f[p] + SumOver(f, T \ {p})
  BY <1>2, <1>3, SumPick
<1>5. x # p
  BY <1>2, <1>4
<1>6. SumOver(f, T \ {p}) = f[x] + SumOver(f, (T \ {p}) \ {x})
  <2>1. T \ {p} \notin Bad BY <1>1, <1>3
  <2>2. QED BY <1>2, <1>3, <1>5, <2>1
<1>7. SumOver(f, T \ {x}) = f[p] + SumOver(f, (T \ {x}) \ {p})
  <2>1. T \ {x} \notin Bad BY <1>1, <1>2
  <2>2. QED BY <1>2, <1>3, <1>5, <2>1
<1>8. (T \ {p}) \ {x} = (T \ {x}) \ {p}
  OBVIOUS
<1>9. SumOver(f, (T \ {x}) \ {p}) \in Int
  <2>1. IsFiniteSet((T \ {x}) \ {p}) BY <1>3, FS_Subset
  <2> DEFINE V == (T \ {x}) \ {p}
  <2>2. \A y \in V : f[y] \in Int BY <1>3
  <2> HIDE DEF V
  <2>3. SumOver(f, V) \in Int BY <2>1, <2>2, SumInt DEF V
  <2>4. QED BY <2>3 DEF V
<1>10. f[x] \in Int /\ f[p] \in Int
  BY <1>2, <1>3
<1>11. \A a, b, c \in Int : b + (a + c) = a + (b + c)
  OBVIOUS
<1> DEFINE rest == SumOver(f, (T \ {x}) \ {p})
<1>12. /\ SumOver(f, T) = f[p] + (f[x] + rest)
       /\ SumOver(f, T \ {x}) = f[p] + rest
       /\ rest \in Int
  BY ONLY <1>4, <1>6, <1>7, <1>8, <1>9
<1> HIDE DEF rest, p
<1>13. SumOver(f, T) = f[x] + SumOver(f, T \ {x})
  BY ONLY <1>10, <1>11, <1>12
<1>14. QED BY <1>2, <1>13

\* A new element adds its term.
LEMMA SumAdd ==
  ASSUME NEW S, IsFiniteSet(S), NEW f, NEW e, e \notin S,
         \A x \in S \cup {e} : f[x] \in Int
  PROVE  SumOver(f, S \cup {e}) = f[e] + SumOver(f, S)
<1>1. IsFiniteSet(S \cup {e})
  BY FS_AddElement
<1>2. (S \cup {e}) \ {e} = S
  OBVIOUS
<1>3. QED BY <1>1, <1>2, SumSplit

\* A sum of naturals is a natural, and at least each of its terms.
LEMMA SumCovers ==
  ASSUME NEW S, IsFiniteSet(S), NEW f, \A x \in S : f[x] \in Nat
  PROVE  SumOver(f, S) \in Nat /\ \A x \in S : f[x] <= SumOver(f, S)
<1>1. ASSUME NEW T \in SUBSET S PROVE SumOver(f, T) \in Nat
  <2> DEFINE Bad == {U \in SUBSET S : SumOver(f, U) \notin Nat}
  <2> SUFFICES ASSUME Bad # {} PROVE FALSE
    OBVIOUS
  <2>1. PICK U \in Bad : \A V \in Bad : V \subseteq U => V = U
    <3> HIDE DEF Bad
    <3>1. Bad \in SUBSET (SUBSET S) BY DEF Bad
    <3>2. QED BY <3>1, SmallestSet
  <2>2. U # {}
    <3>1. SumOver(f, {}) \in Nat BY SumEmpty
    <3>2. SumOver(f, U) \notin Nat BY <2>1
    <3>3. QED BY ONLY <3>1, <3>2
  <2>3. IsFiniteSet(U) /\ Pick(U) \in U
    BY <2>1, <2>2, FS_Subset, PickIn
  <2>4. SumOver(f, U \ {Pick(U)}) \in Nat
    <3>1. U \ {Pick(U)} \notin Bad BY <2>1, <2>3
    <3>2. QED BY <2>1, <3>1
  <2>5. SumOver(f, U) = f[Pick(U)] + SumOver(f, U \ {Pick(U)})
    BY <2>2, <2>3, SumPick
  <2>6. QED BY <2>1, <2>3, <2>4, <2>5
<1>2. ASSUME NEW x \in S PROVE f[x] <= SumOver(f, S)
  <2>1. SumOver(f, S) = f[x] + SumOver(f, S \ {x})
    BY SumSplit
  <2>2. SumOver(f, S \ {x}) \in Nat
    BY <1>1
  <2>3. QED BY <2>1, <2>2
<1>3. QED BY <1>1, <1>2

-----------------------------------------------------------------------------
(* Sums of quantities: table t maps the ids of I to records with a qty *)

QtySum(t, I) == MapThenSumSet(LAMBDA i : t[i].qty, I)

\* Such a sum is the sum of the quantities of I.
LEMMA QtySumIsSum ==
  ASSUME NEW t, NEW I, IsFiniteSet(I)
  PROVE  QtySum(t, I) = SumOver([i \in I |-> t[i].qty], I)
<1> DEFINE f == [i \in I |-> t[i].qty]
           g == CHOOSE iter : iter = [T \in SUBSET I |->
                 IF T = {} THEN 0
                 ELSE t[CHOOSE x \in T : TRUE].qty + iter[T \ {CHOOSE x \in T : TRUE}]]
<1>1. QtySum(t, I) = g[I]
  BY DEF QtySum, MapThenSumSet, MapThenFoldSet
<1>2. PICK h : Partial(h, f, I) /\ SumOver(f, I) = h[I]
  <2> HIDE DEF f
  <2>1. QED BY SumIsPartial
<1>3. h = [T \in SUBSET I |->
                 IF T = {} THEN 0
                 ELSE t[CHOOSE x \in T : TRUE].qty + h[T \ {CHOOSE x \in T : TRUE}]]
  <2>1. \A T \in SUBSET I : T # {} => f[Pick(T)] = t[Pick(T)].qty
    BY PickIn
  <2> HIDE DEF f
  <2>2. QED BY <1>2, <2>1 DEF Partial, Pick
<1>4. g = [T \in SUBSET I |->
                 IF T = {} THEN 0
                 ELSE t[CHOOSE x \in T : TRUE].qty + g[T \ {CHOOSE x \in T : TRUE}]]
  BY ONLY <1>3
<1>5. Partial(g, f, I)
  <2>1. \A T \in SUBSET I : T # {} => f[Pick(T)] = t[Pick(T)].qty
    BY PickIn
  <2> HIDE DEF f, g
  <2>2. QED BY <1>4, <2>1 DEF Partial, Pick
<1>6. g[I] = h[I]
  <2> HIDE DEF f, g
  <2>1. QED BY <1>2, <1>5, PartialsAgree
<1>7. QED BY <1>1, <1>2, <1>6

\* Integer quantities add up to an integer.
LEMMA QtyInt ==
  ASSUME NEW t, NEW I, IsFiniteSet(I), \A i \in I : t[i].qty \in Int
  PROVE  QtySum(t, I) \in Int
<1> DEFINE f == [i \in I |-> t[i].qty]
<1>1. \A i \in I : f[i] \in Int OBVIOUS
<1>2. SumOver(f, I) \in Int
  <2> HIDE DEF f
  <2>1. QED BY <1>1, SumInt
<1>3. QED BY <1>2, QtySumIsSum

\* The sum depends on the quantities of I only.
LEMMA QtySame ==
  ASSUME NEW t, NEW u, NEW I, IsFiniteSet(I), \A i \in I : t[i].qty = u[i].qty
  PROVE  QtySum(t, I) = QtySum(u, I)
<1> DEFINE f == [i \in I |-> t[i].qty]
           h == [i \in I |-> u[i].qty]
<1>1. \A i \in I : f[i] = h[i] OBVIOUS
<1>2. SumOver(f, I) = SumOver(h, I)
  <2> HIDE DEF f, h
  <2>1. QED BY <1>1, SumSame
<1>3. QED BY <1>2, QtySumIsSum

\* Without rows the sum is zero.
LEMMA QtyEmpty == ASSUME NEW t PROVE QtySum(t, {}) = 0
BY QtySumIsSum, SumEmpty, FS_EmptySet

\* Any row can be split off the sum.
LEMMA QtySplit ==
  ASSUME NEW t, NEW I, IsFiniteSet(I), \A i \in I : t[i].qty \in Int, NEW e \in I
  PROVE  QtySum(t, I) = t[e].qty + QtySum(t, I \ {e})
<1> DEFINE f == [i \in I |-> t[i].qty]
           R == I \ {e}
           h == [i \in R |-> t[i].qty]
<1>1. (\A i \in I : f[i] \in Int) /\ (\A i \in R : f[i] = h[i]) /\ f[e] = t[e].qty
  OBVIOUS
<1>2. IsFiniteSet(R)
  BY FS_Subset
<1>3. QtySum(t, I) = SumOver(f, I) /\ QtySum(t, R) = SumOver(h, R)
  <2>1. QtySum(t, I) = SumOver(f, I) BY QtySumIsSum
  <2> HIDE DEF R
  <2>2. QtySum(t, R) = SumOver(h, R) BY <1>2, QtySumIsSum
  <2>3. QED BY <2>1, <2>2
<1> HIDE DEF f, h
<1>4. SumOver(f, I) = f[e] + SumOver(f, R)
  BY <1>1, SumSplit
<1>5. SumOver(f, R) = SumOver(h, R)
  <2> HIDE DEF R
  <2>1. QED BY <1>1, <1>2, SumSame
<1> HIDE DEF R
<1>6. QED BY <1>1, <1>3, <1>4, <1>5 DEF R

\* Natural quantities add up to a natural, at least each of them.
LEMMA QtyCovers ==
  ASSUME NEW t, NEW I, IsFiniteSet(I), \A i \in I : t[i].qty \in Nat
  PROVE  QtySum(t, I) \in Nat /\ \A i \in I : t[i].qty <= QtySum(t, I)
<1> DEFINE f == [i \in I |-> t[i].qty]
<1>1. \A i \in I : f[i] \in Nat /\ f[i] = t[i].qty OBVIOUS
<1>2. SumOver(f, I) \in Nat /\ \A i \in I : f[i] <= SumOver(f, I)
  <2> HIDE DEF f
  <2>1. QED BY <1>1, SumCovers
<1>3. QtySum(t, I) = SumOver(f, I)
  BY QtySumIsSum
<1> HIDE DEF f
<1>4. QED BY <1>1, <1>2, <1>3

\* Smaller terms have a smaller sum.
LEMMA SumLeq ==
  ASSUME NEW S, IsFiniteSet(S), NEW f, NEW h,
         \A x \in S : f[x] \in Int /\ h[x] \in Int /\ f[x] <= h[x]
  PROVE  SumOver(f, S) <= SumOver(h, S)
<1> DEFINE Bad == {T \in SUBSET S : ~(SumOver(f, T) <= SumOver(h, T))}
<1> SUFFICES ASSUME Bad # {} PROVE FALSE
  OBVIOUS
<1>1. PICK T \in Bad : \A U \in Bad : U \subseteq T => U = T
  <2> HIDE DEF Bad
  <2>1. Bad \in SUBSET (SUBSET S) BY DEF Bad
  <2>2. QED BY <2>1, SmallestSet
<1>2. T # {}
  <2>1. SumOver(f, {}) = 0 /\ SumOver(h, {}) = 0 BY SumEmpty
  <2>2. SumOver(f, {}) <= SumOver(h, {}) BY ONLY <2>1
  <2>3. ~(SumOver(f, T) <= SumOver(h, T)) BY <1>1
  <2>4. QED BY ONLY <2>2, <2>3
<1> DEFINE R == T \ {Pick(T)}
<1>3. IsFiniteSet(T) /\ Pick(T) \in T /\ T \subseteq S /\ IsFiniteSet(R) /\ R \subseteq S
  BY <1>1, <1>2, FS_Subset, PickIn
<1>4. SumOver(f, R) <= SumOver(h, R)
  <2>1. R \notin Bad BY <1>1, <1>3
  <2>2. QED BY <1>3, <2>1
<1>5. /\ SumOver(f, T) = f[Pick(T)] + SumOver(f, R)
      /\ SumOver(h, T) = h[Pick(T)] + SumOver(h, R)
  BY <1>2, <1>3, SumPick
<1>6. SumOver(f, R) \in Int /\ SumOver(h, R) \in Int
  <2> HIDE DEF R
  <2>1. (\A x \in R : f[x] \in Int) /\ (\A x \in R : h[x] \in Int)
    BY <1>3
  <2>2. QED BY <1>3, <2>1, SumInt
<1>7. f[Pick(T)] \in Int /\ h[Pick(T)] \in Int /\ f[Pick(T)] <= h[Pick(T)]
  BY <1>3
<1>8. ~(SumOver(f, T) <= SumOver(h, T))
  BY <1>1
<1> HIDE DEF R
<1>9. QED BY ONLY <1>4, <1>5, <1>6, <1>7, <1>8

\* A sum of sums, term by term.
LEMMA SumPlus ==
  ASSUME NEW S, IsFiniteSet(S), NEW f, NEW g, NEW h,
         \A x \in S : g[x] \in Int /\ h[x] \in Int /\ f[x] = g[x] + h[x]
  PROVE  SumOver(f, S) = SumOver(g, S) + SumOver(h, S)
<1> DEFINE Bad == {T \in SUBSET S : SumOver(f, T) # SumOver(g, T) + SumOver(h, T)}
<1> SUFFICES ASSUME Bad # {} PROVE FALSE
  OBVIOUS
<1>1. PICK T \in Bad : \A U \in Bad : U \subseteq T => U = T
  <2> HIDE DEF Bad
  <2>1. Bad \in SUBSET (SUBSET S) BY DEF Bad
  <2>2. QED BY <2>1, SmallestSet
<1>2. T # {}
  <2>1. SumOver(f, {}) = 0 /\ SumOver(g, {}) = 0 /\ SumOver(h, {}) = 0 BY SumEmpty
  <2>2. SumOver(f, {}) = SumOver(g, {}) + SumOver(h, {}) BY ONLY <2>1
  <2>3. SumOver(f, T) # SumOver(g, T) + SumOver(h, T) BY <1>1
  <2>4. QED BY ONLY <2>2, <2>3
<1> DEFINE R == T \ {Pick(T)}
<1>3. IsFiniteSet(T) /\ Pick(T) \in T /\ T \subseteq S /\ IsFiniteSet(R) /\ R \subseteq S
  BY <1>1, <1>2, FS_Subset, PickIn
<1>4. SumOver(f, R) = SumOver(g, R) + SumOver(h, R)
  <2>1. R \notin Bad BY <1>1, <1>3
  <2>2. QED BY <1>3, <2>1
<1>5. /\ SumOver(f, T) = f[Pick(T)] + SumOver(f, R)
      /\ SumOver(g, T) = g[Pick(T)] + SumOver(g, R)
      /\ SumOver(h, T) = h[Pick(T)] + SumOver(h, R)
  BY <1>2, <1>3, SumPick
<1>6. SumOver(g, R) \in Int /\ SumOver(h, R) \in Int
  <2> HIDE DEF R
  <2>1. (\A x \in R : g[x] \in Int) /\ (\A x \in R : h[x] \in Int)
    BY <1>3
  <2>2. QED BY <1>3, <2>1, SumInt
<1>7. /\ g[Pick(T)] \in Int /\ h[Pick(T)] \in Int
      /\ f[Pick(T)] = g[Pick(T)] + h[Pick(T)]
  BY <1>3
<1>8. SumOver(f, T) # SumOver(g, T) + SumOver(h, T)
  BY <1>1
<1> HIDE DEF R
<1>9. QED BY ONLY <1>4, <1>5, <1>6, <1>7, <1>8

\* A sum is that over a part and that over the rest.
LEMMA SumParts ==
  ASSUME NEW S, IsFiniteSet(S), NEW f, \A x \in S : f[x] \in Int, NEW A \in SUBSET S
  PROVE  SumOver(f, S) = SumOver(f, A) + SumOver(f, S \ A)
<1> DEFINE Bad == {T \in SUBSET S : SumOver(f, S) # SumOver(f, T) + SumOver(f, S \ T)}
<1>0. \A T \in SUBSET S : SumOver(f, T) \in Int /\ IsFiniteSet(T)
  BY SumInt, FS_Subset
<1> SUFFICES ASSUME Bad # {} PROVE FALSE
  OBVIOUS
<1>1. PICK T \in Bad : \A U \in Bad : U \subseteq T => U = T
  <2> HIDE DEF Bad
  <2>1. Bad \in SUBSET (SUBSET S) BY DEF Bad
  <2>2. QED BY <2>1, SmallestSet
<1>2. T # {}
  <2>1. SumOver(f, {}) = 0 /\ S \ {} = S BY SumEmpty
  <2>2. SumOver(f, S) = SumOver(f, {}) + SumOver(f, S \ {})
    BY <1>0, <2>1
  <2>3. SumOver(f, S) # SumOver(f, T) + SumOver(f, S \ T) BY <1>1
  <2>4. QED BY ONLY <2>2, <2>3
<1> DEFINE p == Pick(T)
           R == T \ {p}
           Rest == S \ T
<1>3. p \in T /\ T \in SUBSET S /\ R \in SUBSET S /\ Rest \in SUBSET S /\ IsFiniteSet(T)
      /\ IsFiniteSet(Rest) /\ S \ R = Rest \cup {p} /\ p \notin Rest /\ f[p] \in Int
  BY <1>0, <1>1, <1>2, PickIn
<1>4. SumOver(f, S) = SumOver(f, R) + SumOver(f, S \ R)
  <2>1. R \notin Bad BY <1>1, <1>3
  <2>2. QED BY <1>3, <2>1
<1>5. SumOver(f, T) = f[p] + SumOver(f, R)
  BY <1>2, <1>3, SumPick
<1>6. SumOver(f, Rest \cup {p}) = f[p] + SumOver(f, Rest)
  <2>1. \A x \in Rest \cup {p} : f[x] \in Int
    BY <1>3
  <2> HIDE DEF p, Rest
  <2>2. QED BY <1>3, <2>1, SumAdd
<1>7. SumOver(f, R) \in Int /\ SumOver(f, Rest) \in Int
  BY <1>0, <1>3
<1>8. SumOver(f, S) # SumOver(f, T) + SumOver(f, Rest)
  BY <1>1
<1>9. SumOver(f, S \ R) = SumOver(f, Rest \cup {p}) /\ f[p] \in Int
  <2>1. S \ R = Rest \cup {p} /\ f[p] \in Int
    BY <1>3
  <2> HIDE DEF p, R, Rest
  <2>2. QED BY ONLY <2>1
<1> HIDE DEF p, R, Rest
<1>10. QED BY ONLY <1>4, <1>5, <1>6, <1>7, <1>8, <1>9

-----------------------------------------------------------------------------
(* Lengths: table t maps the elements of I to sequences *)

\* The sum of the lengths, as the sum of a function of I.
LEMMA LenSumIsSum ==
  ASSUME NEW t, NEW I, IsFiniteSet(I)
  PROVE  MapThenSumSet(LAMBDA i : Len(t[i]), I) = SumOver([i \in I |-> Len(t[i])], I)
<1> DEFINE f == [i \in I |-> Len(t[i])]
           g == CHOOSE iter : iter = [T \in SUBSET I |->
                 IF T = {} THEN 0
                 ELSE Len(t[CHOOSE x \in T : TRUE]) + iter[T \ {CHOOSE x \in T : TRUE}]]
<1>1. MapThenSumSet(LAMBDA i : Len(t[i]), I) = g[I]
  BY DEF MapThenSumSet, MapThenFoldSet
<1>2. PICK h : Partial(h, f, I) /\ SumOver(f, I) = h[I]
  <2> HIDE DEF f
  <2>1. QED BY SumIsPartial
<1>3. h = [T \in SUBSET I |->
                 IF T = {} THEN 0
                 ELSE Len(t[CHOOSE x \in T : TRUE]) + h[T \ {CHOOSE x \in T : TRUE}]]
  <2>1. \A T \in SUBSET I : T # {} => f[Pick(T)] = Len(t[Pick(T)])
    BY PickIn
  <2> HIDE DEF f
  <2>2. QED BY <1>2, <2>1 DEF Partial, Pick
<1>4. g = [T \in SUBSET I |->
                 IF T = {} THEN 0
                 ELSE Len(t[CHOOSE x \in T : TRUE]) + g[T \ {CHOOSE x \in T : TRUE}]]
  BY ONLY <1>3
<1>5. Partial(g, f, I)
  <2>1. \A T \in SUBSET I : T # {} => f[Pick(T)] = Len(t[Pick(T)])
    BY PickIn
  <2> HIDE DEF f, g
  <2>2. QED BY <1>4, <2>1 DEF Partial, Pick
<1>6. g[I] = h[I]
  <2> HIDE DEF f, g
  <2>1. QED BY <1>2, <1>5, PartialsAgree
<1>7. QED BY <1>1, <1>2, <1>6
=============================================================================

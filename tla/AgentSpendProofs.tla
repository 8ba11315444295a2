-------------------------- MODULE AgentSpendProofs --------------------------
(***************************************************************************)
(* Proofs about AgentSpend for every number of backends, requests, runs,   *)
(* chats, apps and nodes, every price, batch, limit and bound: its types,  *)
(* that what is counted covers what was really spent and may still be, and *)
(* that what was spent keeps the limits, of every key but those that the   *)
(* code itself is seen to lose a count of (evicted and apart).             *)
(*                                                                         *)
(* A limit is a sum, and a sum is a fold, for which there is no induction  *)
(* here; what a sum is is shown for a smallest set that would refute it.   *)
(***************************************************************************)
EXTENDS AgentSpend, FiniteSetTheorems, WellFoundedInduction, SequenceTheorems, TLAPS

-----------------------------------------------------------------------------
(* Sums. A fold is a recursive function on the subsets of a finite set.    *)
(* What holds of it is shown for a smallest subset that would refute it,   *)
(* the refuting subsets given as a set.                                    *)

\* A set of naturals has a least one.
LEMMA LeastNatural ==
  ASSUME NEW T \in SUBSET Nat, T # {}
  PROVE  \E x \in T : \A y \in T : x <= y
<1> DEFINE R == {ss \in Nat \X Nat : ss[1] < ss[2]}
<1>1. IsWellFoundedOn(R, Nat)
  BY NatLessThanWellFounded DEF OpToRel
<1>2. \A x, y \in Nat : <<y, x>> \in R <=> y < x
  OBVIOUS
<1> HIDE DEF R
<1>3. PICK x \in T : \A y \in T : <<y, x>> \notin R
  BY <1>1, WFMin
<1>4. ASSUME NEW y \in T PROVE x <= y
  <2>1. x \in Nat /\ y \in Nat /\ ~(y < x)
    BY <1>2, <1>3
  <2> QED BY <2>1
<1> QED BY <1>4

\* Some subsets of a finite set: one of them has no other as a part.
LEMMA SmallestSubset ==
  ASSUME NEW S, IsFiniteSet(S), NEW Bad \in SUBSET SUBSET S, Bad # {}
  PROVE  \E T \in Bad : \A U \in SUBSET T : U # T => U \notin Bad
<1> DEFINE N == {Cardinality(T) : T \in Bad}
<1>1. \A T \in SUBSET S : IsFiniteSet(T) /\ Cardinality(T) \in Nat
  BY FS_Subset, FS_CardinalityType
<1>2. N \in SUBSET Nat /\ N # {}
  BY <1>1
<1>3. PICK n \in N : \A m \in N : n <= m
  <2> HIDE DEF N
  <2> QED BY <1>2, LeastNatural
<1>4. PICK T \in Bad : n = Cardinality(T)
  OBVIOUS
<1>5. ASSUME NEW U \in SUBSET T, U # T, U \in Bad PROVE FALSE
  <2>1. Cardinality(U) < Cardinality(T) /\ Cardinality(U) \in Nat /\ n \in Nat
    BY <1>1, <1>4, <1>5, FS_Subset
  <2>2. n <= Cardinality(U)
    BY <1>3, <1>5
  <2> QED BY <1>4, <2>1, <2>2
<1> QED BY <1>4, <1>5

\* The element of T that a fold takes first.
Head1(T) == CHOOSE x \in T : TRUE

\* g is the function that the fold of f over S computes.
Folds(f, S, g) ==
  g = [T \in SUBSET S |-> IF T = {} THEN 0 ELSE f[Head1(T)] + g[T \ {Head1(T)}]]

\* The first element of a set is one of it.
LEMMA Head1In == ASSUME NEW T, T # {} PROVE Head1(T) \in T
  BY DEF Head1

\* Two such functions agree on the sets they share.
LEMMA FoldUnique ==
  ASSUME NEW f, NEW S, NEW U, NEW g, NEW h, Folds(f, S, g), Folds(f, U, h),
         NEW X, IsFiniteSet(X), X \subseteq S, X \subseteq U
  PROVE  g[X] = h[X]
<1> DEFINE Bad == {Y \in SUBSET X : g[Y] # h[Y]}
<1> SUFFICES ASSUME Bad # {} PROVE FALSE
  OBVIOUS
<1>0. \A Y \in SUBSET X : /\ Y = {} => g[Y] = 0 /\ h[Y] = 0
                          /\ Y # {} => /\ g[Y] = f[Head1(Y)] + g[Y \ {Head1(Y)}]
                                       /\ h[Y] = f[Head1(Y)] + h[Y \ {Head1(Y)}]
  BY DEF Folds
<1>1. PICK T \in Bad : \A Y \in SUBSET T : Y # T => Y \notin Bad
  <2>1. Bad \in SUBSET SUBSET X
    OBVIOUS
  <2> HIDE DEF Bad
  <2> QED BY <2>1, SmallestSubset
<1>2. T # {}
  BY <1>0
<1>3. T \ {Head1(T)} \in SUBSET T /\ T \ {Head1(T)} # T
  BY <1>2, Head1In
<1>4. g[T \ {Head1(T)}] = h[T \ {Head1(T)}]
  BY <1>1, <1>3
<1> QED BY <1>0, <1>2, <1>4

\* The fold over a finite set exists.
LEMMA FoldExists ==
  ASSUME NEW f, NEW S, IsFiniteSet(S)
  PROVE  \E g : Folds(f, S, g)
<1> DEFINE Bad == {T \in SUBSET S : ~ \E g : Folds(f, T, g)}
<1> SUFFICES ASSUME Bad # {} PROVE FALSE
  OBVIOUS
<1>1. PICK T \in Bad : \A Y \in SUBSET T : Y # T => Y \notin Bad
  <2>1. Bad \in SUBSET SUBSET S
    OBVIOUS
  <2> HIDE DEF Bad
  <2> QED BY <2>1, SmallestSubset
<1> DEFINE G(Y) == CHOOSE g : Folds(f, Y, g)
           v(Y) == G(Y)[Y]
           new == [Y \in SUBSET T |-> IF Y = {} THEN 0 ELSE f[Head1(Y)] + v(Y \ {Head1(Y)})]
<1>2. \A Y \in SUBSET T : Y # T => Folds(f, Y, G(Y))
  BY <1>1
<1>3. ASSUME NEW Y \in SUBSET T, Y # T PROVE new[Y] = v(Y)
  <2>1. Folds(f, Y, G(Y))
    BY <1>2, <1>3
  <2>2. CASE Y = {}
    BY <2>1, <2>2 DEF Folds
  <2>3. CASE Y # {}
    <3> DEFINE Z == Y \ {Head1(Y)}
    <3>1. Z \in SUBSET T /\ Z # T /\ Z \subseteq Y /\ IsFiniteSet(Z)
      BY <1>3, <2>3, FS_Subset
    <3>2. Folds(f, Z, G(Z))
      BY <1>2, <3>1
    <3> HIDE DEF G
    <3>3. G(Y)[Z] = G(Z)[Z]
      BY <2>1, <3>1, <3>2, FoldUnique
    <3>4. G(Y)[Y] = f[Head1(Y)] + G(Y)[Z]
      BY <2>1, <2>3 DEF Folds
    <3> QED BY <2>3, <3>3, <3>4
  <2> QED BY <2>2, <2>3
<1>4. \A Y \in SUBSET T : Y # {} => new[Y \ {Head1(Y)}] = v(Y \ {Head1(Y)})
  BY <1>3, Head1In
<1>5. Folds(f, T, new)
  <2> HIDE DEF v
  <2>1. new = [Y \in SUBSET T |-> IF Y = {} THEN 0 ELSE f[Head1(Y)] + new[Y \ {Head1(Y)}]]
    BY <1>4
  <2> QED BY <2>1 DEF Folds
<1> QED BY <1>5

\* Sum is that fold.
LEMMA SumIsFold ==
  ASSUME NEW f, NEW S
  PROVE  Sum(f, S) = (CHOOSE g : Folds(f, S, g))[S]
  BY Zenon DEF Sum, SumFunctionOnSet, FoldFunctionOnSet, MapThenFoldSet, Folds, Head1

\* The sum over no element, and over one more.
LEMMA SumStep ==
  ASSUME NEW f, NEW S, IsFiniteSet(S)
  PROVE  /\ S = {} => Sum(f, S) = 0
         /\ S # {} => Sum(f, S) = f[Head1(S)] + Sum(f, S \ {Head1(S)})
<1> DEFINE G(Y) == CHOOSE g : Folds(f, Y, g)
           Z == S \ {Head1(S)}
<1>1. IsFiniteSet(Z)
  BY FS_Subset
<1>2. Folds(f, S, G(S)) /\ Folds(f, Z, G(Z))
  BY <1>1, FoldExists
<1>3. Sum(f, S) = G(S)[S] /\ Sum(f, Z) = G(Z)[Z]
  BY SumIsFold
<1> HIDE DEF G
<1>4. G(S)[Z] = G(Z)[Z]
  BY <1>1, <1>2, FoldUnique
<1>5. /\ S = {} => G(S)[S] = 0
      /\ S # {} => G(S)[S] = f[Head1(S)] + G(S)[Z]
  BY <1>2 DEF Folds
<1> HIDE DEF Z
<1>6. /\ S = {} => Sum(f, S) = 0
      /\ S # {} => Sum(f, S) = f[Head1(S)] + Sum(f, Z)
  BY <1>3, <1>4, <1>5
<1> QED BY <1>6 DEF Z

\* A sum of integers.
LEMMA SumInt ==
  ASSUME NEW f, NEW S, IsFiniteSet(S), \A x \in S : f[x] \in Int
  PROVE  Sum(f, S) \in Int
<1> DEFINE Bad == {T \in SUBSET S : Sum(f, T) \notin Int}
<1> SUFFICES ASSUME Bad # {} PROVE FALSE
  OBVIOUS
<1>1. PICK T \in Bad : \A Y \in SUBSET T : Y # T => Y \notin Bad
  <2>1. Bad \in SUBSET SUBSET S
    OBVIOUS
  <2> HIDE DEF Bad
  <2> QED BY <2>1, SmallestSubset
<1>2. IsFiniteSet(T)
  BY FS_Subset
<1>3. T # {}
  <2>1. T = {} => Sum(f, T) = 0
    BY <1>2, SumStep
  <2> QED BY <2>1
<1>4. Head1(T) \in T /\ T \ {Head1(T)} # T
  BY <1>3, Head1In
<1>5. Sum(f, T \ {Head1(T)}) \in Int /\ f[Head1(T)] \in Int
  BY <1>1, <1>4
<1> QED BY <1>2, <1>3, <1>5, SumStep

\* Any element may be taken out of a sum.
LEMMA SumOut ==
  ASSUME NEW f, NEW S, IsFiniteSet(S), \A x \in S : f[x] \in Int, NEW x \in S
  PROVE  Sum(f, S) = f[x] + Sum(f, S \ {x})
<1> DEFINE Bad == {T \in SUBSET S : \E y \in T : Sum(f, T) # f[y] + Sum(f, T \ {y})}
<1> SUFFICES ASSUME Bad # {} PROVE FALSE
  OBVIOUS
<1>1. PICK T \in Bad : \A Y \in SUBSET T : Y # T => Y \notin Bad
  <2>1. Bad \in SUBSET SUBSET S
    OBVIOUS
  <2> HIDE DEF Bad
  <2> QED BY <2>1, SmallestSubset
<1>2. \A Y \in SUBSET S : IsFiniteSet(Y) /\ Sum(f, Y) \in Int
  BY FS_Subset, SumInt
<1>3. PICK y \in T : Sum(f, T) # f[y] + Sum(f, T \ {y})
  OBVIOUS
<1> DEFINE h == Head1(T)
<1>4. h \in T /\ Sum(f, T) = f[h] + Sum(f, T \ {h})
  BY <1>2, <1>3, SumStep, Head1In
<1>5. h # y
  BY <1>3, <1>4
<1> HIDE DEF h
<1>6. Sum(f, T \ {h}) = f[y] + Sum(f, (T \ {h}) \ {y})
  BY <1>1, <1>4, <1>5
<1>7. Sum(f, T \ {y}) = f[h] + Sum(f, (T \ {y}) \ {h})
  BY <1>1, <1>4, <1>5
<1>8. Sum(f, (T \ {h}) \ {y}) = Sum(f, (T \ {y}) \ {h})
  <2>1. (T \ {h}) \ {y} = (T \ {y}) \ {h}
    OBVIOUS
  <2> QED BY <2>1, Zenon
<1>9. Sum(f, (T \ {y}) \ {h}) \in Int /\ f[h] \in Int /\ f[y] \in Int
  BY <1>2, <1>4
<1> QED BY <1>3, <1>4, <1>6, <1>7, <1>8, <1>9

\* Functions that agree on a set have the same sum over it.
LEMMA SumAgree ==
  ASSUME NEW f, NEW g, NEW S, IsFiniteSet(S), \A x \in S : f[x] = g[x]
  PROVE  Sum(f, S) = Sum(g, S)
<1> DEFINE Bad == {T \in SUBSET S : Sum(f, T) # Sum(g, T)}
<1> SUFFICES ASSUME Bad # {} PROVE FALSE
  OBVIOUS
<1>1. PICK T \in Bad : \A Y \in SUBSET T : Y # T => Y \notin Bad
  <2>1. Bad \in SUBSET SUBSET S
    OBVIOUS
  <2> HIDE DEF Bad
  <2> QED BY <2>1, SmallestSubset
<1>2. IsFiniteSet(T)
  BY FS_Subset
<1>3. T # {}
  BY <1>2, SumStep
<1>4. Head1(T) \in T /\ T \ {Head1(T)} # T
  BY <1>3, Head1In
<1>5. Sum(f, T \ {Head1(T)}) = Sum(g, T \ {Head1(T)}) /\ f[Head1(T)] = g[Head1(T)]
  BY <1>1, <1>4
<1> QED BY <1>2, <1>3, <1>5, SumStep

\* A sum of terms that are no larger is no larger.
LEMMA SumLe ==
  ASSUME NEW f, NEW g, NEW S, IsFiniteSet(S),
         \A x \in S : f[x] \in Int /\ g[x] \in Int /\ f[x] <= g[x]
  PROVE  Sum(f, S) <= Sum(g, S)
<1> DEFINE Bad == {T \in SUBSET S : ~(Sum(f, T) <= Sum(g, T))}
<1> SUFFICES ASSUME Bad # {} PROVE FALSE
  OBVIOUS
<1>1. PICK T \in Bad : \A Y \in SUBSET T : Y # T => Y \notin Bad
  <2>1. Bad \in SUBSET SUBSET S
    OBVIOUS
  <2> HIDE DEF Bad
  <2> QED BY <2>1, SmallestSubset
<1>2. \A Y \in SUBSET S : IsFiniteSet(Y) /\ Sum(f, Y) \in Int /\ Sum(g, Y) \in Int
  BY FS_Subset, SumInt
<1>3. T # {}
  <2> SUFFICES ASSUME T = {} PROVE FALSE
    OBVIOUS
  <2>1. Sum(f, T) = 0 /\ Sum(g, T) = 0
    BY <1>2, SumStep
  <2> QED BY <2>1
<1> DEFINE h == Head1(T)
           Z == T \ {h}
<1>4. h \in T /\ Z # T /\ Z \in SUBSET T
  BY <1>3, Head1In
<1>5. Sum(f, T) = f[h] + Sum(f, Z) /\ Sum(g, T) = g[h] + Sum(g, Z)
  BY <1>2, <1>3, SumStep
<1> HIDE DEF h
<1>6. Sum(f, Z) <= Sum(g, Z) /\ f[h] <= g[h]
  BY <1>1, <1>4
<1>7. f[h] \in Int /\ g[h] \in Int /\ Sum(f, Z) \in Int /\ Sum(g, Z) \in Int
  BY <1>2, <1>4
<1>8. ~(Sum(f, T) <= Sum(g, T))
  OBVIOUS
<1> QED BY <1>5, <1>6, <1>7, <1>8

\* The sum of zeros.
LEMMA SumZero ==
  ASSUME NEW f, NEW S, IsFiniteSet(S), \A x \in S : f[x] = 0
  PROVE  Sum(f, S) = 0
<1> DEFINE Bad == {T \in SUBSET S : Sum(f, T) # 0}
<1> SUFFICES ASSUME Bad # {} PROVE FALSE
  OBVIOUS
<1>1. PICK T \in Bad : \A Y \in SUBSET T : Y # T => Y \notin Bad
  <2>1. Bad \in SUBSET SUBSET S
    OBVIOUS
  <2> HIDE DEF Bad
  <2> QED BY <2>1, SmallestSubset
<1>2. IsFiniteSet(T)
  BY FS_Subset
<1>3. T # {}
  BY <1>2, SumStep
<1>4. Head1(T) \in T /\ T \ {Head1(T)} # T
  BY <1>3, Head1In
<1>5. Sum(f, T \ {Head1(T)}) = 0 /\ f[Head1(T)] = 0
  BY <1>1, <1>4
<1> QED BY <1>2, <1>3, <1>5, SumStep

\* The sum of naturals is one, and no less than any term of it.
LEMMA SumNat ==
  ASSUME NEW f, NEW S, IsFiniteSet(S), \A x \in S : f[x] \in Nat
  PROVE  Sum(f, S) \in Nat /\ \A x \in S : f[x] <= Sum(f, S)
<1> DEFINE zero == [x \in S |-> 0]
<1>1. ASSUME NEW T \in SUBSET S PROVE Sum(f, T) \in Nat
  <2>1. IsFiniteSet(T)
    BY FS_Subset
  <2>2. Sum(zero, T) = 0
    BY <2>1, SumZero
  <2>3. Sum(zero, T) <= Sum(f, T)
    BY <2>1, SumLe
  <2>4. Sum(f, T) \in Int
    BY <2>1, SumInt
  <2> QED BY <2>2, <2>3, <2>4
<1>2. ASSUME NEW x \in S PROVE f[x] <= Sum(f, S)
  <2>1. Sum(f, S) = f[x] + Sum(f, S \ {x})
    BY SumOut
  <2>2. Sum(f, S \ {x}) \in Nat
    BY <1>1
  <2> QED BY <2>1, <2>2
<1> QED BY <1>1, <1>2

\* A sum with one term changed.
LEMMA SumChange ==
  ASSUME NEW f, NEW g, NEW S, IsFiniteSet(S), NEW x \in S,
         \A y \in S : f[y] \in Int /\ g[y] \in Int,
         \A y \in S \ {x} : f[y] = g[y]
  PROVE  Sum(g, S) = Sum(f, S) - f[x] + g[x]
<1>1. Sum(f, S) = f[x] + Sum(f, S \ {x}) /\ Sum(g, S) = g[x] + Sum(g, S \ {x})
  BY SumOut
<1>2. IsFiniteSet(S \ {x})
  BY FS_Subset
<1>3. Sum(f, S \ {x}) = Sum(g, S \ {x}) /\ Sum(f, S \ {x}) \in Int
  BY <1>2, SumAgree, SumInt
<1> QED BY <1>1, <1>3

\* The sum of two functions, term by term.
LEMMA SumAdd ==
  ASSUME NEW f, NEW g, NEW h, NEW S, IsFiniteSet(S),
         \A x \in S : f[x] \in Int /\ g[x] \in Int /\ h[x] = f[x] + g[x]
  PROVE  Sum(h, S) = Sum(f, S) + Sum(g, S)
<1> DEFINE Bad == {T \in SUBSET S : Sum(h, T) # Sum(f, T) + Sum(g, T)}
<1> SUFFICES ASSUME Bad # {} PROVE FALSE
  OBVIOUS
<1>1. PICK T \in Bad : \A Y \in SUBSET T : Y # T => Y \notin Bad
  <2>1. Bad \in SUBSET SUBSET S
    OBVIOUS
  <2> HIDE DEF Bad
  <2> QED BY <2>1, SmallestSubset
<1>2. \A Y \in SUBSET S : IsFiniteSet(Y) /\ Sum(f, Y) \in Int /\ Sum(g, Y) \in Int
  BY FS_Subset, SumInt
<1>3. T # {}
  <2> SUFFICES ASSUME T = {} PROVE FALSE
    OBVIOUS
  <2>1. Sum(f, T) = 0 /\ Sum(g, T) = 0 /\ Sum(h, T) = 0
    BY <1>2, SumStep
  <2> QED BY <2>1
<1> DEFINE x == Head1(T)
           Z == T \ {x}
<1>4. x \in T /\ Z # T /\ Z \in SUBSET T
  BY <1>3, Head1In
<1>5. /\ Sum(f, T) = f[x] + Sum(f, Z) /\ Sum(g, T) = g[x] + Sum(g, Z)
      /\ Sum(h, T) = h[x] + Sum(h, Z)
  BY <1>2, <1>3, SumStep
<1> HIDE DEF x
<1>6. Sum(h, Z) = Sum(f, Z) + Sum(g, Z) /\ h[x] = f[x] + g[x]
  BY <1>1, <1>4
<1>7. f[x] \in Int /\ g[x] \in Int /\ Sum(f, Z) \in Int /\ Sum(g, Z) \in Int
  BY <1>2, <1>4
<1>8. Sum(h, T) # Sum(f, T) + Sum(g, T)
  OBVIOUS
<1> QED BY <1>5, <1>6, <1>7, <1>8

\* Terms outside of a part of S that are zero may be left out.
LEMMA SumPart ==
  ASSUME NEW f, NEW S, IsFiniteSet(S), NEW P, P \subseteq S,
         \A x \in S : f[x] \in Int, \A x \in S \ P : f[x] = 0
  PROVE  Sum(f, S) = Sum(f, P)
<1> DEFINE Bad == {T \in SUBSET S : Sum(f, T) # Sum(f, T \cap P)}
<1> SUFFICES ASSUME Bad # {} PROVE FALSE
  <2>1. S \cap P = P
    OBVIOUS
  <2> QED BY <2>1
<1>1. PICK T \in Bad : \A Y \in SUBSET T : Y # T => Y \notin Bad
  <2>1. Bad \in SUBSET SUBSET S
    OBVIOUS
  <2> HIDE DEF Bad
  <2> QED BY <2>1, SmallestSubset
<1>2. \A Y \in SUBSET S : IsFiniteSet(Y) /\ Sum(f, Y) \in Int
  BY FS_Subset, SumInt
<1>3. PICK x \in T : x \notin P
  <2> SUFFICES ASSUME T \subseteq P PROVE FALSE
    OBVIOUS
  <2>2. T \cap P = T
    OBVIOUS
  <2> QED BY <2>2
<1>4. Sum(f, T) = f[x] + Sum(f, T \ {x}) /\ f[x] = 0
  <2>1. \A y \in T : f[y] \in Int
    OBVIOUS
  <2> QED BY <1>2, <1>3, <2>1, SumOut
<1>5. Sum(f, T \ {x}) = Sum(f, (T \ {x}) \cap P)
  BY <1>1, <1>3
<1>6. Sum(f, (T \ {x}) \cap P) = Sum(f, T \cap P)
  <2>1. (T \ {x}) \cap P = T \cap P
    BY <1>3
  <2> QED BY <2>1, Zenon
<1>7. Sum(f, T \ {x}) \in Int
  BY <1>2
<1> QED BY <1>4, <1>5, <1>6, <1>7

-----------------------------------------------------------------------------
(* The sequences of chats and of holds.                                    *)

\* The larger of two integers.
LEMMA MaxOfTwo ==
  ASSUME NEW a \in Int, NEW b \in Int
  PROVE  Max({a, b}) \in Int /\ Max({a, b}) >= a /\ Max({a, b}) >= b /\ Max({a, b}) \in {a, b}
<1>1. \E x \in {a, b} : \A y \in {a, b} : x >= y
  <2>1. CASE a >= b
    BY <2>1
  <2>2. CASE ~(a >= b)
    BY <2>2
  <2> QED BY <2>1, <2>2
<1> QED BY <1>1 DEF Max

\* What is in a sequence, by its places.
LEMMA InSeq ==
  ASSUME NEW T, NEW s \in Seq(T)
  PROVE  /\ ToSet(s) \subseteq T
         /\ \A x : x \in ToSet(s) <=> \E i \in 1..Len(s) : s[i] = x
  BY DEF ToSet

\* The newest m of a sequence are at most m of it, the last one among them.
LEMMA NewestOnes ==
  ASSUME NEW T, NEW s \in Seq(T), Len(s) > 0, NEW m \in Nat \ {0}
  PROVE  /\ Newest(s, m) \in Seq(T) /\ Len(Newest(s, m)) <= m
         /\ s[Len(s)] \in ToSet(Newest(s, m))
         /\ ToSet(Newest(s, m)) \subseteq T
<1> DEFINE f == Max({1, Len(s) - m + 1})
<1>1. f \in 1..Len(s) /\ f >= Len(s) - m + 1
  <2> DEFINE b == Len(s) - m + 1
  <2>1. 1 \in Int /\ b \in Int /\ b <= Len(s) /\ Len(s) \in Nat
    OBVIOUS
  <2> HIDE DEF b
  <2>2. Max({1, b}) \in Int /\ Max({1, b}) >= 1 /\ Max({1, b}) >= b /\ Max({1, b}) \in {1, b}
    BY <2>1, MaxOfTwo
  <2>3. Max({1, b}) \in 1..Len(s) /\ Max({1, b}) >= b
    BY <2>1, <2>2
  <2> QED BY <2>3 DEF b
<1> HIDE DEF f
<1>2. Newest(s, m) = SubSeq(s, f, Len(s))
  BY DEF Newest, f
<1>3. /\ Newest(s, m) \in Seq(T)
      /\ Len(Newest(s, m)) = Len(s) - f + 1
      /\ \A i \in 1..(Len(s) - f + 1) : Newest(s, m)[i] = s[f + i - 1]
  BY <1>1, <1>2, SubSeqProperties
<1>4. Len(s) - f + 1 \in 1..m
  BY <1>1
<1>5. Newest(s, m)[Len(Newest(s, m))] = s[Len(s)]
  BY <1>1, <1>3, <1>4
<1>6. Len(Newest(s, m)) \in 1..Len(Newest(s, m))
  BY <1>3, <1>4
<1> HIDE DEF Newest
<1> QED BY <1>3, <1>4, <1>5, <1>6, InSeq

\* To remove an element leaves a sequence of the others.
LEMMA RemoveFirstType ==
  ASSUME NEW T, NEW s \in Seq(T), NEW x
  PROVE  RemoveFirst(s, x) \in Seq(T) /\ Len(RemoveFirst(s, x)) <= Len(s)
<1>1. CASE \E i \in 1..Len(s) : s[i] = x
  <2> DEFINE I == {i \in 1..Len(s) : s[i] = x}
             n == Min(I)
  <2>1. n \in I
    <3>1. I \in SUBSET Nat /\ I # {}
      BY <1>1
    <3> HIDE DEF I
    <3>2. PICK i \in I : \A j \in I : i <= j
      BY <3>1, LeastNatural
    <3> QED BY <3>2 DEF Min
  <2>2. RemoveFirst(s, x) = SubSeq(s, 1, n - 1) \o SubSeq(s, n + 1, Len(s))
    <3>1. I # {}
      BY <1>1
    <3> QED BY <1>1, <3>1 DEF RemoveFirst, SelectInSeq, RemoveAt
  <2>3. n \in 1..Len(s)
    BY <2>1
  <2> HIDE DEF n
  <2>4. SubSeq(s, 1, n - 1) \in Seq(T) /\ Len(SubSeq(s, 1, n - 1)) = n - 1
    BY <2>3, SubSeqProperties
  <2>5. SubSeq(s, n + 1, Len(s)) \in Seq(T) /\ Len(SubSeq(s, n + 1, Len(s))) = Len(s) - n
    BY <2>3, SubSeqProperties
  <2> DEFINE t == SubSeq(s, 1, n - 1) \o SubSeq(s, n + 1, Len(s))
  <2>6. t \in Seq(T) /\ Len(t) = (n - 1) + (Len(s) - n)
    BY <2>4, <2>5, ConcatProperties
  <2>7. RemoveFirst(s, x) = t
    BY <2>2
  <2> HIDE DEF t
  <2>8. Len(t) <= Len(s)
    BY <2>3, <2>6
  <2> QED BY <2>6, <2>7, <2>8, Zenon
<1>2. CASE ~ \E i \in 1..Len(s) : s[i] = x
  BY <1>2 DEF RemoveFirst
<1> QED BY <1>1, <1>2

\* The newest m, x the last of them.
LEMMA NewestWith ==
  ASSUME NEW T, NEW s \in Seq(T), NEW x \in T, NEW m \in Nat \ {0}
  PROVE  LET n == Newest(Append(RemoveFirst(s, x), x), m)
         IN n \in Seq(T) /\ Len(n) <= m /\ x \in ToSet(n) /\ ToSet(n) \subseteq T
<1> DEFINE a == Append(RemoveFirst(s, x), x)
<1>1. RemoveFirst(s, x) \in Seq(T)
  BY RemoveFirstType
<1>2. a \in Seq(T) /\ Len(a) > 0 /\ a[Len(a)] = x
  BY <1>1
<1> HIDE DEF a
<1>3. /\ Newest(a, m) \in Seq(T) /\ Len(Newest(a, m)) <= m
      /\ x \in ToSet(Newest(a, m)) /\ ToSet(Newest(a, m)) \subseteq T
  BY <1>2, NewestOnes
<1> QED BY <1>3 DEF a

-----------------------------------------------------------------------------
(* Types.                                                                  *)

LedgerType == {l \in [count : [Key -> [Time -> Int]], chats : Seq(Chat)] :
                 Len(l.chats) <= MaxChats /\ \A k \in Chat, t \in Time : l.count[k][t] >= 0}
HoldType == {h \in [key : Key \cup {Person}, at : Time, share : SUBSET Node] : h.key = Person => h.share = {}}
BookType == {b \in [loaded : BOOLEAN, blind : BOOLEAN, ledger : LedgerType, order : Seq(Run), hold : [Run -> HoldType],
                    tracked : SUBSET Run, doubted : SUBSET Run, called : [Run -> SUBSET Node]] :
               Len(b.order) <= MaxHolds /\ b.tracked \cap b.doubted = {}}
RunType == [phase : {"none", "new", "live", "ended", "unborn"}, nodes : SUBSET Node,
            key : Key \cup {Person}, at : Time, pass : Nat, calls : [Node -> Nat],
            failing : SUBSET Node, ever : SUBSET Node, keyless : SUBSET Node]

\* What the variables hold, types and sizes.
Typed ==
  /\ now \in Time /\ faults \in 0..MaxFaults /\ restarts \in 0..MaxRestarts
  /\ disk \in LedgerType /\ books \in [Proc -> BookType]
  /\ req \in [Request -> {"idle", "asked", "late", "done"}] /\ run \in [Run -> RunType]
  /\ real \in [Key -> [Time -> Nat]] /\ stray \in SUBSET (Key \X Time) /\ evicted \in SUBSET Chat
  /\ apart \in SUBSET Key

\* What the assumptions say of each constant.
LEMMA Constants ==
  /\ \A k \in Key : k # Person
  /\ \A k \in Key : k \in Chat \/ k \in Outside
  /\ \A k \in Outside : k \in Key /\ k \notin Chat
  /\ \A k \in Chat : k \in Key /\ k \notin Outside
  /\ \A q \in Request : RunOf[q] \in Run /\ KeyOf[q] \in Key \cup {Person} /\ GraphOf[q] \in SUBSET Node
  /\ \A n \in Node : Price[n] \in Nat /\ Fan[n] \in Nat /\ Fan[n] > 0
  /\ \A r \in Run : Passes[r] \in Nat /\ Passes[r] > 0 /\ Home[r] \in Proc
  /\ Threshold \in Nat /\ Budget \in Nat /\ AppLimit \in Nat /\ OutsideLimit \in Nat
  /\ Window \in Nat /\ Window > 0 /\ MaxChats \in Nat /\ MaxChats > 0 /\ MaxHolds \in Nat /\ MaxHolds > 0
  /\ MaxTime \in Nat /\ MaxFaults \in Nat /\ MaxRestarts \in Nat
<1> USE KeyAssumption, RequestAssumption, PriceAssumption, RunAssumption, LimitAssumption, BoundAssumption
<1>1. /\ \A k \in Key : k # Person
      /\ \A k \in Key : k \in Chat \/ k \in Outside
      /\ \A k \in Outside : k \in Key /\ k \notin Chat
      /\ \A k \in Chat : k \in Key /\ k \notin Outside
  BY DEF Key
<1>2. \A q \in Request : RunOf[q] \in Run /\ KeyOf[q] \in Key \cup {Person} /\ GraphOf[q] \in SUBSET Node
  BY DEF Run
<1>3. \A n \in Node : Price[n] \in Nat /\ Fan[n] \in Nat /\ Fan[n] > 0
  OBVIOUS
<1>4. \A r \in Run : Passes[r] \in Nat /\ Passes[r] > 0 /\ Home[r] \in Proc
  OBVIOUS
<1>5. /\ Threshold \in Nat /\ Budget \in Nat /\ AppLimit \in Nat /\ OutsideLimit \in Nat
      /\ Window \in Nat /\ Window > 0 /\ MaxChats \in Nat /\ MaxChats > 0 /\ MaxHolds \in Nat /\ MaxHolds > 0
      /\ MaxTime \in Nat /\ MaxFaults \in Nat /\ MaxRestarts \in Nat
  OBVIOUS
<1> QED BY <1>1, <1>2, <1>3, <1>4, <1>5

\* The sets that are summed over are finite.
LEMMA Finite ==
  /\ IsFiniteSet(Run) /\ IsFiniteSet(Outside) /\ IsFiniteSet(Node)
  /\ \A S \in SUBSET Time : IsFiniteSet(S)
<1>1. IsFiniteSet(Run)
  <2>1. [q \in Request |-> RunOf[q]] \in Surjection(Request, Run)
    BY DEF Surjection, Run
  <2> QED BY <2>1, FS_Surjection, FiniteAssumption
<1>2. IsFiniteSet(Outside)
  BY FiniteAssumption, FS_AddElement DEF Outside
<1>3. \A S \in SUBSET Time : IsFiniteSet(S)
  <2>1. IsFiniteSet(Time)
    BY FS_Interval, Constants DEF Time
  <2> QED BY <2>1, FS_Subset
<1> QED BY <1>1, <1>2, <1>3, FiniteAssumption

\* The empty ledger, the fresh books.
LEMMA FreshType == Empty \in LedgerType /\ Fresh \in BookType /\ NoHold \in HoldType
<1>1. Empty \in LedgerType
  <2>1. 0 \in Time /\ <<>> \in Seq(Chat) /\ Len(<<>>) = 0
    BY Constants DEF Time
  <2>2. \A k \in Chat : k \in Key
    BY Constants
  <2> QED BY <2>1, <2>2, Constants DEF Empty, LedgerType
<1>2. NoHold \in HoldType
  BY Constants DEF NoHold, HoldType, Time
<1> QED BY <1>1, <1>2, Constants DEF Fresh, BookType

\* A price of a run.
LEMMA ShareNat ==
  ASSUME NEW r \in Run, NEW n \in Node
  PROVE  Share(r, n) \in Nat
<1>1. Price[n] \in Nat /\ Fan[n] \in Nat /\ Passes[r] \in Nat
  BY Constants
<1>2. \A x, y, z \in Nat : x * y * z \in Nat
  OBVIOUS
<1> QED BY <1>1, <1>2 DEF Share

\* A charge is the sum of the shares: no part of it is larger.
LEMMA ChargeNat ==
  ASSUME NEW r \in Run, NEW S \in SUBSET Node
  PROVE  Charge(r, S) \in Nat /\ IsFiniteSet(S)
<1>1. IsFiniteSet(S)
  BY Finite, FS_Subset
<1> DEFINE f == [n \in S |-> Share(r, n)]
<1>2. \A n \in S : f[n] \in Nat
  BY ShareNat
<1> HIDE DEF f
<1>3. Sum(f, S) \in Nat
  BY <1>1, <1>2, SumNat
<1> QED BY <1>1, <1>3 DEF Charge, f

\* What a request could cost.
LEMMA CostNat ==
  ASSUME NEW q \in Request
  PROVE  Priced(q) \in SUBSET Node /\ Cost(q) \in Nat
<1>1. Priced(q) \in SUBSET Node /\ RunOf[q] \in Run
  BY Constants DEF Priced
<1> QED BY <1>1, ChargeNat DEF Cost

-----------------------------------------------------------------------------
(* The ledger: what a record and a refund do to the counts.                *)

\* To prune touches only what is older than the window.
LEMMA PrunedFacts ==
  ASSUME now \in Time, NEW l \in LedgerType
  PROVE  /\ Pruned(l) \in LedgerType /\ Pruned(l).chats = l.chats
         /\ \A k \in Key, t \in Time :
              Pruned(l).count[k][t] = IF k \in Chat \/ t > now - Window THEN l.count[k][t] ELSE 0
<1> DEFINE c == [k \in Key |-> IF k \in Chat THEN l.count[k] ELSE [t \in Time |-> IF t > now - Window THEN l.count[k][t] ELSE 0]]
<1>1. Pruned(l) = [l EXCEPT !.count = c]
  BY DEF Pruned
<1>2. l.count \in [Key -> [Time -> Int]] /\ l.chats \in Seq(Chat) /\ l = [count |-> l.count, chats |-> l.chats]
  BY DEF LedgerType
<1>3. now \in Int /\ Window \in Int /\ \A t \in Time : t \in Int
  BY Constants DEF Time
<1>4. c \in [Key -> [Time -> Int]]
  BY <1>2, <1>3
<1>5. \A k \in Key, t \in Time : c[k][t] = IF k \in Chat \/ t > now - Window THEN l.count[k][t] ELSE 0
  BY <1>2
<1> HIDE DEF c
<1>6. Pruned(l).count = c /\ Pruned(l).chats = l.chats /\ Pruned(l) = [count |-> c, chats |-> l.chats]
  BY <1>1, <1>2
<1>7. \A k \in Chat, t \in Time : c[k][t] >= 0
  BY <1>5, Constants DEF LedgerType
<1>8. Pruned(l) \in LedgerType
  BY <1>2, <1>4, <1>6, <1>7 DEF LedgerType
<1> QED BY <1>5, <1>6, <1>8

\* One count is set.
LEMMA CountSet ==
  ASSUME NEW l \in LedgerType, NEW k \in Key, NEW s \in Time, NEW v \in Int
  PROVE  LET m == [l EXCEPT !.count[k][s] = v] IN
         /\ m = [count |-> m.count, chats |-> l.chats] /\ m.chats = l.chats
         /\ m.count \in [Key -> [Time -> Int]]
         /\ \A c \in Key, t \in Time : m.count[c][t] = IF c = k /\ t = s THEN v ELSE l.count[c][t]
<1> DEFINE f == [l.count EXCEPT ![k][s] = v]
           m == [l EXCEPT !.count[k][s] = v]
<1>1. l.count \in [Key -> [Time -> Int]] /\ l = [count |-> l.count, chats |-> l.chats]
  BY DEF LedgerType
<1>2. f \in [Key -> [Time -> Int]] /\ \A c \in Key, t \in Time : f[c][t] = IF c = k /\ t = s THEN v ELSE l.count[c][t]
  BY <1>1
<1>3. m = [l EXCEPT !.count = f]
  BY <1>1
<1> HIDE DEF f, m
<1>4. m.count = f /\ m.chats = l.chats /\ m = [count |-> f, chats |-> l.chats]
  BY <1>1, <1>3
<1>5. /\ m = [count |-> m.count, chats |-> l.chats] /\ m.chats = l.chats
      /\ m.count \in [Key -> [Time -> Int]]
      /\ \A c \in Key, t \in Time : m.count[c][t] = IF c = k /\ t = s THEN v ELSE l.count[c][t]
  BY <1>2, <1>4
<1> QED BY <1>5 DEF m

\* What a record adds, and that only a chat dropped for room loses its total.
LEMMA RecordedFacts ==
  ASSUME now \in Time, NEW l \in LedgerType, NEW k \in Key, NEW a \in Nat
  PROVE  LET m == Recorded(l, k, a) IN
         /\ m \in LedgerType
         /\ k \in Chat => k \in ToSet(m.chats)
         /\ \A c \in Key, t \in Time :
              (IF c \in Chat THEN c \in ToSet(m.chats) ELSE t > now - Window)
                => m.count[c][t] = l.count[c][t] + (IF c = k /\ t = Slot(k, now) THEN a ELSE 0)
         /\ \A c \in Key, t \in Time :
              ~(IF c \in Chat THEN c \in ToSet(m.chats) ELSE t > now - Window) => m.count[c][t] = 0
<1> DEFINE kept == IF k \in Chat THEN Newest(Append(RemoveFirst(l.chats, k), k), MaxChats) ELSE l.chats
           one == [l EXCEPT !.count[k][Slot(k, now)] = @ + a]
           two == [one EXCEPT !.chats = kept,
                     !.count = [c \in Key |-> IF c \in Chat /\ c \notin ToSet(kept) THEN Empty.count[c] ELSE @[c]]]
           n == [c \in Key |-> IF c \in Chat /\ c \notin ToSet(kept) THEN Empty.count[c] ELSE one.count[c]]
<1>0. Slot(k, now) \in Time /\ now \in Int /\ \A t \in Time : t \in Int
  BY Constants DEF Slot, Time
<1>1. l.count \in [Key -> [Time -> Int]] /\ l.chats \in Seq(Chat) /\ l = [count |-> l.count, chats |-> l.chats]
  BY DEF LedgerType
<1>2. kept \in Seq(Chat) /\ Len(kept) <= MaxChats /\ (k \in Chat => k \in ToSet(kept))
  <2>1. CASE k \in Chat
    <3> DEFINE w == Newest(Append(RemoveFirst(l.chats, k), k), MaxChats)
    <3>1. MaxChats \in Nat \ {0}
      BY Constants
    <3>2. w \in Seq(Chat) /\ Len(w) <= MaxChats /\ k \in ToSet(w)
      BY <1>1, <2>1, <3>1, NewestWith
    <3> QED BY <2>1, <3>2
  <2>2. CASE k \notin Chat
    BY <1>1, <2>2 DEF LedgerType
  <2> QED BY <2>1, <2>2
<1>3. /\ one.count \in [Key -> [Time -> Int]]
      /\ one = [count |-> one.count, chats |-> l.chats]
      /\ \A c \in Key, t \in Time :
           one.count[c][t] = l.count[c][t] + (IF c = k /\ t = Slot(k, now) THEN a ELSE 0)
  <2> DEFINE v == l.count[k][Slot(k, now)] + a
  <2>1. v \in Int
    BY <1>0, <1>1
  <2>2. one = [l EXCEPT !.count[k][Slot(k, now)] = v]
    OBVIOUS
  <2> HIDE DEF one, v
  <2>3. /\ one.count \in [Key -> [Time -> Int]] /\ one = [count |-> one.count, chats |-> l.chats]
        /\ \A c \in Key, t \in Time : one.count[c][t] = IF c = k /\ t = Slot(k, now) THEN v ELSE l.count[c][t]
    BY <1>0, <2>1, <2>2, CountSet
  <2> QED BY <1>1, <2>3 DEF v
<1>4. Recorded(l, k, a) = Pruned(two)
  BY DEF Recorded
<1>5. two = [one EXCEPT !.chats = kept, !.count = n]
  OBVIOUS
<1> HIDE DEF kept, one, two
<1>6. Empty.count \in [Key -> [Time -> Int]] /\ \A c \in Key, t \in Time : Empty.count[c][t] = 0
  BY DEF Empty
<1>7. n \in [Key -> [Time -> Int]]
  BY <1>3, <1>6
<1>8. \A c \in Key, t \in Time :
        n[c][t] = IF c \in Chat /\ c \notin ToSet(kept) THEN 0
                  ELSE l.count[c][t] + (IF c = k /\ t = Slot(k, now) THEN a ELSE 0)
  BY <1>3, <1>6
<1> HIDE DEF n
<1>9. two = [count |-> n, chats |-> kept] /\ two.count = n /\ two.chats = kept
  BY <1>3, <1>5
<1>10. \A c \in Chat, t \in Time : n[c][t] >= 0
  <2> SUFFICES ASSUME NEW c \in Chat, NEW t \in Time PROVE n[c][t] >= 0
    OBVIOUS
  <2>1. c \in Key /\ l.count[c][t] \in Int /\ l.count[c][t] >= 0
    BY <1>1, Constants DEF LedgerType
  <2> QED BY <2>1, <1>8
<1>11. two \in LedgerType
  BY <1>2, <1>7, <1>9, <1>10 DEF LedgerType
<1>12. /\ Pruned(two) \in LedgerType /\ Pruned(two).chats = kept
       /\ \A c \in Key, t \in Time :
            Pruned(two).count[c][t] = IF c \in Chat \/ t > now - Window THEN n[c][t] ELSE 0
  BY <1>9, <1>11, PrunedFacts
<1> QED BY <1>2, <1>4, <1>8, <1>12

\* What a refund takes away.
LEMMA RefundedFacts ==
  ASSUME now \in Time, NEW l \in LedgerType, NEW k \in Key, NEW a \in Nat, NEW at \in Time
  PROVE  LET m == Refunded(l, k, a, at) IN
         /\ m \in LedgerType /\ m.chats = l.chats
         /\ \A c \in Key, t \in Time : (c \in Chat \/ t > now - Window) =>
              /\ m.count[c][t] <= l.count[c][t]
              /\ m.count[c][t] >= l.count[c][t] - (IF c = k /\ t = Slot(k, at) THEN a ELSE 0)
         /\ \A c \in Outside, t \in Time : t # at /\ l.count[c][t] = 0 => m.count[c][t] = 0
<1>0. Slot(k, at) \in Time /\ 0 \in Time /\ now \in Int /\ \A t \in Time : t \in Int
  BY Constants DEF Slot, Time
<1>1. /\ l.count \in [Key -> [Time -> Int]] /\ l.chats \in Seq(Chat) /\ l = [count |-> l.count, chats |-> l.chats]
      /\ Len(l.chats) <= MaxChats
      /\ \A c \in Key, t \in Time : l.count[c][t] \in Int
      /\ \A c \in Chat, t \in Time : l.count[c][t] >= 0
  BY Constants DEF LedgerType
<1>2. CASE k \notin Chat
  <2> DEFINE one == [l EXCEPT !.count[k][at] = @ - a]
  <2>1. /\ one.count \in [Key -> [Time -> Int]] /\ one = [count |-> one.count, chats |-> l.chats]
        /\ \A c \in Key, t \in Time : one.count[c][t] = l.count[c][t] - (IF c = k /\ t = at THEN a ELSE 0)
    <3> DEFINE v == l.count[k][at] - a
    <3>1. v \in Int
      BY <1>1
    <3>2. one = [l EXCEPT !.count[k][at] = v]
      OBVIOUS
    <3> HIDE DEF one, v
    <3>3. /\ one.count \in [Key -> [Time -> Int]] /\ one = [count |-> one.count, chats |-> l.chats]
          /\ \A c \in Key, t \in Time : one.count[c][t] = IF c = k /\ t = at THEN v ELSE l.count[c][t]
      BY <3>1, <3>2, CountSet
    <3> QED BY <1>1, <3>3 DEF v
  <2>2. Refunded(l, k, a, at) = Pruned(one) /\ Slot(k, at) = at
    BY <1>2 DEF Refunded, Slot
  <2> HIDE DEF one
  <2>3. \A c \in Chat, t \in Time : one.count[c][t] >= 0
    <3> SUFFICES ASSUME NEW c \in Chat, NEW t \in Time PROVE one.count[c][t] >= 0
      OBVIOUS
    <3>1. c \in Key /\ c # k
      BY <1>2, Constants
    <3> QED BY <1>1, <2>1, <3>1
  <2>4. one \in LedgerType /\ one.chats = l.chats
    BY <1>1, <2>1, <2>3 DEF LedgerType
  <2>5. /\ Pruned(one) \in LedgerType /\ Pruned(one).chats = l.chats
        /\ \A c \in Key, t \in Time :
             Pruned(one).count[c][t] = IF c \in Chat \/ t > now - Window THEN one.count[c][t] ELSE 0
    BY <2>4, PrunedFacts
  <2> DEFINE m == Pruned(one)
  <2> HIDE DEF m
  <2>6. ASSUME NEW c \in Key, NEW t \in Time, c \in Chat \/ t > now - Window
        PROVE  m.count[c][t] <= l.count[c][t] /\ m.count[c][t] >= l.count[c][t] - (IF c = k /\ t = at THEN a ELSE 0)
    <3>1. m.count[c][t] = l.count[c][t] - (IF c = k /\ t = at THEN a ELSE 0) /\ l.count[c][t] \in Int
      BY <1>1, <2>1, <2>5, <2>6 DEF m
    <3> QED BY <3>1
  <2>7. ASSUME NEW c \in Outside, NEW t \in Time, t # at, l.count[c][t] = 0 PROVE m.count[c][t] = 0
    BY <2>1, <2>5, <2>7, Constants DEF m
  <2> QED BY <2>2, <2>5, <2>6, <2>7 DEF m
<1>3. CASE k \in Chat /\ k \in ToSet(l.chats)
  <2> DEFINE one == [l EXCEPT !.count[k][0] = Max({0, @ - a})]
             new == Max({0, l.count[k][0] - a})
  <2>1. /\ new \in Int /\ new >= 0 /\ new >= l.count[k][0] - a /\ new <= l.count[k][0]
    <3> DEFINE z == l.count[k][0] - a
    <3>1. z \in Int /\ z <= l.count[k][0] /\ l.count[k][0] >= 0 /\ l.count[k][0] \in Int
      BY <1>0, <1>1, <1>3
    <3> HIDE DEF z
    <3>2. Max({0, z}) \in Int /\ Max({0, z}) >= 0 /\ Max({0, z}) >= z /\ Max({0, z}) \in {0, z}
      BY <3>1, MaxOfTwo
    <3>3. Max({0, z}) <= l.count[k][0]
      BY <3>1, <3>2
    <3> QED BY <3>2, <3>3 DEF z
  <2>2. one = [l EXCEPT !.count[k][0] = new]
    OBVIOUS
  <2>3. Refunded(l, k, a, at) = Pruned(one) /\ Slot(k, at) = 0
    BY <1>3 DEF Refunded, Slot
  <2> HIDE DEF new, one
  <2>4. /\ one.count \in [Key -> [Time -> Int]] /\ one = [count |-> one.count, chats |-> l.chats]
        /\ \A c \in Key, t \in Time : one.count[c][t] = IF c = k /\ t = 0 THEN new ELSE l.count[c][t]
    BY <1>0, <1>1, <2>1, <2>2
  <2>5. \A c \in Chat, t \in Time : one.count[c][t] >= 0
    <3> SUFFICES ASSUME NEW c \in Chat, NEW t \in Time PROVE one.count[c][t] >= 0
      OBVIOUS
    <3>1. c \in Key
      BY Constants
    <3> QED BY <1>1, <2>1, <2>4, <3>1
  <2>6. one \in LedgerType /\ one.chats = l.chats
    BY <1>1, <2>4, <2>5 DEF LedgerType
  <2>7. /\ Pruned(one) \in LedgerType /\ Pruned(one).chats = l.chats
        /\ \A c \in Key, t \in Time :
             Pruned(one).count[c][t] = IF c \in Chat \/ t > now - Window THEN one.count[c][t] ELSE 0
    BY <2>6, PrunedFacts
  <2> DEFINE m == Pruned(one)
  <2> HIDE DEF m
  <2>8. ASSUME NEW c \in Key, NEW t \in Time, c \in Chat \/ t > now - Window
        PROVE  m.count[c][t] <= l.count[c][t] /\ m.count[c][t] >= l.count[c][t] - (IF c = k /\ t = 0 THEN a ELSE 0)
    <3>1. m.count[c][t] = (IF c = k /\ t = 0 THEN new ELSE l.count[c][t]) /\ l.count[c][t] \in Int
      BY <1>1, <2>4, <2>7, <2>8 DEF m
    <3> QED BY <2>1, <3>1
  <2>9. ASSUME NEW c \in Outside, NEW t \in Time, t # at, l.count[c][t] = 0 PROVE m.count[c][t] = 0
    <3>1. c \in Key /\ c # k
      BY <1>3, Constants
    <3> QED BY <2>4, <2>7, <2>9, <3>1 DEF m
  <2> QED BY <2>3, <2>7, <2>8, <2>9 DEF m
<1>4. CASE k \in Chat /\ k \notin ToSet(l.chats)
  <2>1. Refunded(l, k, a, at) = l
    BY <1>4 DEF Refunded
  <2> QED BY <1>1, <2>1
<1> QED BY <1>2, <1>3, <1>4

-----------------------------------------------------------------------------
(* The books.                                                              *)

\* The parts of a book.
LEMMA BookParts ==
  ASSUME NEW b \in BookType
  PROVE  /\ b.loaded \in BOOLEAN /\ b.blind \in BOOLEAN /\ b.ledger \in LedgerType
         /\ b.order \in Seq(Run) /\ Len(b.order) <= MaxHolds
         /\ b.hold \in [Run -> HoldType] /\ b.called \in [Run -> SUBSET Node]
         /\ b.tracked \in SUBSET Run /\ b.doubted \in SUBSET Run /\ b.tracked \cap b.doubted = {}
         /\ \A r \in Run : /\ b.hold[r].key \in Key \cup {Person} /\ b.hold[r].at \in Time
                           /\ b.hold[r].share \in SUBSET Node /\ (b.hold[r].share # {} => b.hold[r].key \in Key)
                           /\ b.called[r] \in SUBSET Node
  BY DEF BookType, HoldType

\* The lazy load changes nothing but the ledger.
LEMMA OpenedFacts ==
  ASSUME disk \in LedgerType, NEW b \in BookType
  PROVE  LET o == Opened(b) IN
         /\ o \in BookType /\ o.loaded /\ Opened(o) = o
         /\ o.hold = b.hold /\ o.order = b.order /\ o.called = b.called
         /\ o.tracked = b.tracked /\ o.doubted = b.doubted
         /\ o.ledger = (IF b.loaded THEN b.ledger ELSE IF b.blind THEN Empty ELSE disk)
  BY FreshType DEF Opened, BookType

\* A record that is taken, a record that is begun: no other run's changes.
LEMMA TakenFacts ==
  ASSUME NEW b \in BookType, NEW r \in Run
  PROVE  LET c == Taken(b, r) IN
         /\ c \in BookType /\ c.loaded = b.loaded /\ c.blind = b.blind /\ c.ledger = b.ledger
         /\ c.hold = b.hold /\ c.order = b.order
         /\ \A i \in Run \ {r} : c.called[i] = b.called[i] /\ (i \in c.tracked <=> i \in b.tracked)
  BY DEF Taken, BookType

\* A record that begins leaves the ledger, the holds and the records of the other runs (begin).
LEMMA BegunFacts ==
  ASSUME NEW b \in BookType, NEW r \in Run
  PROVE  LET c == Begun(b, r) IN
         /\ c \in BookType /\ c.loaded = b.loaded /\ c.ledger = b.ledger /\ c.hold = b.hold /\ c.order = b.order
         /\ \A i \in Run \ {r} : c.called[i] = b.called[i] /\ (i \in c.tracked <=> i \in b.tracked)
<1>1. CASE r \in b.tracked \cup b.doubted
  BY <1>1 DEF Begun, BookType
<1>2. CASE r \notin b.tracked \cup b.doubted /\ Cardinality(b.tracked \cup b.doubted) < MaxHolds
  BY <1>2 DEF Begun, BookType
<1>3. CASE r \notin b.tracked \cup b.doubted /\ ~(Cardinality(b.tracked \cup b.doubted) < MaxHolds)
  BY <1>3 DEF Begun
<1> QED BY <1>1, <1>2, <1>3

\* The hold of a request is placed, those that make room are gone.
LEMMA HeldFacts ==
  ASSUME now \in Time, NEW b \in BookType, NEW q \in Request, KeyOf[q] # Person
  PROVE  LET c == Held(b, q)
             r == RunOf[q]
             D == Displaced(b, r) IN
         /\ c \in BookType /\ c.loaded = b.loaded /\ c.ledger = b.ledger /\ r \notin D
         /\ c.hold[r] = [key |-> KeyOf[q], at |-> now, share |-> Priced(q)]
         /\ \A i \in Run \ {r} : i \in D => c.hold[i] = NoHold
         /\ \A i \in Run \ {r} : i \notin D =>
              c.hold[i] = b.hold[i] /\ c.called[i] = b.called[i] /\ (i \in c.tracked <=> i \in b.tracked)
<1> DEFINE r == RunOf[q]
           D == Displaced(b, r)
           new == [key |-> KeyOf[q], at |-> now, share |-> Priced(q)]
           h == [i \in Run |-> IF i \in D THEN NoHold ELSE IF i = r THEN new ELSE b.hold[i]]
           d == [i \in Run |-> IF i \in D THEN {} ELSE b.called[i]]
           gone == [b EXCEPT !.order = Keeping(b, r), !.tracked = @ \ D, !.doubted = @ \ D, !.called = d, !.hold = h]
<1>1. r \in Run /\ new \in HoldType
  BY Constants, CostNat DEF HoldType
<1>2. /\ Keeping(b, r) \in Seq(Run) /\ Len(Keeping(b, r)) <= MaxHolds /\ r \in ToSet(Keeping(b, r))
  <2>1. b.order \in Seq(Run) /\ MaxHolds \in Nat \ {0}
    BY BookParts, Constants
  <2> HIDE DEF r
  <2>2. LET w == Newest(Append(RemoveFirst(b.order, r), r), MaxHolds)
        IN w \in Seq(Run) /\ Len(w) <= MaxHolds /\ r \in ToSet(w)
    BY <1>1, <2>1, NewestWith
  <2> QED BY <2>2 DEF Keeping
<1>3. r \notin D
  BY <1>2 DEF Displaced
<1>4. Held(b, q) = Begun(gone, r)
  BY DEF Held
<1> HIDE DEF new, D
<1>5. h \in [Run -> HoldType] /\ d \in [Run -> SUBSET Node]
  BY <1>1, BookParts, FreshType
<1>6. /\ \A i \in Run : h[i] = IF i \in D THEN NoHold ELSE IF i = r THEN new ELSE b.hold[i]
      /\ \A i \in Run : d[i] = IF i \in D THEN {} ELSE b.called[i]
  OBVIOUS
<1> HIDE DEF h, d, r
<1>7. /\ gone \in BookType /\ gone.loaded = b.loaded /\ gone.ledger = b.ledger /\ gone.hold = h /\ gone.called = d
      /\ gone.tracked = b.tracked \ D
  BY <1>2, <1>5 DEF BookType
<1> HIDE DEF gone
<1>8. LET c == Begun(gone, r) IN
         /\ c \in BookType /\ c.loaded = b.loaded /\ c.ledger = b.ledger /\ c.hold = h
         /\ \A i \in Run \ {r} : c.called[i] = d[i] /\ (i \in c.tracked <=> i \in gone.tracked)
  BY <1>1, <1>7, BegunFacts
<1> QED BY <1>1, <1>3, <1>4, <1>6, <1>7, <1>8 DEF r, D, new

\* The nodes S of the hold of r are given back.
LEMMA GivenBackFacts ==
  ASSUME now \in Time, disk \in LedgerType, NEW b \in BookType, NEW r \in Run, NEW S \in SUBSET Node
  PROVE  LET c == GivenBack(b, r, S)
             h == b.hold[r] IN
         /\ c \in BookType /\ c.order = b.order /\ c.called = b.called /\ c.tracked = b.tracked
         /\ c.doubted = b.doubted
         /\ c.hold = [b.hold EXCEPT ![r].share = @ \ S]
         /\ h.share \cap S = {} => c = b
         /\ h.share \cap S # {} =>
              c.loaded /\ c.ledger = Refunded(Opened(b).ledger, h.key, Charge(r, h.share \cap S), h.at)
<1> DEFINE h == b.hold[r]
           o == Opened(b)
           l == Refunded(o.ledger, h.key, Charge(r, h.share \cap S), h.at)
<1>0. /\ b.hold \in [Run -> HoldType] /\ h \in HoldType /\ h.share \in SUBSET Node /\ h.at \in Time
      /\ h.share # {} => h.key \in Key
  BY BookParts DEF HoldType
<1>1. CASE h.share \cap S = {}
  <2>1. h.share \ S = h.share
    BY <1>1
  <2>2. [b.hold EXCEPT ![r].share = @ \ S] = b.hold
    BY <1>0, <2>1 DEF HoldType
  <2>3. GivenBack(b, r, S) = b
    BY <1>1 DEF GivenBack
  <2> QED BY <1>1, <2>2, <2>3
<1>2. CASE h.share \cap S # {}
  <2>1. Charge(r, h.share \cap S) \in Nat /\ h.key \in Key
    BY <1>0, <1>2, ChargeNat
  <2>2. /\ o \in BookType /\ o.loaded /\ o.hold = b.hold /\ o.order = b.order /\ o.called = b.called
        /\ o.tracked = b.tracked /\ o.doubted = b.doubted
    BY OpenedFacts
  <2>3. o.ledger \in LedgerType
    BY <2>2, BookParts
  <2>4. l \in LedgerType
    BY <1>0, <2>1, <2>3, RefundedFacts
  <2>5. GivenBack(b, r, S) = [o EXCEPT !.ledger = l, !.hold[r].share = @ \ S]
    BY <1>2 DEF GivenBack
  <2> HIDE DEF o, l
  <2> DEFINE hold2 == [b.hold EXCEPT ![r].share = @ \ S]
  <2>6. hold2 \in [Run -> HoldType]
    BY <1>0 DEF HoldType
  <2>7. GivenBack(b, r, S) = [o EXCEPT !.ledger = l, !.hold = hold2]
    BY <2>2, <2>5 DEF BookType
  <2> HIDE DEF hold2
  <2>8. LET c == GivenBack(b, r, S) IN
         /\ c \in BookType /\ c.order = b.order /\ c.called = b.called /\ c.tracked = b.tracked
         /\ c.doubted = b.doubted /\ c.hold = hold2 /\ c.loaded /\ c.ledger = l
    BY <2>2, <2>4, <2>6, <2>7 DEF BookType
  <2> QED BY <1>2, <2>8 DEF hold2, l, o
<1> QED BY <1>1, <1>2

\* The hold and the record of r are gone.
LEMMA DroppedFacts ==
  ASSUME NEW b \in BookType, NEW r \in Run
  PROVE  LET c == Dropped(b, r) IN
         /\ c \in BookType /\ c.loaded = b.loaded /\ c.blind = b.blind /\ c.ledger = b.ledger /\ c.hold[r] = NoHold
         /\ \A i \in Run \ {r} :
              c.hold[i] = b.hold[i] /\ c.called[i] = b.called[i] /\ (i \in c.tracked <=> i \in b.tracked)
<1> DEFINE t == Taken(b, r)
           o == RemoveFirst(t.order, r)
<1>1. /\ t \in BookType /\ t.loaded = b.loaded /\ t.blind = b.blind /\ t.ledger = b.ledger
      /\ t.hold = b.hold /\ t.order = b.order
      /\ \A i \in Run \ {r} : t.called[i] = b.called[i] /\ (i \in t.tracked <=> i \in b.tracked)
  BY TakenFacts
<1>2. o \in Seq(Run) /\ Len(o) <= MaxHolds
  <2>1. t.order \in Seq(Run) /\ Len(t.order) <= MaxHolds
    BY <1>1, BookParts
  <2>2. o \in Seq(Run) /\ Len(o) <= Len(t.order) /\ Len(o) \in Nat /\ Len(t.order) \in Nat
    BY <2>1, RemoveFirstType
  <2> QED BY <2>1, <2>2, Constants
<1>3. Dropped(b, r) = [t EXCEPT !.order = o, !.hold[r] = NoHold]
  BY DEF Dropped
<1> HIDE DEF t, o
<1>4. t.hold \in [Run -> HoldType] /\ NoHold \in HoldType
  BY <1>1, BookParts, FreshType
<1> DEFINE h == [t.hold EXCEPT ![r] = NoHold]
<1>5. h \in [Run -> HoldType] /\ h[r] = NoHold /\ \A i \in Run \ {r} : h[i] = b.hold[i]
  BY <1>1, <1>4
<1>6. Dropped(b, r) = [t EXCEPT !.order = o, !.hold = h]
  BY <1>3
<1> HIDE DEF h
<1>7. LET c == Dropped(b, r) IN
        /\ c \in BookType /\ c.loaded = b.loaded /\ c.blind = b.blind /\ c.ledger = b.ledger /\ c.hold = h
        /\ c.called = t.called /\ c.tracked = t.tracked
  BY <1>1, <1>2, <1>5, <1>6 DEF BookType
<1> QED BY <1>1, <1>5, <1>7

-----------------------------------------------------------------------------
(* Products of naturals.                                                   *)

\* The products the shares are made of are naturals, and grow with a factor.
LEMMA Products ==
  /\ \A a, b \in Nat : a * b \in Nat
  /\ \A a, b \in Nat : b > 0 => a <= a * b /\ a * (b - 1) = a * b - a
  /\ \A a, b, c \in Nat : b <= c => a * b <= a * c
<1>1. \A a, b \in Nat : a * b \in Nat
  OBVIOUS
<1>2. ASSUME NEW a \in Nat, NEW b \in Nat, NEW c \in Nat, b <= c PROVE a * b <= a * c
  <2>1. a * c = a * b + a * (c - b) /\ c - b \in Nat
    BY <1>2
  <2>2. a * (c - b) \in Nat /\ a * b \in Nat /\ a * c \in Nat
    BY <1>1, <2>1
  <2> QED BY <2>1, <2>2
<1>3. ASSUME NEW a \in Nat, NEW b \in Nat, b > 0 PROVE a <= a * b /\ a * (b - 1) = a * b - a
  <2>1. a * 1 <= a * b
    BY <1>2, <1>3
  <2>2. a * (b - 1) = a * b - a
    OBVIOUS
  <2> QED BY <2>1, <2>2
<1> QED BY <1>1, <1>2, <1>3

-----------------------------------------------------------------------------
(* What a run may still cost, and what its hold may still give back.       *)

\* What a node of run r, in state u, may still cost.
Left(u, r, n) ==
  IF u.phase \in Going /\ n \in u.nodes \ u.keyless
  THEN IF n \in u.ever THEN Price[n] * (Fan[n] * (Passes[r] - u.pass + 1) - u.calls[n]) ELSE Share(r, n)
  ELSE 0

\* What the run may still cost.
Need(u, r) == Sum([n \in Node |-> Left(u, r, n)], Node)

\* Count s of key k is where a run of key, counted at time at, is counted.
InSlot(key, at, k, s) == key = k /\ Slot(key, at) = s

\* The runs of own are counted by what their own hold says: the others may
\* take back a hold that was placed for another request of their id.
Due(h, own, r, k, s) ==
  IF r \notin own /\ InSlot(h[r].key, h[r].at, k, s) THEN Charge(r, h[r].share) ELSE 0

\* What run r in state u may still cost of count s of key k, and what its hold
\* may take from it besides.
Needs(u, r, k, s) == IF InSlot(u.key, u.at, k, s) THEN Need(u, r) ELSE 0
Wants(u, h, own, r, k, s) == Needs(u, r, k, s) + Due(h, own, r, k, s)

\* What is counted covers what was spent, may still be spent, and may be given back.
Covered(ru, re, c, h, own, k, s) ==
  re[k][s] + Sum([r \in Run |-> Wants(ru[r], h, own, r, k, s)], Run) <= c[k][s]

\* What a run in state u looks like.
RunShape(u, r) ==
  /\ u.pass >= 1 /\ u.pass <= Passes[r]
  /\ u.keyless \subseteq u.ever /\ u.ever \subseteq u.nodes
  /\ \A n \in Node : u.calls[n] <= Fan[n] /\ (n \notin u.ever => u.calls[n] = 0)
  /\ u.pass = 1 => \A n \in u.ever : u.calls[n] > 0
  /\ u.phase \in {"none", "new"} => u.ever = {} /\ u.pass = 1

\* What is left is a natural number, the whole share for a node never called.
LEMMA LeftNat ==
  ASSUME NEW r \in Run, NEW u \in RunType, RunShape(u, r), NEW n \in Node
  PROVE  Left(u, r, n) \in Nat
<1>1. Price[n] \in Nat /\ Fan[n] \in Nat /\ Passes[r] \in Nat /\ u.pass \in Nat /\ u.calls[n] \in Nat
  BY Constants DEF RunType
<1>2. Passes[r] - u.pass + 1 \in Nat /\ Passes[r] - u.pass + 1 > 0 /\ u.calls[n] <= Fan[n]
  BY <1>1 DEF RunShape
<1> DEFINE x == Passes[r] - u.pass + 1
<1> HIDE DEF x
<1>3. Fan[n] <= Fan[n] * x /\ Fan[n] * x \in Nat
  BY <1>1, <1>2, Products DEF x
<1>4. Fan[n] * x - u.calls[n] \in Nat
  BY <1>1, <1>2, <1>3
<1>5. Price[n] * (Fan[n] * x - u.calls[n]) \in Nat
  BY <1>1, <1>4, Products
<1> QED BY <1>5, ShareNat DEF Left, x

\* What a run may still cost is a natural number.
LEMMA NeedNat ==
  ASSUME NEW r \in Run, NEW u \in RunType, RunShape(u, r)
  PROVE  Need(u, r) \in Nat
<1> DEFINE f == [n \in Node |-> Left(u, r, n)]
<1>1. \A n \in Node : f[n] \in Nat
  BY LeftNat
<1> HIDE DEF f
<1>2. Sum(f, Node) \in Nat
  BY <1>1, SumNat, Finite
<1> QED BY <1>2 DEF Need, f

\* So is what is due of its hold, and the two together.
LEMMA WantsNat ==
  ASSUME NEW r \in Run, NEW u \in RunType, RunShape(u, r), NEW h \in [Run -> HoldType],
         NEW own, NEW k, NEW s
  PROVE  /\ Wants(u, h, own, r, k, s) \in Nat /\ Due(h, own, r, k, s) \in Nat /\ Needs(u, r, k, s) \in Nat
         /\ Due(h, own, r, k, s) <= Wants(u, h, own, r, k, s)
<1>1. h[r].share \in SUBSET Node
  BY DEF HoldType
<1>2. Charge(r, h[r].share) \in Nat
  BY <1>1, ChargeNat
<1>3. Due(h, own, r, k, s) \in Nat
  BY <1>2 DEF Due
<1>4. Needs(u, r, k, s) \in Nat
  BY NeedNat DEF Needs
<1> QED BY <1>3, <1>4 DEF Wants

\* One run changes, and what is counted changes by no less.
LEMMA CoverMove ==
  ASSUME NEW ru \in [Run -> RunType], NEW ru2 \in [Run -> RunType],
         \A i \in Run : RunShape(ru[i], i) /\ RunShape(ru2[i], i),
         NEW h \in [Run -> HoldType], NEW h2 \in [Run -> HoldType], NEW own, NEW own2, NEW r \in Run,
         NEW k \in Key, NEW s \in Time,
         NEW re, NEW re2, re[k][s] \in Int, re2[k][s] \in Int,
         NEW c, NEW c2, c[k][s] \in Int, c2[k][s] \in Int,
         Covered(ru, re, c, h, own, k, s),
         \A i \in Run \ {r} : Wants(ru2[i], h2, own2, i, k, s) <= Wants(ru[i], h, own, i, k, s),
         c[k][s] - re[k][s] - Wants(ru[r], h, own, r, k, s)
           <= c2[k][s] - re2[k][s] - Wants(ru2[r], h2, own2, r, k, s)
  PROVE  Covered(ru2, re2, c2, h2, own2, k, s)
<1> DEFINE f == [i \in Run |-> Wants(ru[i], h, own, i, k, s)]
           g == [i \in Run |-> Wants(ru2[i], h2, own2, i, k, s)]
<1>1. \A i \in Run : f[i] \in Nat /\ g[i] \in Nat
  BY WantsNat
<1>2. \A i \in Run \ {r} : g[i] <= f[i]
  OBVIOUS
<1>3. f[r] = Wants(ru[r], h, own, r, k, s) /\ g[r] = Wants(ru2[r], h2, own2, r, k, s)
  OBVIOUS
<1>4. re[k][s] + Sum(f, Run) <= c[k][s]
  BY DEF Covered
<1> HIDE DEF f, g
<1>5. Sum(f, Run) = f[r] + Sum(f, Run \ {r}) /\ Sum(g, Run) = g[r] + Sum(g, Run \ {r})
  BY <1>1, Finite, SumOut
<1>6. IsFiniteSet(Run \ {r})
  BY Finite, FS_Subset
<1>7. Sum(g, Run \ {r}) <= Sum(f, Run \ {r})
  BY <1>1, <1>2, <1>6, SumLe
<1>8. Sum(f, Run \ {r}) \in Int /\ Sum(g, Run \ {r}) \in Int /\ f[r] \in Int /\ g[r] \in Int
  BY <1>1, <1>6, SumInt
<1>9. re2[k][s] + Sum(g, Run) <= c2[k][s]
  BY <1>3, <1>4, <1>5, <1>7, <1>8
<1> QED BY <1>9 DEF Covered, g

\* No run wants more, the counts and what was spent stay.
LEMMA CoverLess ==
  ASSUME NEW ru \in [Run -> RunType], NEW ru2 \in [Run -> RunType],
         \A i \in Run : RunShape(ru[i], i) /\ RunShape(ru2[i], i),
         NEW h \in [Run -> HoldType], NEW h2 \in [Run -> HoldType], NEW own, NEW own2,
         NEW k \in Key, NEW s \in Time,
         NEW re, re[k][s] \in Int, NEW c, NEW c2, c[k][s] \in Int, c2[k][s] \in Int, c[k][s] <= c2[k][s],
         Covered(ru, re, c, h, own, k, s),
         \A i \in Run : Wants(ru2[i], h2, own2, i, k, s) <= Wants(ru[i], h, own, i, k, s)
  PROVE  Covered(ru2, re, c2, h2, own2, k, s)
<1> DEFINE f == [i \in Run |-> Wants(ru[i], h, own, i, k, s)]
           g == [i \in Run |-> Wants(ru2[i], h2, own2, i, k, s)]
<1>1. \A i \in Run : f[i] \in Nat /\ g[i] \in Nat /\ g[i] <= f[i]
  BY WantsNat
<1>2. re[k][s] + Sum(f, Run) <= c[k][s]
  BY DEF Covered
<1> HIDE DEF f, g
<1>3. Sum(g, Run) <= Sum(f, Run) /\ Sum(f, Run) \in Int /\ Sum(g, Run) \in Int
  BY <1>1, Finite, SumLe, SumInt
<1>4. re[k][s] + Sum(g, Run) <= c2[k][s]
  BY <1>2, <1>3
<1> QED BY <1>4 DEF Covered, g

\* What is counted is no less than what was spent.
LEMMA CoveredReal ==
  ASSUME NEW ru \in [Run -> RunType], \A i \in Run : RunShape(ru[i], i), NEW h \in [Run -> HoldType], NEW own,
         NEW k, NEW s, NEW re, re[k][s] \in Int, NEW c, c[k][s] \in Int, Covered(ru, re, c, h, own, k, s)
  PROVE  re[k][s] <= c[k][s]
<1> DEFINE f == [i \in Run |-> Wants(ru[i], h, own, i, k, s)]
<1>1. \A i \in Run : f[i] \in Nat
  BY WantsNat
<1>2. re[k][s] + Sum(f, Run) <= c[k][s]
  BY DEF Covered
<1> HIDE DEF f
<1>3. Sum(f, Run) \in Nat
  BY <1>1, Finite, SumNat
<1> QED BY <1>2, <1>3

\* A part of a hold is charged no more than the whole, and what is left of it the rest.
LEMMA ChargeSplit ==
  ASSUME NEW r \in Run, NEW S \in SUBSET Node, NEW T \in SUBSET Node
  PROVE  Charge(r, S) = Charge(r, S \cap T) + Charge(r, S \ T)
<1> DEFINE f == [n \in Node |-> Share(r, n)]
           g == [n \in Node |-> IF n \in T THEN Share(r, n) ELSE 0]
           h == [n \in Node |-> IF n \in T THEN 0 ELSE Share(r, n)]
<1>1. ASSUME NEW Z \in SUBSET Node PROVE Charge(r, Z) = Sum(f, Z)
  <2> DEFINE e == [n \in Z |-> Share(r, n)]
  <2>1. \A n \in Z : e[n] = f[n]
    OBVIOUS
  <2> HIDE DEF e, f
  <2>2. Sum(e, Z) = Sum(f, Z)
    BY <2>1, ChargeNat, SumAgree
  <2> QED BY <2>2 DEF Charge, e
<1>2. \A n \in S : f[n] \in Int /\ g[n] \in Int /\ h[n] \in Int /\ f[n] = g[n] + h[n]
  BY ShareNat
<1>3. /\ \A n \in S \ (S \cap T) : g[n] = 0
      /\ \A n \in S \ (S \ T) : h[n] = 0
      /\ \A n \in S \cap T : g[n] = f[n]
      /\ \A n \in S \ T : h[n] = f[n]
  OBVIOUS
<1>4. IsFiniteSet(S) /\ IsFiniteSet(S \cap T) /\ IsFiniteSet(S \ T)
  BY ChargeNat
<1> HIDE DEF f, g, h
<1>5. Sum(f, S) = Sum(g, S) + Sum(h, S)
  BY <1>2, <1>4, SumAdd
<1>6. Sum(g, S) = Sum(g, S \cap T) /\ Sum(h, S) = Sum(h, S \ T)
  BY <1>2, <1>3, <1>4, SumPart
<1>7. Sum(g, S \cap T) = Sum(f, S \cap T) /\ Sum(h, S \ T) = Sum(f, S \ T)
  BY <1>3, <1>4, SumAgree
<1> QED BY <1>1, <1>5, <1>6, <1>7

\* A hold on nodes that were never called is no more than what its run may still cost.
LEMMA ChargeNeed ==
  ASSUME NEW r \in Run, NEW u \in RunType, RunShape(u, r), NEW S \in SUBSET Node,
         u.phase \in Going, S \subseteq u.nodes \ u.ever
  PROVE  Charge(r, S) <= Need(u, r)
<1> DEFINE f == [n \in Node |-> Left(u, r, n)]
           g == [n \in Node |-> IF n \in S THEN Share(r, n) ELSE 0]
           e == [n \in S |-> Share(r, n)]
<1>1. \A n \in Node : f[n] \in Nat /\ g[n] \in Nat /\ g[n] <= f[n]
  <2> SUFFICES ASSUME NEW n \in Node PROVE f[n] \in Nat /\ g[n] \in Nat /\ g[n] <= f[n]
    OBVIOUS
  <2>1. f[n] \in Nat /\ Share(r, n) \in Nat
    BY LeftNat, ShareNat
  <2>2. n \in S => f[n] = Share(r, n)
    BY DEF Left, RunShape
  <2> QED BY <2>1, <2>2
<1>2. /\ \A n \in Node \ S : g[n] = 0
      /\ \A n \in S : g[n] = e[n]
  OBVIOUS
<1> HIDE DEF f, g, e
<1>3. Sum(g, Node) <= Sum(f, Node)
  BY <1>1, Finite, SumLe
<1>4. Sum(g, Node) = Sum(g, S)
  BY <1>1, <1>2, Finite, SumPart
<1>5. Sum(g, S) = Sum(e, S)
  BY <1>2, ChargeNat, SumAgree
<1> QED BY <1>3, <1>4, <1>5 DEF Charge, Need, f, e

-----------------------------------------------------------------------------
(* A ledger that keeps the limits.                                         *)

\* Recent at time i.
Latest(i) == {t \in Time : i - Window < t /\ t <= i}

\* The counts of key k that a limit looks at.
Slots(i, k) == IF k \in Chat THEN {0} ELSE Latest(i)

\* What the ledger has of a key in the window.
Windowed(i, l, k) == Sum(l.count[k], Latest(i))

\* A chat without a place has no total, no count is of the future.
Kept(i, l) ==
  /\ \A k \in Chat : l.count[k][0] > 0 => k \in ToSet(l.chats)
  /\ \A k \in Outside, t \in Time : t > i => l.count[k][t] = 0

\* Every budget is kept by what is counted in the window, the keys of E apart:
\* what is counted of them may be less than nothing, and go up as it leaves.
Within(i, l, E) ==
  /\ \A k \in Chat : l.count[k][0] <= Budget
  /\ \A k \in App \ E : Windowed(i, l, k) <= AppLimit
  /\ Outside \cap E = {} => Sum([k \in Outside |-> Windowed(i, l, k)], Outside) <= OutsideLimit

\* There is room in every limit for another a of k.
Room(i, l, k, a) ==
  /\ k \in Chat => l.count[k][0] + a <= Budget
  /\ k \in App => Windowed(i, l, k) + a <= AppLimit
  /\ k \in Outside => Sum([c \in Outside |-> Windowed(i, l, c)], Outside) + a <= OutsideLimit

\* A slot that counts is a time: 0 of a chat, one of the window of the others.
LEMMA SlotsFacts ==
  ASSUME now \in Time
  PROVE  /\ now \in Latest(now) /\ Latest(now) \in SUBSET Time /\ IsFiniteSet(Latest(now)) /\ 0 \in Time /\ now \in Int
         /\ \A t \in Latest(now) : t \in Int /\ t > now - Window /\ t <= now
         /\ \A k \in Key : \A s \in Slots(now, k) :
              s \in Time /\ (k \in Chat => s = 0) /\ (k \notin Chat => s > now - Window /\ s <= now /\ s \in Latest(now))
<1>1. \A t \in Time : t \in Int /\ t >= 0
  BY Constants DEF Time
<1>2. now \in Latest(now) /\ Latest(now) \in SUBSET Time /\ 0 \in Time
  BY <1>1, Constants DEF Latest, Time
<1>3. IsFiniteSet(Latest(now))
  BY <1>2, Finite
<1> QED BY <1>1, <1>2, <1>3 DEF Slots, Latest

\* The types of the counts of a ledger.
LEMMA CountsInt ==
  ASSUME now \in Time, NEW l \in LedgerType
  PROVE  /\ \A k \in Key, t \in Time : l.count[k][t] \in Int
         /\ \A k \in Chat, t \in Time : l.count[k][t] \in Int /\ l.count[k][t] >= 0
         /\ \A k \in Outside : Windowed(now, l, k) \in Int
         /\ Sum([k \in Outside |-> Windowed(now, l, k)], Outside) \in Int
<1>1. \A k \in Key, t \in Time : l.count[k][t] \in Int
  BY DEF LedgerType
<1>2. \A k \in Chat, t \in Time : l.count[k][t] \in Int /\ l.count[k][t] >= 0
  BY <1>1, Constants DEF LedgerType
<1>3. ASSUME NEW k \in Outside PROVE Windowed(now, l, k) \in Int
  <2>1. \A t \in Latest(now) : l.count[k][t] \in Int
    BY <1>1, SlotsFacts, Constants
  <2> QED BY <2>1, SlotsFacts, SumInt DEF Windowed
<1> DEFINE f == [k \in Outside |-> Windowed(now, l, k)]
<1>4. \A k \in Outside : f[k] \in Int
  BY <1>3
<1> HIDE DEF f
<1>5. Sum(f, Outside) \in Int
  BY <1>4, Finite, SumInt
<1> QED BY <1>1, <1>2, <1>3, <1>5 DEF f

\* A record adds to one count: those of a chat dropped for room are lost.
LEMMA RecordedCounts ==
  ASSUME now \in Time, NEW l \in LedgerType, Kept(now, l), NEW k \in Key, NEW a \in Nat,
         NEW c \in Key, c \notin ToSet(l.chats) \ ToSet(Recorded(l, k, a).chats), NEW s \in Slots(now, c)
  PROVE  Recorded(l, k, a).count[c][s] = l.count[c][s] + (IF c = k /\ s = Slot(k, now) THEN a ELSE 0)
<1> DEFINE m == Recorded(l, k, a)
<1>1. s \in Time /\ (c \in Chat => s = 0) /\ (c \notin Chat => s > now - Window)
  BY SlotsFacts
<1>2. /\ k \in Chat => k \in ToSet(m.chats)
      /\ (IF c \in Chat THEN c \in ToSet(m.chats) ELSE s > now - Window)
           => m.count[c][s] = l.count[c][s] + (IF c = k /\ s = Slot(k, now) THEN a ELSE 0)
      /\ ~(IF c \in Chat THEN c \in ToSet(m.chats) ELSE s > now - Window) => m.count[c][s] = 0
  BY <1>1, RecordedFacts
<1> HIDE DEF m
<1>3. CASE c \in Chat /\ c \notin ToSet(m.chats)
  <2>1. c \notin ToSet(l.chats) /\ c # k
    BY <1>2, <1>3 DEF m
  <2>2. l.count[c][0] \in Int /\ l.count[c][0] >= 0 /\ ~(l.count[c][0] > 0)
    BY <1>3, <2>1, CountsInt, SlotsFacts DEF Kept
  <2> QED BY <1>1, <1>2, <1>3, <2>1, <2>2 DEF m
<1>4. CASE ~(c \in Chat /\ c \notin ToSet(m.chats))
  BY <1>1, <1>2, <1>4 DEF m
<1> QED BY <1>3, <1>4

\* A record within the limits keeps them.
LEMMA RecordedFine ==
  ASSUME now \in Time, NEW l \in LedgerType, NEW E, Kept(now, l), Within(now, l, E),
         NEW k \in Key, NEW a \in Nat, Room(now, l, k, a)
  PROVE  Kept(now, Recorded(l, k, a)) /\ Within(now, Recorded(l, k, a), E) /\ Recorded(l, k, a) \in LedgerType
<1> DEFINE m == Recorded(l, k, a)
<1>1. m \in LedgerType
  BY RecordedFacts
<1>2. \A c \in Chat : c \notin ToSet(m.chats) => m.count[c][0] = 0
  BY RecordedFacts, SlotsFacts, Constants
<1>3. \A c \in Chat : c \in ToSet(m.chats) => m.count[c][0] = l.count[c][0] + (IF c = k /\ 0 = Slot(k, now) THEN a ELSE 0)
  BY RecordedFacts, SlotsFacts, Constants
<1>4. \A c \in Outside, t \in Time : t > now - Window =>
        m.count[c][t] = l.count[c][t] + (IF c = k /\ t = Slot(k, now) THEN a ELSE 0)
  BY RecordedFacts, Constants
<1>5. \A c \in Outside : c = k => Slot(k, now) = now
  BY Constants DEF Slot
<1> HIDE DEF m
<1>6. Kept(now, m)
  <2>1. \A c \in Chat : m.count[c][0] > 0 => c \in ToSet(m.chats)
    BY <1>2
  <2>2. ASSUME NEW c \in Outside, NEW t \in Time, t > now PROVE m.count[c][t] = 0
    <3>1. t > now - Window /\ t # now /\ l.count[c][t] = 0
      BY <2>2, SlotsFacts, Constants DEF Kept, Time
    <3>2. m.count[c][t] = l.count[c][t] + (IF c = k /\ t = Slot(k, now) THEN a ELSE 0)
      BY <1>4, <3>1
    <3> QED BY <1>5, <3>1, <3>2
  <2> QED BY <2>1, <2>2 DEF Kept
<1>7. \A c \in Chat : m.count[c][0] <= Budget
  <2> SUFFICES ASSUME NEW c \in Chat PROVE m.count[c][0] <= Budget
    OBVIOUS
  <2>1. l.count[c][0] \in Int /\ l.count[c][0] <= Budget /\ Budget \in Nat
    BY CountsInt, SlotsFacts, Constants DEF Within
  <2>2. c = k => l.count[c][0] + a <= Budget
    BY DEF Room
  <2> QED BY <1>2, <1>3, <2>1, <2>2
<1>8. \A c \in Outside : Windowed(now, m, c) = Windowed(now, l, c) + (IF c = k THEN a ELSE 0)
  <2> SUFFICES ASSUME NEW c \in Outside PROVE Windowed(now, m, c) = Windowed(now, l, c) + (IF c = k THEN a ELSE 0)
    OBVIOUS
  <2>1. \A t \in Latest(now) : /\ m.count[c][t] \in Int /\ l.count[c][t] \in Int
                          /\ m.count[c][t] = l.count[c][t] + (IF c = k /\ t = now THEN a ELSE 0)
    BY <1>1, <1>4, <1>5, SlotsFacts, CountsInt, Constants
  <2>2. CASE c = k
    <3>1. now \in Latest(now) /\ \A t \in Latest(now) \ {now} : l.count[c][t] = m.count[c][t]
      BY <2>1, SlotsFacts
    <3>2. Sum(m.count[c], Latest(now)) = Sum(l.count[c], Latest(now)) - l.count[c][now] + m.count[c][now]
      BY <2>1, <3>1, SlotsFacts, SumChange
    <3>3. Sum(l.count[c], Latest(now)) \in Int
      BY <2>1, SlotsFacts, SumInt
    <3> QED BY <2>1, <2>2, <3>1, <3>2, <3>3 DEF Windowed
  <2>3. CASE c # k
    <3>1. \A t \in Latest(now) : m.count[c][t] = l.count[c][t]
      BY <2>1, <2>3
    <3>2. Sum(m.count[c], Latest(now)) = Sum(l.count[c], Latest(now))
      BY <3>1, SlotsFacts, SumAgree
    <3>3. Windowed(now, m, c) = Windowed(now, l, c)
      BY <3>2 DEF Windowed
    <3>4. Windowed(now, l, c) \in Int
      BY CountsInt
    <3> QED BY <2>3, <3>3, <3>4
  <2> QED BY <2>2, <2>3
<1>9. \A c \in App \ E : Windowed(now, m, c) <= AppLimit
  <2> SUFFICES ASSUME NEW c \in App \ E PROVE Windowed(now, m, c) <= AppLimit
    OBVIOUS
  <2>1. c \in Outside
    BY DEF Outside
  <2>2. Windowed(now, l, c) \in Int /\ Windowed(now, l, c) <= AppLimit /\ (c = k => Windowed(now, l, c) + a <= AppLimit)
    BY <2>1, CountsInt DEF Within, Room
  <2> QED BY <1>8, <2>1, <2>2
<1>10. ASSUME Outside \cap E = {} PROVE Sum([c \in Outside |-> Windowed(now, m, c)], Outside) <= OutsideLimit
  <2> DEFINE f == [c \in Outside |-> Windowed(now, l, c)]
             g == [c \in Outside |-> Windowed(now, m, c)]
  <2>1. \A c \in Outside : f[c] \in Int /\ g[c] \in Int /\ g[c] = f[c] + (IF c = k THEN a ELSE 0)
    BY <1>1, <1>8, CountsInt
  <2>2. Sum(f, Outside) <= OutsideLimit /\ (k \in Outside => Sum(f, Outside) + a <= OutsideLimit)
    BY <1>10 DEF Within, Room
  <2> HIDE DEF f, g
  <2>3. Sum(f, Outside) \in Int
    BY <2>1, Finite, SumInt
  <2>4. CASE k \in Outside
    <3>1. Sum(g, Outside) = Sum(f, Outside) - f[k] + g[k]
      <4>1. \A y \in Outside \ {k} : f[y] = g[y]
        BY <2>1
      <4> QED BY <2>1, <2>4, <4>1, Finite, SumChange
    <3> QED BY <2>1, <2>2, <2>3, <2>4, <3>1 DEF g
  <2>5. CASE k \notin Outside
    <3>1. \A c \in Outside : g[c] = f[c]
      BY <2>1, <2>5
    <3>2. Sum(g, Outside) = Sum(f, Outside)
      BY <3>1, Finite, SumAgree
    <3> QED BY <2>2, <3>2 DEF g
  <2> QED BY <2>4, <2>5
<1> QED BY <1>1, <1>6, <1>7, <1>9, <1>10 DEF Within, m

\* A ledger with no larger counts keeps the limits too.
LEMMA LessWithin ==
  ASSUME now \in Time, NEW l \in LedgerType, NEW E, Within(now, l, E), NEW m \in LedgerType,
         \A k \in Key : \A s \in Slots(now, k) : m.count[k][s] <= l.count[k][s]
  PROVE  Within(now, m, E)
<1>1. \A k \in Chat : k \in Key /\ 0 \in Slots(now, k)
  BY Constants DEF Slots
<1>2. \A k \in Outside : k \in Key /\ Slots(now, k) = Latest(now)
  BY Constants DEF Slots
<1>3. \A k \in Chat : m.count[k][0] <= Budget
  <2> SUFFICES ASSUME NEW k \in Chat PROVE m.count[k][0] <= Budget
    OBVIOUS
  <2>1. m.count[k][0] <= l.count[k][0] /\ l.count[k][0] <= Budget
    BY <1>1 DEF Within
  <2>2. 0 \in Time /\ Budget \in Nat
    BY SlotsFacts, Constants
  <2>3. m.count[k][0] \in Int /\ l.count[k][0] \in Int
    BY <2>2, CountsInt
  <2> QED BY <2>1, <2>2, <2>3
<1>4. ASSUME NEW k \in Outside PROVE Windowed(now, m, k) <= Windowed(now, l, k)
  <2>1. \A t \in Latest(now) : m.count[k][t] \in Int /\ l.count[k][t] \in Int /\ m.count[k][t] <= l.count[k][t]
    BY <1>2, CountsInt, SlotsFacts
  <2> QED BY <2>1, SlotsFacts, SumLe DEF Windowed
<1>5. \A k \in App \ E : Windowed(now, m, k) <= AppLimit
  <2> SUFFICES ASSUME NEW k \in App \ E PROVE Windowed(now, m, k) <= AppLimit
    OBVIOUS
  <2>1. k \in Outside
    BY DEF Outside
  <2>2. Windowed(now, m, k) <= Windowed(now, l, k) /\ Windowed(now, l, k) <= AppLimit
    BY <1>4, <2>1 DEF Within
  <2>3. AppLimit \in Nat
    BY Constants
  <2>4. Windowed(now, m, k) \in Int /\ Windowed(now, l, k) \in Int
    BY <2>1, CountsInt
  <2> QED BY <2>2, <2>3, <2>4
<1>6. ASSUME Outside \cap E = {} PROVE Sum([k \in Outside |-> Windowed(now, m, k)], Outside) <= OutsideLimit
  <2> DEFINE f == [k \in Outside |-> Windowed(now, l, k)]
             g == [k \in Outside |-> Windowed(now, m, k)]
  <2>1. \A k \in Outside : f[k] \in Int /\ g[k] \in Int /\ g[k] <= f[k]
    BY <1>4, CountsInt
  <2>2. Sum(f, Outside) <= OutsideLimit
    BY <1>6 DEF Within
  <2> HIDE DEF f, g
  <2>3. Sum(g, Outside) <= Sum(f, Outside) /\ Sum(g, Outside) \in Int /\ Sum(f, Outside) \in Int
    BY <2>1, Finite, SumLe, SumInt
  <2>4. Sum(g, Outside) <= OutsideLimit
    BY <2>2, <2>3, Constants
  <2> QED BY <2>4 DEF g
<1> QED BY <1>3, <1>5, <1>6 DEF Within

\* With more keys apart fewer limits count.
LEMMA WithinMore ==
  ASSUME NEW i, NEW l, NEW E, NEW E2, Within(i, l, E), E \subseteq E2
  PROVE  Within(i, l, E2)
  BY DEF Within

\* A refund keeps the limits.
LEMMA RefundedFine ==
  ASSUME now \in Time, NEW l \in LedgerType, NEW E, Kept(now, l), Within(now, l, E), NEW k \in Key, NEW a \in Nat,
         NEW at \in Time, at <= now
  PROVE  Kept(now, Refunded(l, k, a, at)) /\ Within(now, Refunded(l, k, a, at), E) /\ Refunded(l, k, a, at) \in LedgerType
<1> DEFINE m == Refunded(l, k, a, at)
<1>1. /\ m \in LedgerType /\ m.chats = l.chats
      /\ \A c \in Key, t \in Time : (c \in Chat \/ t > now - Window) => m.count[c][t] <= l.count[c][t]
      /\ \A c \in Outside, t \in Time : t # at /\ l.count[c][t] = 0 => m.count[c][t] = 0
  BY RefundedFacts
<1> HIDE DEF m
<1>2. \A c \in Key : \A s \in Slots(now, c) : m.count[c][s] <= l.count[c][s]
  BY <1>1, SlotsFacts
<1>3. Within(now, m, E)
  BY <1>1, <1>2, LessWithin
<1>4. \A c \in Chat : m.count[c][0] > 0 => c \in ToSet(m.chats)
  <2> SUFFICES ASSUME NEW c \in Chat, m.count[c][0] > 0 PROVE c \in ToSet(m.chats)
    OBVIOUS
  <2>1. m.count[c][0] <= l.count[c][0] /\ m.count[c][0] \in Int /\ l.count[c][0] \in Int
    BY <1>1, SlotsFacts, CountsInt, Constants
  <2>2. l.count[c][0] > 0
    BY <2>1
  <2> QED BY <1>1, <2>2 DEF Kept
<1>5. ASSUME NEW c \in Outside, NEW t \in Time, t > now PROVE m.count[c][t] = 0
  <2>1. t # at /\ l.count[c][t] = 0
    BY <1>5, SlotsFacts, Constants DEF Kept, Time
  <2> QED BY <1>1, <2>1
<1> QED BY <1>1, <1>3, <1>4, <1>5 DEF Kept, m

\* What the limits allow, there is room for.
LEMMA AllowedRoom ==
  ASSUME now \in Time, NEW l \in LedgerType, NEW q \in Request, Charged(q), Allowed(l, q)
  PROVE  Room(now, l, KeyOf[q], Cost(q)) /\ KeyOf[q] \in Key
<1> DEFINE k == KeyOf[q]
           a == Cost(q)
           F(K) == [i \in K |-> IF i \in Chat THEN l.count[i][0] ELSE Sum(l.count[i], Recent)]
<1>1. a \in Nat /\ k \in Key
  BY CostNat, Constants DEF Charged
<1>2. ASSUME NEW K \in SUBSET Key, Sum(F(K), K) \in Int PROVE Sum(F(K), K) <= Spent(l, K) /\ Spent(l, K) \in Int
  <2> DEFINE x == Sum(F(K), K)
  <2>1. Spent(l, K) = Max({0, x})
    BY DEF Spent
  <2> HIDE DEF x
  <2>2. x \in Int
    BY <1>2 DEF x
  <2>3. Max({0, x}) \in Int /\ Max({0, x}) >= x
    BY <2>2, MaxOfTwo
  <2> QED BY <2>1, <2>2, <2>3 DEF x
<1>3. ASSUME NEW i \in Key PROVE Sum(F({i}), {i}) = IF i \in Chat THEN l.count[i][0] ELSE Windowed(now, l, i)
  <2> DEFINE f == F({i})
  <2>1. f[i] = IF i \in Chat THEN l.count[i][0] ELSE Windowed(now, l, i)
    BY DEF Windowed, Recent, Latest
  <2>2. f[i] \in Int
    BY <2>1, CountsInt, SlotsFacts, Constants
  <2> HIDE DEF f
  <2>3. IsFiniteSet({i}) /\ IsFiniteSet({})
    BY FS_Singleton, FS_EmptySet
  <2>4. Sum(f, {i}) = f[i] + Sum(f, {i} \ {i})
    BY <2>2, <2>3, SumOut
  <2>5. Sum(f, {}) = 0
    BY <2>3, SumStep
  <2>6. Sum(f, {i} \ {i}) = Sum(f, {})
    <3>1. {i} \ {i} = {}
      OBVIOUS
    <3> QED BY <3>1, Zenon
  <2>7. Sum(f, {i}) = f[i]
    BY <2>2, <2>4, <2>5, <2>6
  <2> QED BY <2>1, <2>7 DEF f
<1>4. Sum(F(Outside), Outside) = Sum([c \in Outside |-> Windowed(now, l, c)], Outside)
  <2> DEFINE f == F(Outside)
             g == [c \in Outside |-> Windowed(now, l, c)]
  <2>1. \A c \in Outside : f[c] = g[c]
    BY Constants DEF Windowed, Recent, Latest
  <2> HIDE DEF f, g
  <2>2. Sum(f, Outside) = Sum(g, Outside)
    BY <2>1, Finite, SumAgree
  <2> QED BY <2>2 DEF f, g
<1>5. /\ k \in Chat => Spent(l, {k}) + a <= Budget
      /\ k \in App => Spent(l, {k}) + a <= AppLimit
      /\ k \in Outside => Spent(l, Outside) + a <= OutsideLimit
  BY DEF Allowed, Charged
<1> HIDE DEF F, k, a
<1>6. CASE k \in Chat
  <2>1. k \notin App /\ k \notin Outside /\ {k} \in SUBSET Key
    BY <1>1, <1>6, Constants DEF Outside
  <2>2. Sum(F({k}), {k}) = l.count[k][0] /\ l.count[k][0] \in Int
    BY <1>1, <1>3, <1>6, CountsInt, SlotsFacts
  <2>3. l.count[k][0] <= Spent(l, {k}) /\ Spent(l, {k}) \in Int
    BY <1>2, <2>1, <2>2
  <2>4. l.count[k][0] + a <= Budget
    BY <1>1, <1>5, <1>6, <2>2, <2>3, Constants
  <2> QED BY <1>1, <2>1, <2>4 DEF Room, k, a
<1>7. CASE k \in Outside
  <2>1. k \notin Chat /\ {k} \in SUBSET Key /\ Outside \in SUBSET Key
    BY <1>1, <1>7, Constants
  <2>2. Sum(F({k}), {k}) = Windowed(now, l, k) /\ Windowed(now, l, k) \in Int
    BY <1>1, <1>3, <1>7, <2>1, CountsInt
  <2>3. Windowed(now, l, k) <= Spent(l, {k}) /\ Spent(l, {k}) \in Int
    BY <1>2, <2>1, <2>2
  <2>4. k \in App => Windowed(now, l, k) + a <= AppLimit
    BY <1>1, <1>5, <2>2, <2>3, Constants
  <2> DEFINE x == Sum([c \in Outside |-> Windowed(now, l, c)], Outside)
  <2>5. x \in Int
    BY CountsInt
  <2>6. x <= Spent(l, Outside) /\ Spent(l, Outside) \in Int
    BY <1>2, <1>4, <2>1, <2>5
  <2> HIDE DEF x
  <2>7. x + a <= OutsideLimit
    BY <1>1, <1>5, <1>7, <2>5, <2>6, Constants
  <2> QED BY <1>1, <2>1, <2>4, <2>7 DEF Room, k, a, x
<1> QED BY <1>1, <1>6, <1>7, Constants DEF k

-----------------------------------------------------------------------------
(* What the operations of a book do to its holds and its ledger.           *)

\* The ledger a book answers from, d being the file.
LedgerOf(b, d) == IF b.loaded THEN b.ledger ELSE IF b.blind THEN Empty ELSE d

\* The ledger of a book is the one in memory, or the file before the first use (_load).
LEMMA LedgerIs ==
  ASSUME disk \in LedgerType, NEW b \in BookType
  PROVE  Opened(b).ledger = LedgerOf(b, disk) /\ LedgerOf(b, disk) \in LedgerType
  BY OpenedFacts, BookParts, FreshType DEF LedgerOf

\* A charged request is recorded, its hold placed.
LEMMA CountedFacts ==
  ASSUME now \in Time, disk \in LedgerType, NEW b \in BookType, NEW q \in Request, Charged(q)
  PROVE  LET c == Counted(b, q)
             r == RunOf[q] IN
         /\ c \in BookType /\ c.loaded /\ c.ledger = Recorded(LedgerOf(b, disk), KeyOf[q], Cost(q))
         /\ c.hold[r] = [key |-> KeyOf[q], at |-> now, share |-> Priced(q)]
         /\ \E D \in SUBSET Run :
              /\ r \notin D
              /\ \A i \in Run \ {r} : i \in D => c.hold[i] = NoHold
              /\ \A i \in Run \ {r} : i \notin D =>
                   c.hold[i] = b.hold[i] /\ c.called[i] = b.called[i] /\ (i \in c.tracked <=> i \in b.tracked)
<1> DEFINE r == RunOf[q]
           o == Opened(b)
           l == LedgerOf(b, disk)
           m == Recorded(l, KeyOf[q], Cost(q))
           n == [o EXCEPT !.ledger = m]
           D == Displaced(n, r)
<1>1. /\ o \in BookType /\ o.loaded /\ o.hold = b.hold /\ o.order = b.order /\ o.called = b.called
      /\ o.tracked = b.tracked /\ o.doubted = b.doubted /\ o.ledger = l /\ l \in LedgerType
  BY OpenedFacts, LedgerIs DEF LedgerOf
<1>2. KeyOf[q] \in Key /\ KeyOf[q] # Person /\ Cost(q) \in Nat /\ Cost(q) # 0 /\ r \in Run
  BY CostNat, Constants DEF Charged
<1>3. m \in LedgerType
  BY <1>1, <1>2, RecordedFacts
<1>4. Counted(b, q) = Held(n, q)
  <2>1. Counted(b, q) = Held([o EXCEPT !.ledger = Recorded(o.ledger, KeyOf[q], Cost(q))], q)
    BY DEF Counted
  <2> QED BY <1>1, <2>1
<1> HIDE DEF l, m, o
<1>5. /\ n \in BookType /\ n.loaded /\ n.ledger = m /\ n.hold = b.hold /\ n.called = b.called /\ n.tracked = b.tracked
  BY <1>1, <1>3 DEF BookType
<1> HIDE DEF n
<1>6. LET c == Held(n, q) IN
         /\ c \in BookType /\ c.loaded = n.loaded /\ c.ledger = n.ledger /\ r \notin D
         /\ c.hold[r] = [key |-> KeyOf[q], at |-> now, share |-> Priced(q)]
         /\ \A i \in Run \ {r} : i \in D => c.hold[i] = NoHold
         /\ \A i \in Run \ {r} : i \notin D =>
              c.hold[i] = n.hold[i] /\ c.called[i] = n.called[i] /\ (i \in c.tracked <=> i \in n.tracked)
  BY <1>2, <1>5, HeldFacts
<1> HIDE DEF D
<1> DEFINE E == D \cap Run
<1>7. E \in SUBSET Run /\ \A i \in Run : i \in E <=> i \in D
  OBVIOUS
<1> HIDE DEF E
<1> QED BY <1>4, <1>5, <1>6, <1>7, <1>2 DEF m, l, r

\* Any other request is not counted.
LEMMA NotCounted ==
  ASSUME NEW b, NEW q \in Request, ~Charged(q)
  PROVE  Counted(b, q) = b
  BY DEF Counted

\* What is given back of the hold of r, and the hold gone.
LEMMA DroppedBack ==
  ASSUME now \in Time, disk \in LedgerType, NEW b \in BookType, NEW r \in Run, NEW S \in SUBSET Node
  PROVE  LET c == Dropped(GivenBack(b, r, S), r)
             h == b.hold[r]
             T == h.share \cap S IN
         /\ c \in BookType /\ c.hold[r] = NoHold
         /\ \A i \in Run \ {r} :
              c.hold[i] = b.hold[i] /\ c.called[i] = b.called[i] /\ (i \in c.tracked <=> i \in b.tracked)
         /\ T = {} => c.loaded = b.loaded /\ c.blind = b.blind /\ c.ledger = b.ledger
         /\ T # {} => c.loaded /\ c.ledger = Refunded(LedgerOf(b, disk), h.key, Charge(r, T), h.at)
<1> DEFINE g == GivenBack(b, r, S)
           h == b.hold[r]
           T == h.share \cap S
           m == Refunded(LedgerOf(b, disk), h.key, Charge(r, T), h.at)
<1>1. /\ g \in BookType /\ g.order = b.order /\ g.called = b.called /\ g.tracked = b.tracked
      /\ g.hold = [b.hold EXCEPT ![r].share = @ \ S]
      /\ T = {} => g = b
      /\ T # {} => g.loaded /\ g.ledger = m
  <2> DEFINE o == Opened(b).ledger
  <2>1. o = LedgerOf(b, disk)
    BY LedgerIs
  <2>2. /\ g \in BookType /\ g.order = b.order /\ g.called = b.called /\ g.tracked = b.tracked
        /\ g.hold = [b.hold EXCEPT ![r].share = @ \ S]
        /\ T = {} => g = b
    BY GivenBackFacts, ZenonT(30)
  <2>3. T # {} => g.loaded /\ g.ledger = Refunded(o, h.key, Charge(r, T), h.at)
    BY GivenBackFacts, Zenon
  <2> HIDE DEF o, T, h
  <2> QED BY <2>1, <2>2, <2>3
<1>2. \A i \in Run \ {r} : g.hold[i] = b.hold[i]
  BY <1>1, BookParts
<1> HIDE DEF g, m, T
<1>3. LET c == Dropped(g, r) IN
        /\ c \in BookType /\ c.loaded = g.loaded /\ c.blind = g.blind /\ c.ledger = g.ledger /\ c.hold[r] = NoHold
        /\ \A i \in Run \ {r} :
              c.hold[i] = g.hold[i] /\ c.called[i] = g.called[i] /\ (i \in c.tracked <=> i \in g.tracked)
  BY <1>1, DroppedFacts
<1>4. LET c == Dropped(g, r) IN
         /\ c \in BookType /\ c.hold[r] = NoHold
         /\ \A i \in Run \ {r} :
              c.hold[i] = b.hold[i] /\ c.called[i] = b.called[i] /\ (i \in c.tracked <=> i \in b.tracked)
         /\ T = {} => c.loaded = b.loaded /\ c.blind = b.blind /\ c.ledger = b.ledger
         /\ T # {} => c.loaded /\ c.ledger = m
  BY <1>1, <1>2, <1>3
<1> QED BY <1>4 DEF g, m, T

\* The nodes a settled run gives back: those its record has no call of.
Back(b, r) == IF r \in b.tracked THEN Node \ b.called[r] ELSE {}

\* The end of a run gives back the nodes its record has no call of (_settle_hold).
LEMMA SettledIs ==
  ASSUME NEW b \in BookType, NEW r \in Run
  PROVE  Settled(b, r) = Dropped(GivenBack(b, r, Back(b, r)), r) /\ Back(b, r) \in SUBSET Node
<1>1. CASE r \in b.tracked
  BY <1>1 DEF Settled, Back
<1>2. CASE r \notin b.tracked
  <2>1. b.hold[r].share \cap Back(b, r) = {} /\ Back(b, r) = {}
    BY <1>2 DEF Back
  <2>2. GivenBack(b, r, Back(b, r)) = b
    BY <2>1 DEF GivenBack
  <2> QED BY <1>2, <2>1, <2>2 DEF Settled
<1> QED BY <1>1, <1>2

\* A call is marked in the record of its run, if there is one.
LEMMA MarkedFacts ==
  ASSUME NEW b \in BookType, NEW r \in Run, NEW n \in Node
  PROVE  LET c == Marked(b, r, n) IN
         /\ c \in BookType /\ c.loaded = b.loaded /\ c.blind = b.blind /\ c.ledger = b.ledger
         /\ c.hold = b.hold /\ c.tracked = b.tracked
         /\ \A i \in Run \ {r} : c.called[i] = b.called[i]
         /\ b.called[r] \subseteq c.called[r] /\ (r \in b.tracked => n \in c.called[r])
<1>1. CASE r \in b.tracked
  <2>1. Marked(b, r, n) = [b EXCEPT !.called[r] = @ \cup {n}]
    BY <1>1 DEF Marked
  <2> DEFINE d == [b.called EXCEPT ![r] = @ \cup {n}]
  <2>2. /\ d \in [Run -> SUBSET Node] /\ (\A i \in Run \ {r} : d[i] = b.called[i]) /\ d[r] = b.called[r] \cup {n}
    BY BookParts
  <2>3. Marked(b, r, n) = [b EXCEPT !.called = d]
    BY <2>1
  <2> HIDE DEF d
  <2> QED BY <1>1, <2>2, <2>3 DEF BookType
<1>2. CASE r \notin b.tracked
  BY <1>2 DEF Marked
<1> QED BY <1>1, <1>2

\* What a give-back does to the ledger: the part T of the hold of r is taken off its count.
LEMMA BackLedger ==
  ASSUME now \in Time, NEW l \in LedgerType, NEW r \in Run, NEW h \in HoldType, NEW T \in SUBSET h.share,
         NEW m, m = IF T = {} THEN l ELSE Refunded(l, h.key, Charge(r, T), h.at)
  PROVE  /\ m \in LedgerType
         /\ Kept(now, l) /\ h.at <= now => \A E : Within(now, l, E) => Kept(now, m) /\ Within(now, m, E)
         /\ \A k \in Key : \A s \in Slots(now, k) :
              m.count[k][s] >= l.count[k][s] - (IF InSlot(h.key, h.at, k, s) THEN Charge(r, T) ELSE 0)
<1>1. T \in SUBSET Node /\ h.at \in Time
  BY DEF HoldType
<1>2. Charge(r, T) \in Nat
  BY <1>1, ChargeNat
<1>3. CASE T = {}
  <2>1. \A k \in Key : \A s \in Slots(now, k) : l.count[k][s] \in Int
    BY SlotsFacts, CountsInt
  <2>2. m = l
    BY <1>3
  <2>3. ASSUME NEW k \in Key, NEW s \in Slots(now, k)
        PROVE  m.count[k][s] >= l.count[k][s] - (IF InSlot(h.key, h.at, k, s) THEN Charge(r, T) ELSE 0)
    BY <1>2, <2>1, <2>2
  <2> QED BY <2>2, <2>3
<1>4. CASE T # {}
  <2>1. h.key \in Key
    BY <1>4, Constants DEF HoldType
  <2>2. m = Refunded(l, h.key, Charge(r, T), h.at)
    BY <1>4
  <2> DEFINE a == Charge(r, T)
  <2> HIDE DEF a
  <2>3. m \in LedgerType
    BY <1>1, <1>2, <2>1, <2>2, RefundedFacts DEF a
  <2>4. Kept(now, l) /\ h.at <= now => \A E : Within(now, l, E) => Kept(now, m) /\ Within(now, m, E)
    BY <1>1, <1>2, <2>1, <2>2, RefundedFine DEF a
  <2>5. \A c \in Key, t \in Time : (c \in Chat \/ t > now - Window) =>
          m.count[c][t] >= l.count[c][t] - (IF c = h.key /\ t = Slot(h.key, h.at) THEN a ELSE 0)
    <3>1. h.at \in Time /\ a \in Nat /\ m = Refunded(l, h.key, a, h.at)
      BY <1>1, <1>2, <2>2 DEF a
    <3> QED BY <2>1, <3>1, RefundedFacts
  <2>6. ASSUME NEW k \in Key, NEW s \in Slots(now, k)
        PROVE  m.count[k][s] >= l.count[k][s] - (IF InSlot(h.key, h.at, k, s) THEN a ELSE 0)
    <3>1. s \in Time /\ (k \in Chat \/ s > now - Window)
      BY SlotsFacts
    <3>2. InSlot(h.key, h.at, k, s) <=> k = h.key /\ s = Slot(h.key, h.at)
      BY DEF InSlot
    <3> QED BY <2>5, <3>1, <3>2
  <2> QED BY <2>3, <2>4, <2>6 DEF a
<1> QED BY <1>3, <1>4

\* A kept book: the ledger it has is the same with the file before and after,
\* and that is the new one or the old.
LEMMA KeepFacts ==
  ASSUME disk \in LedgerType, NEW b \in BookType, NEW a \in BookType, NEW file, NEW p \in Proc,
         books \in [Proc -> BookType], Keep(p, b, a, file),
         a.loaded \/ (~b.loaded /\ a.blind = b.blind /\ file = disk)
  PROVE  /\ books' = [books EXCEPT ![p] = a]
         /\ LedgerOf(a, disk') = LedgerOf(a, disk)
         /\ disk' \in {file, LedgerOf(a, disk)}
         /\ faults' \in {faults, faults + 1} /\ (faults' # faults => faults < MaxFaults)
<1>1. Opened(a).ledger = LedgerOf(a, disk) /\ Opened(b).ledger = LedgerOf(b, disk)
  BY LedgerIs
<1>2. CASE a.loaded
  BY <1>1, <1>2 DEF Keep, LedgerOf
<1>3. CASE ~a.loaded
  <2>1. Opened(a).ledger = Opened(b).ledger
    BY <1>1, <1>3 DEF LedgerOf
  <2> QED BY <1>1, <1>3, <2>1 DEF Keep, LedgerOf
<1> QED BY <1>2, <1>3

-----------------------------------------------------------------------------
(* The types and sizes are kept.                                           *)

\* The slots of a hold, or of a run.
LEMMA SlotsOfType ==
  ASSUME NEW h, h.key \in Key \cup {Person}, h.at \in Time
  PROVE  SlotsOf(h) \in SUBSET (Key \X Time)
<1>1. Slot(h.key, h.at) \in Time
  BY Constants DEF Slot, Time
<1> QED BY <1>1, Constants DEF SlotsOf

\* The chats of a ledger are chats.
LEMMA ChatsOf ==
  ASSUME NEW l \in LedgerType
  PROVE  ToSet(l.chats) \in SUBSET Chat
<1>1. l.chats \in Seq(Chat)
  BY DEF LedgerType
<1> QED BY <1>1, InSeq

\* Counting a request leaves a book.
LEMMA CountedType ==
  ASSUME now \in Time, disk \in LedgerType, NEW b \in BookType, NEW q \in Request
  PROVE  Counted(b, q) \in BookType
<1>1. CASE Charged(q)
  BY <1>1, CountedFacts
<1>2. CASE ~Charged(q)
  BY <1>2, NotCounted
<1> QED BY <1>1, <1>2

\* The histories that a count writes.
LEMMA CountsType ==
  ASSUME Typed, NEW q \in Request, NEW doubt \in BOOLEAN, Counts(q, doubt)
  PROVE  stray' \in SUBSET (Key \X Time) /\ evicted' \in SUBSET Chat
<1> DEFINE b == books[At(q)]
           c == Counted(b, q)
           r == RunOf[q]
           lost == (ToSet(b.order) \ ToSet(c.order)) \cup (IF c = b THEN {} ELSE {r})
           twice == doubt \/ r \in b.tracked \cup b.doubted
<1>1. At(q) \in Proc /\ r \in Run
  BY Constants DEF At
<1>2. b \in BookType /\ c \in BookType
  BY <1>1, CountedType DEF Typed
<1>3. lost \in SUBSET Run
  <2>1. b.order \in Seq(Run)
    BY <1>2, BookParts
  <2>2. ToSet(b.order) \subseteq Run
    BY <2>1, InSeq
  <2> QED BY <1>1, <2>2
<1>4. \A i \in Run : SlotsOf(b.hold[i]) \in SUBSET (Key \X Time) /\ SlotsOf(c.hold[i]) \in SUBSET (Key \X Time)
  BY <1>2, BookParts, SlotsOfType
<1>5. Ledger(At(q)) \in LedgerType
  BY <1>2, LedgerIs DEF Ledger, Typed
<1>6. ToSet(Ledger(At(q)).chats) \in SUBSET Chat
  BY <1>5, ChatsOf
<1>7. /\ evicted' = evicted \cup (ToSet(Ledger(At(q)).chats) \ ToSet(Opened(c).ledger.chats))
      /\ stray' = stray \cup (UNION {SlotsOf(b.hold[i]) : i \in lost}) \cup (IF twice THEN SlotsOf(c.hold[r]) ELSE {})
  BY DEF Counts
<1> HIDE DEF c, lost, twice, b
<1>8. stray \in SUBSET (Key \X Time) /\ evicted \in SUBSET Chat
  BY DEF Typed
<1>9. ASSUME NEW x \in stray' PROVE x \in Key \X Time
  <2>1. x \in stray \/ x \in UNION {SlotsOf(b.hold[i]) : i \in lost} \/ x \in SlotsOf(c.hold[r])
    BY <1>7
  <2>2. x \in UNION {SlotsOf(b.hold[i]) : i \in lost} => \E i \in lost : x \in SlotsOf(b.hold[i])
    OBVIOUS
  <2> QED BY <1>1, <1>3, <1>4, <1>8, <2>1, <2>2
<1>10. evicted' \in SUBSET Chat
  BY <1>6, <1>7, <1>8
<1> QED BY <1>9, <1>10

\* What a count saves is a ledger.
LEMMA SavedType ==
  ASSUME Typed, NEW q \in Request
  PROVE  At(q) \in Proc /\ books[At(q)] \in BookType /\ Counted(books[At(q)], q) \in BookType /\ Saved(q) \in LedgerType
<1>1. At(q) \in Proc /\ books[At(q)] \in BookType
  BY Constants DEF At, Typed
<1>2. Counted(books[At(q)], q) \in BookType
  BY <1>1, CountedType DEF Typed
<1> QED BY <1>1, <1>2, BookParts DEF Saved, Typed

\* A kept book is one, and the file a ledger.
LEMMA KeepType ==
  ASSUME Typed, NEW b, NEW a \in BookType, NEW file \in LedgerType, NEW p \in Proc, Keep(p, b, a, file)
  PROVE  books' \in [Proc -> BookType] /\ disk' \in LedgerType /\ faults' \in 0..MaxFaults
<1>1. a.ledger \in LedgerType
  BY BookParts
<1>2. faults' = faults \/ (faults < MaxFaults /\ faults' = faults + 1)
  BY DEF Keep
<1>3. books' \in [Proc -> BookType] /\ disk' \in LedgerType
  BY <1>1 DEF Keep, Typed
<1> QED BY <1>2, <1>3, Constants DEF Typed

\* The parts of the state of a run, and of the process it is sent to.
LEMMA RunTypes ==
  ASSUME Typed, NEW r \in Run
  PROVE  /\ run[r] \in RunType /\ run[r].key \in Key \cup {Person} /\ run[r].at \in Time
         /\ run[r].calls \in [Node -> Nat] /\ run[r].ever \in SUBSET Node /\ run[r].keyless \in SUBSET Node
         /\ run[r].failing \in SUBSET Node /\ run[r].nodes \in SUBSET Node /\ run[r].pass \in Nat
         /\ Home[r] \in Proc /\ books[Home[r]] \in BookType
  BY Constants DEF Typed, RunType

\* One run has another state.
LEMMA RunSet ==
  ASSUME Typed, NEW r \in Run, NEW u \in RunType, run' = [run EXCEPT ![r] = u]
  PROVE  run' \in [Run -> RunType] /\ run'[r] = u /\ \A i \in Run \ {r} : run'[i] = run[i]
  BY DEF Typed

\* An id without a run has the state of none.
LEMMA NoRunType == NoRun \in RunType
<1>1. 0 \in Time
  BY Constants DEF Time
<1> QED BY <1>1 DEF NoRun, RunType

\* Typed holds first.
LEMMA InitTyped == Init => Typed
<1> SUFFICES ASSUME Init PROVE Typed
  OBVIOUS
<1>1. now \in Time /\ faults \in 0..MaxFaults /\ restarts \in 0..MaxRestarts
  BY Constants DEF Init, Time
<1>2. disk \in LedgerType /\ books \in [Proc -> BookType]
  BY FreshType DEF Init
<1>3. run \in [Run -> RunType]
  BY NoRunType DEF Init
<1> QED BY <1>1, <1>2, <1>3 DEF Init, Typed

\* Keys that are set apart are keys.
LEMMA ApartTypes ==
  /\ \A q \in Request : Overlooked(q) \in SUBSET Key /\ Uncovered(q) \in SUBSET Key
  /\ \A r \in Run : KeysOf(r) \in SUBSET Key
  BY Constants DEF Overlooked, Uncovered, KeysOf, Charged

\* ... and every step keeps it.
LEMMA StepTyped == Typed /\ [Next]_vars => Typed'
<1> SUFFICES ASSUME Typed, [Next]_vars PROVE Typed'
  OBVIOUS
<1>1. CASE Tick
  <2>1. now' \in Time
    BY <1>1, Constants DEF Tick, Typed, Time
  <2> QED BY <1>1, <2>1 DEF Tick, Typed
<1>2. ASSUME NEW q \in Request, Ask(q) PROVE Typed'
  BY <1>2 DEF Ask, Typed
<1>3. ASSUME NEW q \in Request, Refuse(q) PROVE Typed'
  <2>1. At(q) \in Proc /\ Opened(books[At(q)]) \in BookType
    BY SavedType, OpenedFacts DEF Typed
  <2> QED BY <1>3, <2>1 DEF Refuse, Typed
<1>4. ASSUME NEW q \in Request, Start(q) PROVE Typed'
  <2> DEFINE new == [NoRun EXCEPT !.phase = "new", !.nodes = GraphOf[q], !.key = KeyOf[q], !.at = now]
  <2>1. new \in RunType
    BY NoRunType, Constants DEF RunType, Typed
  <2>2. stray' \in SUBSET (Key \X Time) /\ evicted' \in SUBSET Chat
    BY <1>4, CountsType DEF Start
  <2>3. run' = [run EXCEPT ![RunOf[q]] = new]
    BY <1>4 DEF Start
  <2> HIDE DEF new
  <2>4. run' \in [Run -> RunType]
    BY <2>1, <2>3 DEF Typed
  <2>5. books' \in [Proc -> BookType] /\ disk' \in LedgerType
    BY <1>4, SavedType DEF Start, Typed
  <2>6. apart' \in SUBSET Key
    BY <1>4, ApartTypes DEF Start, Typed
  <2> QED BY <1>4, <2>2, <2>4, <2>5, <2>6 DEF Start, Typed
<1>5. ASSUME NEW q \in Request, Late(q) PROVE Typed'
  <2>1. stray' \in SUBSET (Key \X Time) /\ evicted' \in SUBSET Chat
    BY <1>5, CountsType DEF Late
  <2>2. books' \in [Proc -> BookType] /\ disk' \in LedgerType
    BY <1>5, SavedType DEF Late, Typed
  <2> QED BY <1>5, <2>1, <2>2 DEF Late, Typed
<1>6. ASSUME NEW q \in Request, Leave(q) PROVE Typed'
  <2> DEFINE b == books[At(q)]
             r == RunOf[q]
  <2>1. At(q) \in Proc /\ b \in BookType /\ r \in Run
    BY SavedType, Constants
  <2>2. Returned(b, r) \in BookType
    BY <2>1, DroppedBack DEF Returned, Typed
  <2>3. books' \in [Proc -> BookType] /\ disk' \in LedgerType /\ faults' \in 0..MaxFaults
    <3>1. Keep(At(q), b, Returned(b, r), disk)
      BY <1>6 DEF Leave
    <3>2. disk \in LedgerType
      BY DEF Typed
    <3> HIDE DEF b
    <3> QED BY <2>1, <2>2, <3>1, <3>2, KeepType
  <2>4. SlotsOf(b.hold[r]) \in SUBSET (Key \X Time)
    BY <2>1, BookParts, SlotsOfType
  <2>5. apart' \in SUBSET Key
    BY <1>6, ApartTypes DEF Leave, Typed
  <2> QED BY <1>6, <2>3, <2>4, <2>5 DEF Leave, Typed
<1>7. ASSUME NEW q \in Request, TurnDown(q) PROVE Typed'
  <2> DEFINE b == Counted(books[At(q)], q)
             r == RunOf[q]
  <2>1. At(q) \in Proc /\ b \in BookType /\ r \in Run /\ Saved(q) \in LedgerType
    BY SavedType, Constants
  <2>2. Returned(b, r) \in BookType
    BY <2>1, DroppedBack DEF Returned, Typed
  <2>3. books' \in [Proc -> BookType] /\ disk' \in LedgerType /\ faults' \in 0..MaxFaults
    <3>1. Keep(At(q), b, Returned(b, r), Saved(q))
      BY <1>7 DEF TurnDown
    <3> HIDE DEF b
    <3> QED BY <2>1, <2>2, <3>1, KeepType
  <2>4. stray' \in SUBSET (Key \X Time) /\ evicted' \in SUBSET Chat
    <3> DEFINE doubt == run[RunOf[q]].phase # "none" \/ faults' # faults
    <3>1. Counts(q, doubt) /\ doubt \in BOOLEAN
      BY <1>7 DEF TurnDown
    <3> HIDE DEF doubt
    <3> QED BY <3>1, CountsType
  <2>5. apart' \in SUBSET Key
    BY <1>7, ApartTypes DEF TurnDown, Typed
  <2> QED BY <1>7, <2>3, <2>4, <2>5 DEF TurnDown, Typed
<1>8. ASSUME NEW q \in Request, Unsaved(q) PROVE Typed'
  <2> DEFINE o == Opened(books[At(q)])
             m == Recorded(o.ledger, KeyOf[q], Cost(q))
             n == [o EXCEPT !.ledger = m]
  <2>1. At(q) \in Proc /\ o \in BookType /\ KeyOf[q] \in Key /\ Cost(q) \in Nat
    <3>1. At(q) \in Proc /\ books[At(q)] \in BookType /\ disk \in LedgerType
      BY SavedType DEF Typed
    <3> QED BY <1>8, <3>1, OpenedFacts, CostNat, Constants DEF Unsaved, Charged
  <2>2. o.ledger \in LedgerType
    BY <2>1, BookParts
  <2>3. m \in LedgerType
    BY <2>1, <2>2, RecordedFacts DEF Typed
  <2>4. books' = [books EXCEPT ![At(q)] = n]
    BY <1>8 DEF Unsaved
  <2>5. Slot(KeyOf[q], now) \in Time
    BY Constants DEF Slot, Typed, Time
  <2>6. evicted' \in SUBSET Chat
    BY <1>8, <2>2, ChatsOf DEF Unsaved, Typed
  <2>7. stray' \in SUBSET (Key \X Time)
    BY <1>8, <2>1, <2>5 DEF Unsaved, Typed
  <2>8. n \in BookType
    <3> HIDE DEF o, m
    <3> QED BY <2>1, <2>3 DEF BookType
  <2> HIDE DEF n
  <2>9. books' \in [Proc -> BookType]
    BY <2>1, <2>4, <2>8 DEF Typed
  <2>10. faults' \in 0..MaxFaults
    BY <1>8, Constants DEF Unsaved, Typed
  <2> QED BY <1>8, <2>6, <2>7, <2>9, <2>10 DEF Unsaved, Typed
<1>9. ASSUME NEW r \in Run, Turn(r) PROVE Typed'
  <2> DEFINE u == [run[r] EXCEPT !.phase = "live"]
  <2>1. u \in RunType
    <3>1. run[r] \in RunType
      BY RunTypes
    <3> QED BY <3>1 DEF RunType
  <2>2. run' = [run EXCEPT ![r] = u]
    BY <1>9, RunTypes DEF Turn, Typed
  <2> HIDE DEF u
  <2>3. run' \in [Run -> RunType]
    BY <2>1, <2>2, RunSet
  <2> QED BY <1>9, <2>3 DEF Turn, Typed
<1>10. ASSUME NEW r \in Run, Cut(r) PROVE Typed'
  <2> DEFINE u == [run[r] EXCEPT !.phase = "unborn"]
  <2>1. u \in RunType
    <3>1. run[r] \in RunType
      BY RunTypes
    <3> QED BY <3>1 DEF RunType
  <2>2. run' = [run EXCEPT ![r] = u]
    BY <1>10, RunTypes DEF Cut, Typed
  <2> HIDE DEF u
  <2>3. run' \in [Run -> RunType]
    BY <2>1, <2>2, RunSet
  <2> QED BY <1>10, <2>3 DEF Cut, Typed
<1>11. ASSUME NEW r \in Run, NextPass(r) PROVE Typed'
  <2> DEFINE z == [n \in Node |-> 0]
             m == run[r].pass + 1
             u == [run[r] EXCEPT !.pass = m, !.calls = z, !.failing = {}]
  <2>1. u \in RunType
    <3>1. run[r] \in RunType /\ m \in Nat /\ z \in [Node -> Nat]
      BY RunTypes
    <3> HIDE DEF z, m
    <3> QED BY <3>1 DEF RunType
  <2>2. run' = [run EXCEPT ![r] = u]
    BY <1>11, RunTypes DEF NextPass, Typed
  <2> HIDE DEF u
  <2>3. run' \in [Run -> RunType]
    BY <2>1, <2>2, RunSet
  <2> QED BY <1>11, <2>3 DEF NextPass, Typed
<1>12. ASSUME NEW r \in Run, Finish(r) PROVE Typed'
  <2> DEFINE b == books[Home[r]]
  <2>1. b \in BookType /\ Home[r] \in Proc /\ disk \in LedgerType
    BY RunTypes DEF Typed
  <2>2. Settled(b, r) \in BookType
    <3> HIDE DEF b
    <3>1. Settled(b, r) = Dropped(GivenBack(b, r, Back(b, r)), r) /\ Back(b, r) \in SUBSET Node
      BY <2>1, SettledIs
    <3>2. now \in Time /\ disk \in LedgerType
      BY DEF Typed
    <3> DEFINE S == Back(b, r)
    <3> HIDE DEF S
    <3>3. Dropped(GivenBack(b, r, S), r) \in BookType
      BY <2>1, <3>1, <3>2, DroppedBack DEF S
    <3> QED BY <3>1, <3>3 DEF S
  <2>3. books' \in [Proc -> BookType] /\ disk' \in LedgerType /\ faults' \in 0..MaxFaults
    <3>1. Keep(Home[r], b, Settled(b, r), disk)
      BY <1>12 DEF Finish
    <3> HIDE DEF b
    <3> QED BY <2>1, <2>2, <3>1, KeepType
  <2>4. run' \in [Run -> RunType]
    <3> DEFINE u == [run[r] EXCEPT !.phase = "ended"]
    <3>1. u \in RunType
      <4>1. run[r] \in RunType
        BY RunTypes
      <4> QED BY <4>1 DEF RunType
    <3>2. run' = [run EXCEPT ![r] = u]
      BY <1>12, RunTypes DEF Finish, Typed
    <3> HIDE DEF u
    <3> QED BY <3>1, <3>2, RunSet
  <2>5. SlotsOf(run[r]) \in SUBSET (Key \X Time)
    BY RunTypes, SlotsOfType
  <2>6. stray' \in SUBSET (Key \X Time)
    BY <1>12, <2>5 DEF Finish, Typed
  <2> QED BY <1>12, <2>3, <2>4, <2>6 DEF Finish, Typed
<1>13. ASSUME NEW r \in Run, NEW n \in Node, Call(r, n) PROVE Typed'
  <2>1. run' \in [Run -> RunType]
    <3> DEFINE c == [run[r].calls EXCEPT ![n] = @ + 1]
               u == [run[r] EXCEPT !.calls = c, !.ever = @ \cup {n}]
    <3>1. u \in RunType
      <4>1. run[r] \in RunType /\ c \in [Node -> Nat]
        BY RunTypes
      <4> HIDE DEF c
      <4> QED BY <4>1 DEF RunType
    <3>2. run' = [run EXCEPT ![r] = u]
      BY <1>13, RunTypes DEF Call, Typed
    <3> HIDE DEF u
    <3> QED BY <3>1, <3>2, RunSet
  <2>2. books' \in [Proc -> BookType]
    BY <1>13, RunTypes, MarkedFacts DEF Call, Typed
  <2>3. real' \in [Key -> [Time -> Nat]]
    <3>1. CASE run[r].key = Person
      BY <1>13, <3>1 DEF Call, Typed
    <3>2. CASE run[r].key # Person
      <4>1. run[r].key \in Key /\ Slot(run[r].key, run[r].at) \in Time /\ Price[n] \in Nat
        BY <3>2, RunTypes, Constants DEF Slot, Time
      <4> QED BY <1>13, <3>2, <4>1 DEF Call, Typed
    <3> QED BY <3>1, <3>2
  <2>4. apart' \in SUBSET Key
    BY <1>13, ApartTypes DEF Call, Typed
  <2> QED BY <1>13, <2>1, <2>2, <2>3, <2>4 DEF Call, Typed
<1>14. ASSUME NEW r \in Run, NEW n \in Node, KeyMissing(r, n) PROVE Typed'
  <2> DEFINE b == Marked(books[Home[r]], r, n)
  <2>1. run' \in [Run -> RunType]
    <3> DEFINE c == [run[r].calls EXCEPT ![n] = @ + 1]
               u == [run[r] EXCEPT !.calls = c, !.failing = @ \cup {n}, !.ever = @ \cup {n},
                                   !.keyless = IF First(r, n) THEN @ \cup {n} ELSE @]
    <3>1. u \in RunType
      <4>1. run[r] \in RunType /\ c \in [Node -> Nat]
        BY RunTypes
      <4> HIDE DEF c
      <4> QED BY <4>1 DEF RunType
    <3>2. run' = [run EXCEPT ![r] = u]
      BY <1>14, RunTypes DEF KeyMissing, Typed
    <3> HIDE DEF u
    <3> QED BY <3>1, <3>2, RunSet
  <2>2. b \in BookType /\ Home[r] \in Proc /\ disk \in LedgerType
    BY RunTypes, MarkedFacts DEF Typed
  <2>3. books' \in [Proc -> BookType] /\ disk' \in LedgerType /\ faults' \in 0..MaxFaults
    <3>1. CASE First(r, n)
      <4>1. Keep(Home[r], b, GivenBack(b, r, {n}), disk)
        BY <1>14, <3>1 DEF KeyMissing
      <4>2. GivenBack(b, r, {n}) \in BookType
        BY <2>2, GivenBackFacts DEF Typed
      <4> HIDE DEF b
      <4> QED BY <2>2, <4>1, <4>2, KeepType
    <3>2. CASE ~First(r, n)
      BY <1>14, <2>2, <3>2 DEF KeyMissing, Typed
    <3> QED BY <3>1, <3>2
  <2>4. SlotsOf(b.hold[r]) \in SUBSET (Key \X Time)
    BY <2>2, BookParts, SlotsOfType
  <2>5. stray' \in SUBSET (Key \X Time)
    BY <1>14, <2>4 DEF KeyMissing, Typed
  <2>6. apart' \in SUBSET Key
    BY <1>14, ApartTypes DEF KeyMissing, Typed
  <2> QED BY <1>14, <2>1, <2>3, <2>5, <2>6 DEF KeyMissing, Typed
<1>15. ASSUME NEW p \in Proc, Look(p) PROVE Typed'
  <2>1. Opened(books[p]) \in BookType
    BY OpenedFacts DEF Typed
  <2> QED BY <1>15, <2>1 DEF Look, Typed
<1>16. ASSUME NEW p \in Proc, Restart(p) PROVE Typed'
  <2>1. \A r \in Run : SlotsOf(run[r]) \in SUBSET (Key \X Time) /\ SlotsOf(books[p].hold[r]) \in SUBSET (Key \X Time)
    BY RunTypes, BookParts, SlotsOfType DEF Typed
  <2>2. stray' \in SUBSET (Key \X Time)
    <3>1. stray' = stray \cup (UNION {SlotsOf(run[r]) : r \in {i \in Run : Home[i] = p}})
                    \cup (UNION {SlotsOf(books[p].hold[r]) : r \in Run})
      BY <1>16 DEF Restart
    <3>2. stray \in SUBSET (Key \X Time)
      BY DEF Typed
    <3>3. ASSUME NEW x \in stray' PROVE x \in Key \X Time
      <4>1. \/ x \in stray
            \/ x \in UNION {SlotsOf(run[r]) : r \in {i \in Run : Home[i] = p}}
            \/ x \in UNION {SlotsOf(books[p].hold[r]) : r \in Run}
        BY <3>1
      <4>2. /\ x \in UNION {SlotsOf(run[r]) : r \in {i \in Run : Home[i] = p}} => \E r \in Run : x \in SlotsOf(run[r])
            /\ x \in UNION {SlotsOf(books[p].hold[r]) : r \in Run} => \E r \in Run : x \in SlotsOf(books[p].hold[r])
        OBVIOUS
      <4> QED BY <2>1, <3>2, <4>1, <4>2
    <3> QED BY <3>3
  <2>3. books' \in [Proc -> BookType]
    BY <1>16, FreshType DEF Restart, Typed
  <2>4. run' \in [Run -> RunType]
    BY <1>16, NoRunType DEF Restart, Typed
  <2>5. req' \in [Request -> {"idle", "asked", "late", "done"}]
    BY <1>16 DEF Restart, Typed
  <2>6. restarts' \in 0..MaxRestarts
    BY <1>16, Constants DEF Restart, Typed
  <2> QED BY <1>16, <2>2, <2>3, <2>4, <2>5, <2>6 DEF Restart, Typed
<1>17. ASSUME NEW p \in Proc, Unreadable(p) PROVE Typed'
  <2> DEFINE c == [books[p] EXCEPT !.blind = TRUE]
  <2>1. c \in BookType
    <3>1. books[p] \in BookType
      BY DEF Typed
    <3> QED BY <3>1 DEF BookType
  <2>2. books' = [books EXCEPT ![p] = c]
    BY <1>17 DEF Unreadable
  <2> HIDE DEF c
  <2>3. books' \in [Proc -> BookType]
    BY <2>1, <2>2 DEF Typed
  <2>4. faults' \in 0..MaxFaults
    BY <1>17, Constants DEF Unreadable, Typed
  <2>5. apart' \in SUBSET Key
    BY <1>17 DEF Unreadable, Typed
  <2> QED BY <1>17, <2>3, <2>4, <2>5 DEF Unreadable, Typed
<1>18. CASE UNCHANGED vars
  BY <1>18 DEF vars, Typed
<1> QED BY <1>1, <1>2, <1>3, <1>4, <1>5, <1>6, <1>7, <1>8, <1>9, <1>10, <1>11, <1>12, <1>13, <1>14,
           <1>15, <1>16, <1>17, <1>18 DEF Next

\* Types and sizes at any time: no more chats and holds than there is room for,
\* no negative total of a chat, no record both sure and in doubt.
THEOREM TypeCorrect == Spec => []TypeOK
<1>1. Typed => TypeOK
  <2> SUFFICES ASSUME Typed PROVE TypeOK
    OBVIOUS
  <2>1. \A l \in {disk} \cup {books[p].ledger : p \in Proc} :
       /\ \A k \in Key, t \in Time : l.count[k][t] \in Int /\ (k \in Chat => l.count[k][t] >= 0)
       /\ ToSet(l.chats) \subseteq Chat /\ Len(l.chats) <= MaxChats
    <3> SUFFICES ASSUME NEW l \in {disk} \cup {books[p].ledger : p \in Proc}
                 PROVE  /\ \A k \in Key, t \in Time : l.count[k][t] \in Int /\ (k \in Chat => l.count[k][t] >= 0)
                        /\ ToSet(l.chats) \subseteq Chat /\ Len(l.chats) <= MaxChats
      OBVIOUS
    <3>1. l \in LedgerType
      BY BookParts DEF Typed
    <3> QED BY <3>1, ChatsOf DEF LedgerType
  <2>2. \A p \in Proc : LET b == books[p] IN
       /\ b.loaded \in BOOLEAN /\ b.blind \in BOOLEAN /\ ToSet(b.order) \subseteq Run /\ Len(b.order) <= MaxHolds
       /\ b.tracked \cup b.doubted \subseteq Run /\ b.tracked \cap b.doubted = {}
       /\ b.hold \in [Run -> [key : Key \cup {Person}, at : Time, share : SUBSET Node]]
       /\ b.called \in [Run -> SUBSET Node]
    <3> SUFFICES ASSUME NEW b \in BookType
                 PROVE  /\ b.loaded \in BOOLEAN /\ b.blind \in BOOLEAN /\ ToSet(b.order) \subseteq Run /\ Len(b.order) <= MaxHolds
                        /\ b.tracked \cup b.doubted \subseteq Run /\ b.tracked \cap b.doubted = {}
                        /\ b.hold \in [Run -> [key : Key \cup {Person}, at : Time, share : SUBSET Node]]
                        /\ b.called \in [Run -> SUBSET Node]
      BY DEF Typed
    <3>1. ToSet(b.order) \subseteq Run
      BY BookParts, InSeq
    <3> QED BY <3>1, BookParts DEF HoldType
  <2> QED BY <2>1, <2>2, RunTypes DEF Typed, TypeOK, RunType
<1>2. Spec => []Typed
  BY InitTyped, StepTyped, PTL DEF Spec
<1> QED BY <1>1, <1>2, PTL

-----------------------------------------------------------------------------
(* The inductive invariant of the counts.                                  *)

\* The holds of a process that has just begun.
NoHolds == [r \in Run |-> NoHold]

\* At time i, apart from the keys E: the counts c cover it all.
Cover(i, ru, re, c, h, own, E) ==
  \A k \in Key \ E : \A s \in Slots(i, k) : Covered(ru, re, c, h, own, k, s)

\* The keys that lost a count: of chats that were dropped for room, or apart.
Out == evicted \cup apart

\* Every run was counted in the past.
RunsShape(i, ru) == \A r \in Run : RunShape(ru[r], r) /\ ru[r].at <= i

\* Holds are placed in the past.
HoldShape(i, b) == \A r \in Run : b.hold[r].at <= i

\* The hold of r, if it still has one, was placed for the run that is going.
OwnHold(u, b, r) ==
  /\ u.phase \in Going
  /\ b.hold[r].share # {} =>
       /\ b.hold[r].key = u.key /\ b.hold[r].at = u.at
       /\ b.hold[r].share \subseteq u.nodes \ u.keyless
       /\ r \in b.tracked => u.ever \subseteq b.called[r]

\* What a book b says, whose ledger is l: the limits are kept, and what is
\* counted covers everything, own being runs whose hold is their own.
BookInv(i, b, l, ru, re, own, E) ==
  /\ HoldShape(i, b) /\ Kept(i, l) /\ Within(i, l, E)
  /\ \A r \in own : OwnHold(ru[r], b, r)
  /\ Cover(i, ru, re, l.count, b.hold, own, E)

\* The file covers the runs alone: nothing of it is given back after a restart.
FileInv(i, d, ru, re, E) == Kept(i, d) /\ Within(i, d, E) /\ Cover(i, ru, re, d.count, NoHolds, {}, E)

\* Nothing was spent in the future.
RealInv(i, re) == \A k \in Outside, t \in Time : t > i => re[k][t] = 0

\* A request that waits to be refused waits for a run; a charged one takes back what is not its own.
Waits(rq, ru) == \A q \in Request : rq[q] = "late" => ru[RunOf[q]].phase # "none"
NotLate(rq, own) == \A q \in Request : rq[q] = "late" /\ Charged(q) => RunOf[q] \notin own

\* A process has holds of the runs that are sent to it, once it has the ledger.
HomeRuns(p) == {r \in Run : Home[r] = p}
Unheld(p, b) == \A r \in Run : ~b.loaded \/ r \notin HomeRuns(p) => b.hold[r].share = {}

\* The inductive invariant: the file, and the book of every process.
SpendInv ==
  /\ RunsShape(now, run) /\ RealInv(now, real) /\ FileInv(now, disk, run, real, Out) /\ Waits(req, run)
  /\ \A p \in Proc :
       /\ Unheld(p, books[p])
       /\ \E own \in SUBSET Run :
            /\ own \subseteq HomeRuns(p) /\ NotLate(req, own)
            /\ BookInv(now, books[p], LedgerOf(books[p], disk), run, real, own, Out)

\* Nothing is due of an empty hold.
LEMMA ChargeNone ==
  ASSUME NEW r \in Run
  PROVE  Charge(r, {}) = 0
<1> DEFINE f == [n \in {} |-> Share(r, n)]
<1>1. Sum(f, {}) = 0
  BY FS_EmptySet, SumStep
<1> QED BY <1>1 DEF Charge, f

\* Nothing is due of an empty share.
LEMMA DueNone ==
  ASSUME NEW r \in Run, NEW h, h[r].share = {}, NEW own, NEW k, NEW s
  PROVE  Due(h, own, r, k, s) = 0
  BY ChargeNone DEF Due

\* Without holds nothing is held for any run.
LEMMA NoHoldsFacts ==
  /\ NoHolds \in [Run -> HoldType]
  /\ \A r \in Run : NoHolds[r] = NoHold
  /\ NoHold.share = {} /\ NoHold.at = 0
  BY FreshType DEF NoHolds, NoHold

\* What covers the holds too covers the runs.
LEMMA CoverFile ==
  ASSUME now \in Time, NEW ru \in [Run -> RunType], RunsShape(now, ru), NEW re \in [Key -> [Time -> Nat]],
         NEW l \in LedgerType, NEW h \in [Run -> HoldType], NEW own, NEW E, Cover(now, ru, re, l.count, h, own, E)
  PROVE  Cover(now, ru, re, l.count, NoHolds, {}, E)
<1> SUFFICES ASSUME NEW k \in Key \ E, NEW s \in Slots(now, k)
             PROVE  Covered(ru, re, l.count, NoHolds, {}, k, s)
  BY DEF Cover
<1>1. s \in Time /\ l.count[k][s] \in Int /\ re[k][s] \in Int /\ Covered(ru, re, l.count, h, own, k, s)
  <2>1. s \in Time /\ k \in Key
    BY SlotsFacts
  <2>2. l.count[k][s] \in Int
    BY <2>1, CountsInt
  <2> QED BY <2>1, <2>2 DEF Cover
<1>2. \A i \in Run : RunShape(ru[i], i)
  BY DEF RunsShape
<1>3. ASSUME NEW i \in Run PROVE Wants(ru[i], NoHolds, {}, i, k, s) <= Wants(ru[i], h, own, i, k, s)
  <2>1. Due(NoHolds, {}, i, k, s) = 0
    BY NoHoldsFacts, DueNone
  <2>2. Due(h, own, i, k, s) \in Nat /\ Need(ru[i], i) \in Nat
    BY <1>2, WantsNat, NeedNat
  <2> QED BY <2>1, <2>2 DEF Wants, Needs
<1>4. NoHolds \in [Run -> HoldType] /\ l.count[k][s] <= l.count[k][s]
  BY <1>1, NoHoldsFacts
<1> DEFINE c == l.count
<1> HIDE DEF c
<1>5. Covered(ru, re, c, NoHolds, {}, k, s)
  BY <1>1, <1>2, <1>3, <1>4, CoverLess DEF c
<1> QED BY <1>5 DEF c

\* A new run may cost what its request is counted at.
LEMMA NeedNew ==
  ASSUME NEW q \in Request, NEW u \in RunType, u.phase = "new", u.nodes = GraphOf[q], u.ever = {}, u.keyless = {}
  PROVE  Need(u, RunOf[q]) = Cost(q)
<1> DEFINE r == RunOf[q]
           S == Priced(q)
           f == [n \in Node |-> Left(u, r, n)]
           e == [n \in S |-> Share(r, n)]
<1>1. r \in Run /\ S \in SUBSET Node /\ GraphOf[q] \in SUBSET Node
  BY CostNat, Constants
<1>2. ASSUME NEW n \in Node PROVE f[n] = (IF n \in S THEN Share(r, n) ELSE 0) /\ f[n] \in Int
  <2>1. f[n] = IF n \in GraphOf[q] THEN Share(r, n) ELSE 0
    BY DEF Left, Going
  <2>2. Price[n] \in Nat /\ Fan[n] \in Nat /\ Passes[r] \in Nat /\ Share(r, n) \in Nat
    BY <1>1, ShareNat, Constants
  <2>3. ASSUME n \notin S, n \in GraphOf[q] PROVE Share(r, n) = 0
    <3>1. Price[n] = 0
      BY <2>2, <2>3 DEF Priced
    <3>2. \A x, y \in Nat : 0 * x * y = 0
      OBVIOUS
    <3> QED BY <2>2, <3>1, <3>2 DEF Share
  <2>4. n \in S => n \in GraphOf[q]
    BY DEF Priced
  <2> HIDE DEF f, S
  <2> QED BY <2>1, <2>2, <2>3, <2>4
<1>3. \A n \in S : f[n] = e[n]
  BY <1>1, <1>2
<1>4. \A n \in Node \ S : f[n] = 0
  BY <1>2
<1>5. \A n \in Node : f[n] \in Int
  BY <1>2
<1> HIDE DEF f, e, S, r
<1>6. Sum(f, Node) = Sum(f, S)
  BY <1>1, <1>4, <1>5, Finite, SumPart
<1>7. Sum(f, S) = Sum(e, S)
  BY <1>1, <1>3, ChargeNat, SumAgree
<1> QED BY <1>6, <1>7 DEF Need, Cost, Charge, f, e, S, r

\* The state of a run that begins now for request q.
NewFor(u, q) ==
  u.phase = "new" /\ u.nodes = GraphOf[q] /\ u.ever = {} /\ u.keyless = {} /\ u.key = KeyOf[q] /\ u.at = now

\* The runs when request q is counted, for a new run of its own or not.
Counting(mine, ru, ru2, q) ==
  /\ \A i \in Run \ {RunOf[q]} : ru2[i] = ru[i]
  /\ IF mine THEN NewFor(ru2[RunOf[q]], q) ELSE ru2[RunOf[q]] = ru[RunOf[q]]

\* The books c, once request q is counted on the ledger l: own holds are still
\* those of their runs, and q's if its run is new.
CountedAs(c, l, ru, re, own, E, q, mine) ==
  \E own2 \in SUBSET Run :
    /\ own2 \subseteq own \cup {RunOf[q]} /\ (~mine => RunOf[q] \notin own2)
    /\ BookInv(now, c, c.ledger, ru, re, own2, E \cup (ToSet(l.chats) \ ToSet(c.ledger.chats)))

\* A charged request is counted. The hold is that of its run if the run is
\* new with it, and will be taken back otherwise.
LEMMA CountedInv ==
  ASSUME now \in Time, disk \in LedgerType, NEW b \in BookType, NEW q \in Request, Charged(q),
         Allowed(LedgerOf(b, disk), q), NEW ru \in [Run -> RunType], NEW ru2 \in [Run -> RunType],
         RunsShape(now, ru), RunsShape(now, ru2),
         NEW re \in [Key -> [Time -> Nat]], NEW own \in SUBSET Run, NEW E,
         BookInv(now, b, LedgerOf(b, disk), ru, re, own, E),
         NEW mine \in BOOLEAN, Counting(mine, ru, ru2, q)
  PROVE  CountedAs(Counted(b, q), LedgerOf(b, disk), ru2, re, own, E, q, mine)
<1> DEFINE c == Counted(b, q)
           l == LedgerOf(b, disk)
           m == Recorded(l, KeyOf[q], Cost(q))
           r == RunOf[q]
           k0 == KeyOf[q]
           a == Cost(q)
           E2 == E \cup (ToSet(l.chats) \ ToSet(m.chats))
<1> USE DEF Counting
<1>1. /\ l \in LedgerType /\ k0 \in Key /\ a \in Nat /\ r \in Run /\ Priced(q) \in SUBSET Node
      /\ Room(now, l, k0, a)
  BY LedgerIs, AllowedRoom, CostNat, Constants
<1>2. /\ c \in BookType /\ c.loaded /\ c.ledger = m
      /\ c.hold[r] = [key |-> k0, at |-> now, share |-> Priced(q)]
  BY CountedFacts
<1>3. PICK D \in SUBSET Run :
              /\ r \notin D
              /\ \A i \in Run \ {r} : i \in D => c.hold[i] = NoHold
              /\ \A i \in Run \ {r} : i \notin D =>
                   c.hold[i] = b.hold[i] /\ c.called[i] = b.called[i] /\ (i \in c.tracked <=> i \in b.tracked)
  BY CountedFacts
<1> DEFINE own2 == IF mine THEN (own \ D) \cup {r} ELSE (own \ D) \ {r}
<1>4. /\ own2 \in SUBSET Run /\ own2 \subseteq own \cup {r} /\ (~mine => r \notin own2) /\ (mine => r \in own2)
      /\ \A i \in Run \ {r} : i \in own2 <=> i \in own /\ i \notin D
  BY <1>1
<1> HIDE DEF own2, c
<1>5. /\ HoldShape(now, b) /\ Kept(now, l) /\ Within(now, l, E)
      /\ \A i \in own : OwnHold(ru[i], b, i)
      /\ Cover(now, ru, re, l.count, b.hold, own, E)
  BY DEF BookInv
<1>6. c.hold \in [Run -> HoldType] /\ b.hold \in [Run -> HoldType]
  BY <1>2, BookParts
<1>7. HoldShape(now, c)
  <2> SUFFICES ASSUME NEW i \in Run PROVE c.hold[i].at <= now
    BY DEF HoldShape
  <2>1. CASE i = r
    BY <1>2, <2>1, SlotsFacts
  <2>2. CASE i # r /\ i \in D
    BY <1>3, <2>2, NoHoldsFacts, Constants DEF Time
  <2>3. CASE i # r /\ i \notin D
    BY <1>3, <1>5, <2>3 DEF HoldShape
  <2> QED BY <2>1, <2>2, <2>3
<1> HIDE DEF l, k0, a
<1>8. Kept(now, m) /\ Within(now, m, E) /\ m \in LedgerType
  BY <1>1, <1>5, RecordedFine DEF k0, a
<1>13. Within(now, m, E2)
  BY <1>8, WithinMore
<1>9. ASSUME NEW i \in own2 PROVE OwnHold(ru2[i], c, i)
  <2>1. CASE i = r
    <3>1. mine
      BY <1>4, <1>9, <2>1
    <3> DEFINE u == ru2[r]
    <3>2. u.phase = "new" /\ u.nodes = GraphOf[q] /\ u.ever = {} /\ u.keyless = {} /\ u.key = KeyOf[q] /\ u.at = now
      BY <3>1 DEF NewFor
    <3>3. c.hold[r].key = u.key /\ c.hold[r].at = u.at /\ c.hold[r].share \subseteq u.nodes \ u.keyless
      BY <1>2, <3>2 DEF Priced, k0
    <3> QED BY <2>1, <3>2, <3>3 DEF OwnHold, Going
  <2>2. CASE i # r
    <3>1. i \in Run /\ i \in own /\ i \notin D
      BY <1>4, <1>9, <2>2
    <3>2. OwnHold(ru[i], b, i) /\ ru2[i] = ru[i]
      BY <1>5, <2>2, <3>1
    <3>3. c.hold[i] = b.hold[i] /\ c.called[i] = b.called[i] /\ (i \in c.tracked <=> i \in b.tracked)
      BY <1>3, <2>2, <3>1
    <3> QED BY <3>2, <3>3 DEF OwnHold
  <2> QED BY <2>1, <2>2
<1>10. ASSUME NEW k \in Key \ E2, NEW s \in Slots(now, k) PROVE Covered(ru2, re, m.count, c.hold, own2, k, s)
  <2>1. s \in Time /\ l.count[k][s] \in Int /\ m.count[k][s] \in Int /\ re[k][s] \in Int
    <3>1. s \in Time /\ k \in Key
      BY SlotsFacts
    <3>2. l.count[k][s] \in Int /\ m.count[k][s] \in Int
      BY <1>1, <1>8, <3>1, CountsInt
    <3> QED BY <3>1, <3>2
  <2>2. Covered(ru, re, l.count, b.hold, own, k, s)
    BY <1>5 DEF Cover
  <2>3. m.count[k][s] = l.count[k][s] + (IF k = k0 /\ s = Slot(k0, now) THEN a ELSE 0)
    BY <1>1, <1>5, RecordedCounts DEF k0, a
  <2>4. \A i \in Run : RunShape(ru[i], i) /\ RunShape(ru2[i], i)
    BY DEF RunsShape
  <2>5. ASSUME NEW i \in Run \ {r} PROVE Wants(ru2[i], c.hold, own2, i, k, s) <= Wants(ru[i], b.hold, own, i, k, s)
    <3>1. ru2[i] = ru[i] /\ Due(b.hold, own, i, k, s) \in Nat /\ Need(ru[i], i) \in Nat
      BY <1>6, <2>4, WantsNat, NeedNat
    <3>2. Due(c.hold, own2, i, k, s) <= Due(b.hold, own, i, k, s)
      <4>1. CASE i \in D
        <5>1. Due(c.hold, own2, i, k, s) = 0
          BY <1>3, <4>1, NoHoldsFacts, DueNone
        <5> QED BY <3>1, <5>1
      <4>2. CASE i \notin D
        <5>1. Due(c.hold, own2, i, k, s) = Due(b.hold, own, i, k, s)
          BY <1>3, <1>4, <4>2 DEF Due
        <5> QED BY <3>1, <5>1
      <4> QED BY <4>1, <4>2
    <3>3. Due(c.hold, own2, i, k, s) \in Nat
      BY <1>6, <2>4, WantsNat
    <3> QED BY <3>1, <3>2, <3>3 DEF Wants, Needs
  <2>6. Wants(ru2[r], c.hold, own2, r, k, s)
          <= Wants(ru[r], b.hold, own, r, k, s) + (IF k = k0 /\ s = Slot(k0, now) THEN a ELSE 0)
    <3>1. Wants(ru[r], b.hold, own, r, k, s) \in Nat /\ Need(ru[r], r) \in Nat /\ Due(b.hold, own, r, k, s) \in Nat
      BY <1>1, <1>6, <2>4, WantsNat, NeedNat
    <3>2. InSlot(k0, now, k, s) <=> k = k0 /\ s = Slot(k0, now)
      BY DEF InSlot
    <3>3. CASE mine
      <4>1. Due(c.hold, own2, r, k, s) = 0
        BY <1>4, <3>3 DEF Due
      <4>2. ru2[r].key = k0 /\ ru2[r].at = now /\ Need(ru2[r], r) = a
        BY <1>1, <3>3, NeedNew DEF k0, a, NewFor
      <4>3. Wants(ru2[r], c.hold, own2, r, k, s) = IF k = k0 /\ s = Slot(k0, now) THEN a ELSE 0
        BY <1>1, <3>2, <4>1, <4>2 DEF Wants, Needs
      <4> QED BY <1>1, <3>1, <4>3
    <3>4. CASE ~mine
      <4>1. Due(c.hold, own2, r, k, s) = IF k = k0 /\ s = Slot(k0, now) THEN a ELSE 0
        BY <1>2, <1>4, <3>2, <3>4 DEF Due, a, Cost
      <4>2. ru2[r] = ru[r]
        BY <3>4
      <4> QED BY <1>1, <3>1, <4>1, <4>2 DEF Wants, Needs
    <3> QED BY <3>3, <3>4
  <2>7. Wants(ru2[r], c.hold, own2, r, k, s) \in Nat /\ Wants(ru[r], b.hold, own, r, k, s) \in Nat
    BY <1>1, <1>6, <2>4, WantsNat
  <2>8. l.count[k][s] - re[k][s] - Wants(ru[r], b.hold, own, r, k, s)
           <= m.count[k][s] - re[k][s] - Wants(ru2[r], c.hold, own2, r, k, s)
    BY <1>1, <2>1, <2>3, <2>6, <2>7
  <2> DEFINE cl == l.count
             cm == m.count
  <2>9. /\ cl[k][s] \in Int /\ cm[k][s] \in Int /\ Covered(ru, re, cl, b.hold, own, k, s)
        /\ cl[k][s] - re[k][s] - Wants(ru[r], b.hold, own, r, k, s)
             <= cm[k][s] - re[k][s] - Wants(ru2[r], c.hold, own2, r, k, s)
    BY <2>1, <2>2, <2>8
  <2> HIDE DEF cl, cm, m, r
  <2>10. Covered(ru2, re, cm, c.hold, own2, k, s)
    BY <1>1, <1>6, <2>1, <2>4, <2>5, <2>9, CoverMove
  <2> QED BY <2>10 DEF cm
<1>11. BookInv(now, c, c.ledger, ru2, re, own2, E2)
  <2>1. Cover(now, ru2, re, m.count, c.hold, own2, E2)
    BY <1>10 DEF Cover
  <2> QED BY <1>2, <1>7, <1>8, <1>9, <1>13, <2>1 DEF BookInv
<1>12. E2 = E \cup (ToSet(l.chats) \ ToSet(c.ledger.chats))
  BY <1>2
<1> QED BY <1>4, <1>11, <1>12 DEF c, l, r, CountedAs

-----------------------------------------------------------------------------
(* One run moves, its hold or the ledger with it.                          *)

\* The counts of a slot are integers.
LEMMA SlotCounts ==
  ASSUME now \in Time, NEW l \in LedgerType, NEW re \in [Key -> [Time -> Nat]],
         NEW k \in Key, NEW s \in Slots(now, k)
  PROVE  s \in Time /\ l.count[k][s] \in Int /\ re[k][s] \in Nat
<1>1. s \in Time
  BY SlotsFacts
<1> QED BY <1>1, CountsInt

\* Run r moves, with what its hold and its counts have: the other runs stay.
Moved(b, c, l, m, ru, ru2, re, re2, own, own2, E, r) ==
  /\ \A i \in Run \ {r} : /\ ru2[i] = ru[i] /\ (i \in own2 <=> i \in own)
                          /\ c.hold[i] = b.hold[i] /\ c.called[i] = b.called[i] /\ (i \in c.tracked <=> i \in b.tracked)
  /\ r \in own2 => OwnHold(ru2[r], c, r)
  /\ c.hold[r].at <= now /\ c.hold[r].share \subseteq b.hold[r].share
  /\ Kept(now, m) /\ Within(now, m, E)
  /\ \A k \in Key \ E : \A s \in Slots(now, k) :
       l.count[k][s] - re[k][s] - Wants(ru[r], b.hold, own, r, k, s)
         <= m.count[k][s] - re2[k][s] - Wants(ru2[r], c.hold, own2, r, k, s)

\* A book whose one run moves keeps its invariant.
LEMMA MoveInv ==
  ASSUME now \in Time, NEW b \in BookType, NEW c \in BookType, NEW l \in LedgerType, NEW m \in LedgerType,
         NEW ru \in [Run -> RunType], NEW ru2 \in [Run -> RunType], RunsShape(now, ru), RunsShape(now, ru2),
         NEW re \in [Key -> [Time -> Nat]], NEW re2 \in [Key -> [Time -> Nat]],
         NEW own \in SUBSET Run, NEW own2 \in SUBSET Run, NEW E, BookInv(now, b, l, ru, re, own, E),
         NEW r \in Run, Moved(b, c, l, m, ru, ru2, re, re2, own, own2, E, r)
  PROVE  BookInv(now, c, m, ru2, re2, own2, E)
<1> USE DEF Moved
<1>1. HoldShape(now, b) /\ (\A i \in own : OwnHold(ru[i], b, i)) /\ Cover(now, ru, re, l.count, b.hold, own, E)
  BY DEF BookInv
<1>2. HoldShape(now, c)
  BY <1>1 DEF HoldShape
<1>3. ASSUME NEW i \in own2 PROVE OwnHold(ru2[i], c, i)
  <2>1. CASE i = r
    BY <1>3, <2>1
  <2>2. CASE i # r
    <3>1. i \in own /\ OwnHold(ru[i], b, i)
      BY <1>1, <1>3, <2>2
    <3>2. /\ ru2[i] = ru[i] /\ c.hold[i] = b.hold[i] /\ c.called[i] = b.called[i]
          /\ (i \in c.tracked <=> i \in b.tracked)
      BY <1>3, <2>2
    <3> QED BY <3>1, <3>2 DEF OwnHold
  <2> QED BY <2>1, <2>2
<1>4. b.hold \in [Run -> HoldType] /\ c.hold \in [Run -> HoldType]
  BY BookParts
<1>5. \A i \in Run : RunShape(ru[i], i) /\ RunShape(ru2[i], i)
  BY DEF RunsShape
<1>6. ASSUME NEW k \in Key \ E, NEW s \in Slots(now, k) PROVE Covered(ru2, re2, m.count, c.hold, own2, k, s)
  <2>1. s \in Time /\ l.count[k][s] \in Int /\ m.count[k][s] \in Int /\ re[k][s] \in Int /\ re2[k][s] \in Int
    BY SlotCounts
  <2>2. Covered(ru, re, l.count, b.hold, own, k, s)
    BY <1>1 DEF Cover
  <2>3. ASSUME NEW i \in Run \ {r} PROVE Wants(ru2[i], c.hold, own2, i, k, s) <= Wants(ru[i], b.hold, own, i, k, s)
    <3>1. Due(c.hold, own2, i, k, s) = Due(b.hold, own, i, k, s)
      BY DEF Due
    <3>2. Wants(ru2[i], c.hold, own2, i, k, s) = Wants(ru[i], b.hold, own, i, k, s)
      BY <3>1 DEF Wants
    <3>3. Wants(ru[i], b.hold, own, i, k, s) \in Nat
      BY <1>4, <1>5, WantsNat
    <3> QED BY <3>2, <3>3
  <2> DEFINE cl == l.count
             cm == m.count
             hb == b.hold
             hc == c.hold
  <2>4. /\ cl[k][s] \in Int /\ cm[k][s] \in Int /\ Covered(ru, re, cl, hb, own, k, s)
        /\ cl[k][s] - re[k][s] - Wants(ru[r], hb, own, r, k, s)
             <= cm[k][s] - re2[k][s] - Wants(ru2[r], hc, own2, r, k, s)
        /\ hb \in [Run -> HoldType] /\ hc \in [Run -> HoldType]
        /\ \A i \in Run \ {r} : Wants(ru2[i], hc, own2, i, k, s) <= Wants(ru[i], hb, own, i, k, s)
    BY <1>4, <2>1, <2>2, <2>3
  <2> HIDE DEF cl, cm, hb, hc
  <2>5. Covered(ru2, re2, cm, hc, own2, k, s)
    BY <1>5, <2>1, <2>4, CoverMove
  <2> QED BY <2>5 DEF cm, hc
<1>7. Cover(now, ru2, re2, m.count, c.hold, own2, E)
  BY <1>6 DEF Cover
<1> QED BY <1>2, <1>3, <1>7 DEF BookInv

\* The file, when it is not written.
LEMMA MoveFile ==
  ASSUME now \in Time, NEW l \in LedgerType,
         NEW ru \in [Run -> RunType], NEW ru2 \in [Run -> RunType], RunsShape(now, ru), RunsShape(now, ru2),
         NEW re \in [Key -> [Time -> Nat]], NEW re2 \in [Key -> [Time -> Nat]], NEW E,
         Cover(now, ru, re, l.count, NoHolds, {}, E), NEW r \in Run, \A i \in Run \ {r} : ru2[i] = ru[i],
         \A k \in Key \ E : \A s \in Slots(now, k) :
           re2[k][s] + Needs(ru2[r], r, k, s) <= re[k][s] + Needs(ru[r], r, k, s)
  PROVE  Cover(now, ru2, re2, l.count, NoHolds, {}, E)
<1> SUFFICES ASSUME NEW k \in Key \ E, NEW s \in Slots(now, k)
             PROVE  Covered(ru2, re2, l.count, NoHolds, {}, k, s)
  BY DEF Cover
<1>1. /\ s \in Time /\ l.count[k][s] \in Int /\ re[k][s] \in Int /\ re2[k][s] \in Int
      /\ Covered(ru, re, l.count, NoHolds, {}, k, s)
  BY SlotCounts DEF Cover
<1>2. \A i \in Run : RunShape(ru[i], i) /\ RunShape(ru2[i], i)
  BY DEF RunsShape
<1>3. \A i \in Run : Due(NoHolds, {}, i, k, s) = 0
  BY NoHoldsFacts, DueNone
<1>4. NoHolds \in [Run -> HoldType]
  BY NoHoldsFacts
<1>5. \A i \in Run : /\ Wants(ru[i], NoHolds, {}, i, k, s) = Needs(ru[i], i, k, s)
                     /\ Wants(ru2[i], NoHolds, {}, i, k, s) = Needs(ru2[i], i, k, s)
                     /\ Needs(ru[i], i, k, s) \in Nat /\ Needs(ru2[i], i, k, s) \in Nat
  <2> SUFFICES ASSUME NEW i \in Run
               PROVE  /\ Wants(ru[i], NoHolds, {}, i, k, s) = Needs(ru[i], i, k, s)
                      /\ Wants(ru2[i], NoHolds, {}, i, k, s) = Needs(ru2[i], i, k, s)
                      /\ Needs(ru[i], i, k, s) \in Nat /\ Needs(ru2[i], i, k, s) \in Nat
    OBVIOUS
  <2>1. Needs(ru[i], i, k, s) \in Nat /\ Needs(ru2[i], i, k, s) \in Nat
    BY <1>2, <1>4, WantsNat
  <2> QED BY <1>3, <2>1 DEF Wants
<1>6. \A i \in Run \ {r} : Wants(ru2[i], NoHolds, {}, i, k, s) <= Wants(ru[i], NoHolds, {}, i, k, s)
  BY <1>5
<1> DEFINE c == l.count
<1>7. c[k][s] - re[k][s] - Wants(ru[r], NoHolds, {}, r, k, s) <= c[k][s] - re2[k][s] - Wants(ru2[r], NoHolds, {}, r, k, s)
  <2>1. re2[k][s] + Needs(ru2[r], r, k, s) <= re[k][s] + Needs(ru[r], r, k, s)
    OBVIOUS
  <2>2. /\ Wants(ru[r], NoHolds, {}, r, k, s) = Needs(ru[r], r, k, s)
        /\ Wants(ru2[r], NoHolds, {}, r, k, s) = Needs(ru2[r], r, k, s)
        /\ Needs(ru[r], r, k, s) \in Nat /\ Needs(ru2[r], r, k, s) \in Nat
    BY <1>5
  <2> QED BY <1>1, <2>1, <2>2
<1> HIDE DEF c
<1>8. Covered(ru2, re2, c, NoHolds, {}, k, s)
  BY <1>1, <1>2, <1>4, <1>6, <1>7, CoverMove DEF c
<1> QED BY <1>8 DEF c

\* The hold of r is given back as far as S, and gone: its run needs no more
\* than what is left of what was counted for it.
LEMMA DropInv ==
  ASSUME now \in Time, disk \in LedgerType, NEW b \in BookType,
         NEW ru \in [Run -> RunType], NEW ru2 \in [Run -> RunType], RunsShape(now, ru), RunsShape(now, ru2),
         NEW re \in [Key -> [Time -> Nat]], NEW own \in SUBSET Run, NEW E,
         BookInv(now, b, LedgerOf(b, disk), ru, re, own, E),
         NEW r \in Run, \A i \in Run \ {r} : ru2[i] = ru[i], NEW S \in SUBSET Node,
         \A k \in Key \ E : \A s \in Slots(now, k) :
           Needs(ru2[r], r, k, s)
             + (IF InSlot(b.hold[r].key, b.hold[r].at, k, s) THEN Charge(r, b.hold[r].share \cap S) ELSE 0)
           <= Wants(ru[r], b.hold, own, r, k, s)
  PROVE  LET c == Dropped(GivenBack(b, r, S), r)
         IN c \in BookType /\ BookInv(now, c, LedgerOf(c, disk), ru2, re, own \ {r}, E)
<1> DEFINE c == Dropped(GivenBack(b, r, S), r)
           h == b.hold[r]
           T == h.share \cap S
           l == LedgerOf(b, disk)
           m == LedgerOf(c, disk)
           own2 == own \ {r}
<1>1. /\ c \in BookType /\ c.hold[r] = NoHold
      /\ \A i \in Run \ {r} :
              c.hold[i] = b.hold[i] /\ c.called[i] = b.called[i] /\ (i \in c.tracked <=> i \in b.tracked)
      /\ T = {} => c.loaded = b.loaded /\ c.blind = b.blind /\ c.ledger = b.ledger
      /\ T # {} => c.loaded /\ c.ledger = Refunded(l, h.key, Charge(r, T), h.at)
  BY DroppedBack, ZenonT(40)
<1>2. l \in LedgerType /\ h \in HoldType /\ T \in SUBSET h.share /\ T \in SUBSET Node /\ h.at <= now
  BY LedgerIs, BookParts DEF BookInv, HoldShape
<1> HIDE DEF c
<1>3. m = IF T = {} THEN l ELSE Refunded(l, h.key, Charge(r, T), h.at)
  <2>1. CASE T = {}
    <3> HIDE DEF T
    <3> QED BY <1>1, <2>1 DEF LedgerOf
  <2>2. CASE T # {}
    <3> HIDE DEF T, l
    <3> QED BY <1>1, <2>2 DEF LedgerOf
  <2> QED BY <2>1, <2>2
<1> HIDE DEF l, m, h, T
<1>4. /\ m \in LedgerType
      /\ Kept(now, l) /\ Within(now, l, E) /\ h.at <= now => Kept(now, m) /\ Within(now, m, E)
      /\ \A k \in Key : \A s \in Slots(now, k) :
           m.count[k][s] >= l.count[k][s] - (IF InSlot(h.key, h.at, k, s) THEN Charge(r, T) ELSE 0)
  <2> DEFINE t == T
             x == h
  <2>1. l \in LedgerType /\ x \in HoldType /\ t \in SUBSET x.share
    BY <1>2
  <2>2. m = IF t = {} THEN l ELSE Refunded(l, x.key, Charge(r, t), x.at)
    BY <1>3
  <2> HIDE DEF t, x
  <2>3. /\ m \in LedgerType
        /\ Kept(now, l) /\ Within(now, l, E) /\ x.at <= now => Kept(now, m) /\ Within(now, m, E)
        /\ \A k \in Key : \A s \in Slots(now, k) :
             m.count[k][s] >= l.count[k][s] - (IF InSlot(x.key, x.at, k, s) THEN Charge(r, t) ELSE 0)
    BY <2>1, <2>2, BackLedger
  <2> QED BY <2>3 DEF t, x
<1>5. Kept(now, m) /\ Within(now, m, E)
  BY <1>2, <1>4 DEF BookInv, l
<1>6. ASSUME NEW k \in Key \ E, NEW s \in Slots(now, k)
      PROVE  l.count[k][s] - re[k][s] - Wants(ru[r], b.hold, own, r, k, s)
             <= m.count[k][s] - re[k][s] - Wants(ru2[r], c.hold, own2, r, k, s)
  <2>1. l.count[k][s] \in Int /\ m.count[k][s] \in Int /\ re[k][s] \in Int
    BY <1>2, <1>4, SlotCounts
  <2> DEFINE a == IF InSlot(h.key, h.at, k, s) THEN Charge(r, T) ELSE 0
  <2>2. a \in Nat
    BY <1>2, ChargeNat
  <2>3. Needs(ru2[r], r, k, s) + a <= Wants(ru[r], b.hold, own, r, k, s)
    BY DEF h, T
  <2>4. Wants(ru2[r], c.hold, own2, r, k, s) = Needs(ru2[r], r, k, s) + 0
    <3>1. Due(c.hold, own2, r, k, s) = 0
      BY <1>1, NoHoldsFacts, DueNone
    <3> QED BY <3>1 DEF Wants
  <2>5. Needs(ru2[r], r, k, s) \in Nat /\ Wants(ru[r], b.hold, own, r, k, s) \in Nat
    BY BookParts, WantsNat DEF RunsShape
  <2>6. m.count[k][s] >= l.count[k][s] - a
    BY <1>4
  <2> HIDE DEF a
  <2> QED BY <2>1, <2>2, <2>3, <2>4, <2>5, <2>6
<1>7. c.hold[r].at <= now /\ c.hold[r].share \subseteq b.hold[r].share
  BY <1>1, NoHoldsFacts, Constants DEF Time
<1>8. own2 \in SUBSET Run /\ r \notin own2 /\ \A i \in Run \ {r} : i \in own2 <=> i \in own
  OBVIOUS
<1>9. BookInv(now, b, l, ru, re, own, E)
  BY DEF l
<1>10. /\ c \in BookType /\ l \in LedgerType /\ m \in LedgerType /\ own2 \in SUBSET Run
       /\ r \in own2 => OwnHold(ru2[r], c, r)
  BY <1>1, <1>2, <1>4, <1>8
<1>11. \A i \in Run \ {r} : /\ ru2[i] = ru[i] /\ (i \in own2 <=> i \in own)
                             /\ c.hold[i] = b.hold[i] /\ c.called[i] = b.called[i] /\ (i \in c.tracked <=> i \in b.tracked)
  BY <1>1, <1>8
<1> HIDE DEF own2
<1>12. Moved(b, c, l, m, ru, ru2, re, re, own, own2, E, r)
  BY <1>5, <1>6, <1>7, <1>10, <1>11 DEF Moved
<1>13. BookInv(now, c, m, ru2, re, own2, E)
  BY <1>9, <1>10, <1>12, <1>1, MoveInv
<1> QED BY <1>1, <1>13 DEF c, m, own2

-----------------------------------------------------------------------------
(* A step of one process, and the books of the others.                     *)

\* What was spent of count s of key k, and may still be spent.
Total(ru, re, k, s) == re[k][s] + Sum([r \in Run |-> Needs(ru[r], r, k, s)], Run)

\* What the holds of a book may give back of it besides.
Dues(h, own, k, s) == Sum([r \in Run |-> Due(h, own, r, k, s)], Run)

\* A step of process p leaves the books, the runs and the requests of the others
\* alone. If one of them has the ledger, or will not read it, then the keys that
\* it counts more of are apart.
Elsewhere(p) ==
  /\ \A i \in Proc \ {p} : books'[i] = books[i]
  /\ \A r \in Run \ HomeRuns(p) : run'[r] = run[r]
  /\ \A q \in Request : RunOf[q] \notin HomeRuns(p) /\ req'[q] = "late" => req[q] = "late"
  /\ Out \subseteq Out'
  /\ (\E i \in Proc \ {p} : books[i].loaded \/ books[i].blind) =>
       \A k \in Key \ Out' : \A s \in Slots(now, k) : Total(run', real', k, s) <= Total(run, real, k, s)

\* What a hold may give back is covered beside what is spent.
LEMMA CoveredTotal ==
  ASSUME NEW ru \in [Run -> RunType], \A i \in Run : RunShape(ru[i], i), NEW h \in [Run -> HoldType], NEW own,
         NEW k, NEW s, NEW re, re[k][s] \in Int, NEW c, c[k][s] \in Int
  PROVE  /\ Covered(ru, re, c, h, own, k, s)
              <=> Total(ru, re, k, s) + Dues(h, own, k, s) <= c[k][s]
         /\ Total(ru, re, k, s) \in Int /\ Dues(h, own, k, s) \in Int
<1> DEFINE f == [r \in Run |-> Needs(ru[r], r, k, s)]
           g == [r \in Run |-> Due(h, own, r, k, s)]
           w == [r \in Run |-> Wants(ru[r], h, own, r, k, s)]
<1>1. \A r \in Run : f[r] \in Int /\ g[r] \in Int /\ w[r] = f[r] + g[r]
  <2> SUFFICES ASSUME NEW r \in Run PROVE f[r] \in Int /\ g[r] \in Int /\ w[r] = f[r] + g[r]
    OBVIOUS
  <2>1. Needs(ru[r], r, k, s) \in Nat /\ Due(h, own, r, k, s) \in Nat
    BY WantsNat
  <2> QED BY <2>1 DEF Wants
<1>2. Covered(ru, re, c, h, own, k, s) <=> re[k][s] + Sum(w, Run) <= c[k][s]
  BY DEF Covered
<1>3. Total(ru, re, k, s) = re[k][s] + Sum(f, Run)
  BY DEF Total
<1> HIDE DEF f, g, w
<1>4. Sum(w, Run) = Sum(f, Run) + Sum(g, Run) /\ Sum(f, Run) \in Int /\ Sum(g, Run) \in Int
  BY <1>1, Finite, SumAdd, SumInt
<1>5. /\ Covered(ru, re, c, h, own, k, s) <=> Total(ru, re, k, s) + Sum(g, Run) <= c[k][s]
      /\ Total(ru, re, k, s) \in Int
  BY <1>2, <1>3, <1>4
<1> QED BY <1>4, <1>5 DEF g, Dues

\* A ledger that covers the runs covers a book without holds.
LEMMA CoverBare ==
  ASSUME now \in Time, NEW l \in LedgerType, NEW ru \in [Run -> RunType], RunsShape(now, ru),
         NEW re \in [Key -> [Time -> Nat]], NEW E, Cover(now, ru, re, l.count, NoHolds, {}, E),
         NEW h \in [Run -> HoldType], \A r \in Run : h[r].share = {}
  PROVE  Cover(now, ru, re, l.count, h, {}, E)
<1> SUFFICES ASSUME NEW k \in Key \ E, NEW s \in Slots(now, k)
             PROVE  Covered(ru, re, l.count, h, {}, k, s)
  BY DEF Cover
<1>1. /\ s \in Time /\ l.count[k][s] \in Int /\ re[k][s] \in Int
      /\ Covered(ru, re, l.count, NoHolds, {}, k, s)
  BY SlotCounts DEF Cover
<1>2. \A i \in Run : RunShape(ru[i], i)
  BY DEF RunsShape
<1>3. ASSUME NEW i \in Run PROVE Wants(ru[i], h, {}, i, k, s) <= Wants(ru[i], NoHolds, {}, i, k, s)
  <2>1. Due(NoHolds, {}, i, k, s) = 0 /\ Due(h, {}, i, k, s) = 0
    BY NoHoldsFacts, DueNone
  <2>2. Needs(ru[i], i, k, s) \in Nat
    BY <1>2, WantsNat
  <2> QED BY <2>1, <2>2 DEF Wants
<1>4. NoHolds \in [Run -> HoldType]
  BY NoHoldsFacts
<1> DEFINE c == l.count
<1>5. c[k][s] \in Int /\ c[k][s] <= c[k][s] /\ Covered(ru, re, c, NoHolds, {}, k, s)
  BY <1>1
<1> HIDE DEF c
<1>6. Covered(ru, re, c, h, {}, k, s)
  BY <1>1, <1>2, <1>3, <1>4, <1>5, CoverLess
<1> QED BY <1>6 DEF c

\* A process that has not read the file, and will, has what the file has.
LEMMA BareBook ==
  ASSUME now \in Time, NEW d \in LedgerType, NEW ru \in [Run -> RunType], RunsShape(now, ru),
         NEW re \in [Key -> [Time -> Nat]], NEW E, FileInv(now, d, ru, re, E),
         NEW b \in BookType, HoldShape(now, b), \A r \in Run : b.hold[r].share = {}
  PROVE  BookInv(now, b, d, ru, re, {}, E)
<1>1. b.hold \in [Run -> HoldType]
  BY BookParts
<1>2. Cover(now, ru, re, d.count, b.hold, {}, E)
  BY <1>1, CoverBare DEF FileInv
<1> QED BY <1>2 DEF BookInv, FileInv

\* A process that has read the file, or will not be able to, keeps its counts:
\* no other one spends more on a key it still counts for.
LEMMA OtherBook ==
  ASSUME now \in Time, NEW b \in BookType, NEW l \in LedgerType,
         NEW ru \in [Run -> RunType], NEW ru2 \in [Run -> RunType], RunsShape(now, ru), RunsShape(now, ru2),
         NEW re \in [Key -> [Time -> Nat]], NEW re2 \in [Key -> [Time -> Nat]],
         NEW own \in SUBSET Run, NEW E, NEW E2, E \subseteq E2, BookInv(now, b, l, ru, re, own, E),
         \A r \in own : ru2[r] = ru[r],
         \A k \in Key \ E2 : \A s \in Slots(now, k) : Total(ru2, re2, k, s) <= Total(ru, re, k, s)
  PROVE  BookInv(now, b, l, ru2, re2, own, E2)
<1>1. /\ HoldShape(now, b) /\ Kept(now, l) /\ Within(now, l, E)
      /\ \A r \in own : OwnHold(ru[r], b, r)
      /\ Cover(now, ru, re, l.count, b.hold, own, E)
  BY DEF BookInv
<1>2. b.hold \in [Run -> HoldType] /\ \A i \in Run : RunShape(ru[i], i) /\ RunShape(ru2[i], i)
  BY BookParts DEF RunsShape
<1>3. ASSUME NEW k \in Key \ E2, NEW s \in Slots(now, k) PROVE Covered(ru2, re2, l.count, b.hold, own, k, s)
  <2>1. s \in Time /\ l.count[k][s] \in Int /\ re[k][s] \in Int /\ re2[k][s] \in Int
    BY SlotCounts
  <2>2. Covered(ru, re, l.count, b.hold, own, k, s)
    BY <1>1 DEF Cover
  <2> DEFINE c == l.count
             h == b.hold
             x == Dues(h, own, k, s)
  <2>3. c[k][s] \in Int /\ h \in [Run -> HoldType] /\ Covered(ru, re, c, h, own, k, s)
    BY <1>2, <2>1, <2>2
  <2> HIDE DEF c, h
  <2>4. /\ Covered(ru, re, c, h, own, k, s) <=> Total(ru, re, k, s) + x <= c[k][s]
        /\ Total(ru, re, k, s) \in Int /\ x \in Int
    BY <1>2, <2>1, <2>3, CoveredTotal
  <2>5. /\ Covered(ru2, re2, c, h, own, k, s) <=> Total(ru2, re2, k, s) + x <= c[k][s]
        /\ Total(ru2, re2, k, s) \in Int
    BY <1>2, <2>1, <2>3, CoveredTotal
  <2>6. Total(ru2, re2, k, s) <= Total(ru, re, k, s)
    OBVIOUS
  <2> HIDE DEF x
  <2>7. Covered(ru2, re2, c, h, own, k, s)
    BY <2>3, <2>4, <2>5, <2>6
  <2> QED BY <2>7 DEF c, h
<1>4. Cover(now, ru2, re2, l.count, b.hold, own, E2)
  BY <1>3 DEF Cover
<1>5. Within(now, l, E2)
  BY <1>1, WithinMore
<1>6. \A r \in own : OwnHold(ru2[r], b, r)
  BY <1>1
<1> QED BY <1>1, <1>4, <1>5, <1>6 DEF BookInv

\* What a state and the next one are made of.
LEMMA Kinds ==
  ASSUME Typed, Typed'
  PROVE  /\ now \in Time /\ disk \in LedgerType /\ disk' \in LedgerType
         /\ run \in [Run -> RunType] /\ run' \in [Run -> RunType]
         /\ real \in [Key -> [Time -> Nat]] /\ real' \in [Key -> [Time -> Nat]]
         /\ evicted \in SUBSET Chat /\ evicted' \in SUBSET Chat
         /\ books \in [Proc -> BookType] /\ books' \in [Proc -> BookType]
  BY DEF Typed

\* The book of a process that does not take the step.
LEMMA OtherKeeps ==
  ASSUME Typed, Typed', SpendInv, now' = now, NEW p \in Proc, Elsewhere(p), NEW i \in Proc, i # p,
         RunsShape(now, run'), FileInv(now, disk', run', real', Out')
  PROVE  /\ Unheld(i, books'[i])
         /\ \E own \in SUBSET Run :
              /\ own \subseteq HomeRuns(i) /\ NotLate(req', own)
              /\ BookInv(now, books'[i], LedgerOf(books'[i], disk'), run', real', own, Out')
<1> DEFINE b == books[i]
           l == LedgerOf(b, disk)
           ru2 == run'
           re2 == real'
           E2 == Out'
<1>1. books'[i] = b /\ b \in BookType /\ l \in LedgerType
  BY Kinds, LedgerIs DEF Elsewhere
<1>2. Unheld(i, b) /\ RunsShape(now, run)
  BY DEF SpendInv
<1>3. PICK own \in SUBSET Run : own \subseteq HomeRuns(i) /\ NotLate(req, own) /\ BookInv(now, b, l, run, real, own, Out)
  BY DEF SpendInv
<1>4. CASE b.loaded \/ b.blind
  <2>1. LedgerOf(b, disk') = l
    BY <1>4 DEF LedgerOf
  <2>2. \A r \in own : r \in Run \ HomeRuns(p)
    BY <1>3 DEF HomeRuns
  <2>3. NotLate(req', own)
    BY <1>3, <2>2 DEF NotLate, Elsewhere
  <2>4. \A r \in own : ru2[r] = run[r]
    BY <2>2 DEF Elsewhere
  <2>5. /\ Out \subseteq E2
        /\ \A k \in Key \ E2 : \A s \in Slots(now, k) : Total(ru2, re2, k, s) <= Total(run, real, k, s)
    BY <1>4 DEF Elsewhere
  <2>6. ru2 \in [Run -> RunType] /\ re2 \in [Key -> [Time -> Nat]] /\ RunsShape(now, ru2)
    BY Kinds
  <2> HIDE DEF ru2, re2, E2, b, l
  <2>7. BookInv(now, b, l, ru2, re2, own, E2)
    BY <1>1, <1>2, <1>3, <2>4, <2>5, <2>6, Kinds, OtherBook
  <2> QED BY <1>1, <1>2, <1>3, <2>1, <2>3, <2>7 DEF ru2, re2, E2
<1>5. CASE ~b.loaded /\ ~b.blind
  <2>1. LedgerOf(b, disk') = disk'
    BY <1>5 DEF LedgerOf
  <2>2. \A r \in Run : b.hold[r].share = {}
    BY <1>2, <1>5 DEF Unheld
  <2>3. HoldShape(now, b)
    BY <1>3 DEF BookInv
  <2> DEFINE d == disk'
  <2>4. /\ d \in LedgerType /\ ru2 \in [Run -> RunType] /\ re2 \in [Key -> [Time -> Nat]]
        /\ RunsShape(now, ru2) /\ FileInv(now, d, ru2, re2, E2)
    BY Kinds
  <2> HIDE DEF ru2, re2, E2, b, l, d
  <2>5. BookInv(now, b, d, ru2, re2, {}, E2)
    BY <1>1, <2>2, <2>3, <2>4, Kinds, BareBook
  <2>6. NotLate(req', {}) /\ {} \in SUBSET Run /\ {} \subseteq HomeRuns(i)
    BY DEF NotLate
  <2> QED BY <1>1, <1>2, <2>1, <2>5, <2>6 DEF ru2, re2, E2, d
<1> QED BY <1>4, <1>5

\* The parts of the invariant after a step of process p.
LEMMA StepInv ==
  ASSUME Typed, Typed', SpendInv, now' = now, NEW p \in Proc, Elsewhere(p),
         RunsShape(now, run'), RealInv(now, real'), FileInv(now, disk', run', real', Out'), Waits(req', run'),
         Unheld(p, books'[p]), NEW own \in SUBSET Run, own \subseteq HomeRuns(p), NotLate(req', own),
         BookInv(now, books'[p], LedgerOf(books'[p], disk'), run', real', own, Out')
  PROVE  SpendInv'
<1>1. ASSUME NEW i \in Proc
      PROVE  /\ Unheld(i, books'[i])
             /\ \E o \in SUBSET Run :
                  /\ o \subseteq HomeRuns(i) /\ NotLate(req', o)
                  /\ BookInv(now, books'[i], LedgerOf(books'[i], disk'), run', real', o, Out')
  <2>1. CASE i = p
    BY <2>1
  <2>2. CASE i # p
    BY <2>2, OtherKeeps
  <2> QED BY <2>1, <2>2
<1> QED BY <1>1 DEF SpendInv

\* A run that is not going costs nothing more.
LEMMA NeedOver ==
  ASSUME NEW r \in Run, NEW u, u.phase \notin Going
  PROVE  Need(u, r) = 0
<1> DEFINE f == [n \in Node |-> Left(u, r, n)]
<1>1. \A n \in Node : f[n] = 0
  BY DEF Left
<1> HIDE DEF f
<1>2. Sum(f, Node) = 0
  BY <1>1, Finite, SumZero
<1> QED BY <1>2 DEF Need, f

\* Where no run wants anything, what is counted only has to be what was spent.
LEMMA CoverQuiet ==
  ASSUME NEW ru, NEW h, NEW own, NEW k, NEW s, NEW re, re[k][s] \in Int, NEW c, c[k][s] \in Int,
         re[k][s] <= c[k][s], \A r \in Run : Wants(ru[r], h, own, r, k, s) = 0
  PROVE  Covered(ru, re, c, h, own, k, s)
<1> DEFINE f == [r \in Run |-> Wants(ru[r], h, own, r, k, s)]
<1>1. \A r \in Run : f[r] = 0
  OBVIOUS
<1> HIDE DEF f
<1>2. Sum(f, Run) = 0
  BY <1>1, Finite, SumZero
<1>3. re[k][s] + Sum(f, Run) <= c[k][s]
  BY <1>2
<1> QED BY <1>3 DEF Covered, f

\* No run, and a ledger nothing was counted in.
LEMMA NoRunShape ==
  ASSUME NEW r \in Run
  PROVE  RunShape(NoRun, r) /\ NoRun.at = 0 /\ Need(NoRun, r) = 0
<1>1. NoRun.phase \notin Going
  BY DEF NoRun, Going
<1>2. Need(NoRun, r) = 0
  BY <1>1, NeedOver
<1> QED BY <1>2, Constants DEF RunShape, NoRun, Going

\* An empty ledger counts nothing and is within every limit.
LEMMA EmptyFine ==
  ASSUME now \in Time, NEW E
  PROVE  Kept(now, Empty) /\ Within(now, Empty, E) /\ \A k \in Key, t \in Time : Empty.count[k][t] = 0
<1>1. \A k \in Key, t \in Time : Empty.count[k][t] = 0
  BY DEF Empty
<1>2. ASSUME NEW k \in Outside PROVE Windowed(now, Empty, k) = 0
  <2> DEFINE f == Empty.count[k]
  <2>1. \A t \in Latest(now) : f[t] = 0
    BY <1>1, SlotsFacts, Constants
  <2> HIDE DEF f
  <2>2. Sum(f, Latest(now)) = 0
    BY <2>1, SlotsFacts, SumZero
  <2> QED BY <2>2 DEF Windowed, f
<1> DEFINE g == [k \in Outside |-> Windowed(now, Empty, k)]
<1>3. \A k \in Outside : g[k] = 0
  BY <1>2
<1> HIDE DEF g
<1>4. Sum(g, Outside) = 0
  BY <1>3, Finite, SumZero
<1>5. Within(now, Empty, E)
  <2>1. \A k \in Chat : Empty.count[k][0] = 0
    BY <1>1, SlotsFacts, Constants
  <2>2. \A k \in App : Windowed(now, Empty, k) = 0
    BY <1>2 DEF Outside
  <2> QED BY <1>4, <2>1, <2>2, Constants DEF Within, g
<1>6. Kept(now, Empty)
  BY <1>1, SlotsFacts, Constants DEF Kept
<1> QED BY <1>1, <1>5, <1>6

\* The ledger starts empty, without runs (SpendLedger.__init__).
LEMMA InitInv == Init => SpendInv
<1> SUFFICES ASSUME Init PROVE SpendInv
  OBVIOUS
<1>1. /\ now \in Time /\ disk = Empty /\ run = [r \in Run |-> NoRun] /\ now = 0
      /\ real = [k \in Key |-> [t \in Time |-> 0]]
  BY Constants DEF Init, Time
<1>2. RunsShape(now, run)
  BY <1>1, NoRunShape DEF RunsShape
<1>3. RealInv(now, real) /\ Waits(req, run)
  BY <1>1, Constants DEF RealInv, Init, Waits
<1>4. ASSUME NEW h \in [Run -> HoldType], \A r \in Run : h[r].share = {}, NEW E
      PROVE  Cover(now, run, real, Empty.count, h, {}, E)
  <2> SUFFICES ASSUME NEW k \in Key \ E, NEW s \in Slots(now, k) PROVE Covered(run, real, Empty.count, h, {}, k, s)
    BY DEF Cover
  <2>1. s \in Time /\ k \in Key
    BY <1>1, SlotsFacts
  <2>2. real[k][s] = 0 /\ Empty.count[k][s] = 0
    BY <1>1, <2>1, EmptyFine
  <2>3. ASSUME NEW r \in Run PROVE Wants(run[r], h, {}, r, k, s) = 0
    <3>1. Due(h, {}, r, k, s) = 0 /\ Need(run[r], r) = 0
      BY <1>1, <1>4, NoRunShape, DueNone
    <3> QED BY <3>1 DEF Wants, Needs
  <2> DEFINE c == Empty.count
  <2>4. c[k][s] \in Int /\ real[k][s] \in Int /\ real[k][s] <= c[k][s]
    BY <2>2
  <2> HIDE DEF c
  <2>5. Covered(run, real, c, h, {}, k, s)
    BY <2>3, <2>4, CoverQuiet
  <2> QED BY <2>5 DEF c
<1>5. FileInv(now, disk, run, real, Out)
  BY <1>1, <1>4, EmptyFine, NoHoldsFacts DEF FileInv
<1>6. BookInv(now, Fresh, Empty, run, real, {}, Out)
  <2>1. Fresh.hold \in [Run -> HoldType] /\ \A r \in Run : Fresh.hold[r] = NoHold
    BY FreshType DEF Fresh
  <2>2. HoldShape(now, Fresh)
    BY <1>1, <2>1, NoHoldsFacts, Constants DEF HoldShape
  <2>3. Cover(now, run, real, Empty.count, Fresh.hold, {}, Out)
    BY <1>4, <2>1, NoHoldsFacts
  <2> QED BY <1>1, <2>2, <2>3, EmptyFine DEF BookInv
<1>7. \A p \in Proc : books[p] = Fresh /\ LedgerOf(books[p], disk) = Empty
  BY <1>1 DEF Init, LedgerOf, Fresh
<1>8. NotLate(req, {}) /\ \A p \in Proc : {} \subseteq HomeRuns(p)
  BY DEF NotLate
<1>9. \A p \in Proc : Unheld(p, Fresh)
  BY NoHoldsFacts DEF Unheld, Fresh
<1> QED BY <1>2, <1>3, <1>5, <1>6, <1>7, <1>8, <1>9 DEF SpendInv

-----------------------------------------------------------------------------
(* The clock.                                                              *)

\* A slot that counts after a tick is one that counted before, or the new time.
LEMMA TickSlots ==
  ASSUME now \in Time, now + 1 \in Time, NEW k \in Key, NEW s \in Slots(now + 1, k)
  PROVE  s \in Time /\ (s \in Slots(now, k) \/ (k \notin Chat /\ s = now + 1 /\ s > now))
<1>1. now \in Int /\ Window \in Int /\ \A t \in Time : t \in Int
  BY Constants DEF Time
<1>2. CASE k \in Chat
  BY <1>2, SlotsFacts DEF Slots
<1>3. CASE k \notin Chat
  BY <1>1, <1>3 DEF Slots, Latest
<1> QED BY <1>2, <1>3

\* What was covered stays covered, what was within the limits stays so.
LEMMA TickInv ==
  ASSUME now \in Time, now + 1 \in Time, NEW l \in LedgerType, NEW E, Kept(now, l), Within(now, l, E),
         NEW ru \in [Run -> RunType], RunsShape(now, ru), NEW re \in [Key -> [Time -> Nat]], RealInv(now, re),
         NEW h \in [Run -> HoldType], \A r \in Run : h[r].at <= now, NEW own,
         Cover(now, ru, re, l.count, h, own, E)
  PROVE  Kept(now + 1, l) /\ Within(now + 1, l, E) /\ Cover(now + 1, ru, re, l.count, h, own, E)
<1>1. now \in Int /\ Window \in Int /\ \A t \in Time : t \in Int
  BY Constants DEF Time
<1>2. Kept(now + 1, l)
  BY <1>1 DEF Kept
<1>3. Cover(now + 1, ru, re, l.count, h, own, E)
  <2> SUFFICES ASSUME NEW k \in Key \ E, NEW s \in Slots(now + 1, k) PROVE Covered(ru, re, l.count, h, own, k, s)
    BY DEF Cover
  <2>1. s \in Time /\ (s \in Slots(now, k) \/ (k \notin Chat /\ s = now + 1 /\ s > now))
    BY TickSlots
  <2>2. CASE s \in Slots(now, k)
    BY <2>2 DEF Cover
  <2>3. CASE k \notin Chat /\ s = now + 1 /\ s > now
    <3>1. k \in Outside
      BY <2>3, Constants
    <3>2. re[k][s] = 0 /\ l.count[k][s] = 0
      BY <2>1, <2>3, <3>1 DEF RealInv, Kept
    <3>3. ASSUME NEW r \in Run PROVE Wants(ru[r], h, own, r, k, s) = 0
      <4>1. ru[r].at <= now /\ h[r].at <= now /\ ru[r].at \in Time /\ h[r].at \in Time
        BY DEF RunsShape, RunType, HoldType
      <4>2. ~InSlot(ru[r].key, ru[r].at, k, s) /\ ~InSlot(h[r].key, h[r].at, k, s)
        BY <1>1, <2>3, <4>1 DEF InSlot, Slot
      <4> QED BY <4>2 DEF Wants, Needs, Due
    <3> DEFINE c == l.count
    <3>4. c[k][s] \in Int /\ re[k][s] \in Int /\ re[k][s] <= c[k][s]
      BY <3>2
    <3> HIDE DEF c
    <3>5. Covered(ru, re, c, h, own, k, s)
      BY <3>3, <3>4, CoverQuiet
    <3> QED BY <3>5 DEF c
  <2> QED BY <2>1, <2>2, <2>3
<1>4. ASSUME NEW k \in Outside, k \notin E PROVE Windowed(now + 1, l, k) <= Windowed(now, l, k) /\ Windowed(now + 1, l, k) \in Int
  <2> DEFINE f == l.count[k]
             A == Latest(now)
             B == Latest(now + 1)
             g == [t \in A |-> IF t \in B THEN f[t] ELSE 0]
  <2>1. \A t \in Time : f[t] \in Int
    BY CountsInt, Constants
  <2>2. \A t \in A : f[t] >= 0
    <3> SUFFICES ASSUME NEW t \in A PROVE f[t] >= 0
      OBVIOUS
    <3>1. k \in Key \ E /\ t \in Slots(now, k)
      BY <1>4, Constants DEF Slots
    <3>2. l.count[k][t] \in Int /\ re[k][t] \in Nat /\ Covered(ru, re, l.count, h, own, k, t)
      BY <3>1, SlotCounts DEF Cover
    <3> DEFINE c == l.count
    <3>3. c[k][t] \in Int /\ re[k][t] \in Int /\ Covered(ru, re, c, h, own, k, t) /\ \A r \in Run : RunShape(ru[r], r)
      BY <3>2 DEF RunsShape
    <3> HIDE DEF c
    <3>4. re[k][t] <= c[k][t]
      BY <3>3, CoveredReal
    <3> QED BY <3>2, <3>4 DEF c
  <2>3. A \in SUBSET Time /\ B \in SUBSET Time /\ IsFiniteSet(A) /\ IsFiniteSet(B)
    BY Finite DEF Latest
  <2>4. \A t \in B \ (A \cap B) : f[t] = 0
    <3> SUFFICES ASSUME NEW t \in B, t \notin A PROVE f[t] = 0
      OBVIOUS
    <3>1. t \in Time /\ t > now
      BY <1>1 DEF Latest
    <3> QED BY <3>1 DEF Kept
  <2>5. \A t \in A : g[t] = (IF t \in B THEN f[t] ELSE 0)
    OBVIOUS
  <2> HIDE DEF f, g, A, B
  <2>6. Sum(f, B) = Sum(f, A \cap B)
    BY <2>1, <2>3, <2>4, SumPart
  <2>7. \A t \in A : g[t] \in Int /\ f[t] \in Int /\ g[t] <= f[t]
    BY <2>1, <2>2, <2>3, <2>5
  <2>8. Sum(g, A) <= Sum(f, A)
    BY <2>3, <2>7, SumLe
  <2>9. Sum(g, A) = Sum(g, A \cap B)
    <3>1. \A t \in A \ (A \cap B) : g[t] = 0
      BY <2>5
    <3> QED BY <2>3, <2>7, <3>1, SumPart
  <2>10. Sum(g, A \cap B) = Sum(f, A \cap B)
    <3>1. \A t \in A \cap B : g[t] = f[t]
      BY <2>5
    <3>2. IsFiniteSet(A \cap B)
      BY <2>3, FS_Subset
    <3> QED BY <3>1, <3>2, SumAgree
  <2>11. Sum(f, B) \in Int
    BY <2>1, <2>3, SumInt
  <2> QED BY <2>6, <2>8, <2>9, <2>10, <2>11 DEF Windowed, f, A, B
<1>5. ASSUME NEW k \in App \ E PROVE Windowed(now + 1, l, k) <= AppLimit
  <2>1. k \in Outside /\ k \notin E /\ Windowed(now, l, k) <= AppLimit
    BY DEF Outside, Within
  <2>2. Windowed(now, l, k) \in Int
    BY <2>1, CountsInt
  <2> QED BY <1>4, <2>1, <2>2, Constants
<1>6. ASSUME Outside \cap E = {} PROVE Sum([k \in Outside |-> Windowed(now + 1, l, k)], Outside) <= OutsideLimit
  <2> DEFINE f == [k \in Outside |-> Windowed(now, l, k)]
             g == [k \in Outside |-> Windowed(now + 1, l, k)]
  <2>1. \A k \in Outside : f[k] \in Int /\ g[k] \in Int /\ g[k] <= f[k]
    BY <1>4, <1>6, CountsInt
  <2>2. Sum(f, Outside) <= OutsideLimit
    BY <1>6 DEF Within
  <2> HIDE DEF f, g
  <2>3. Sum(g, Outside) <= Sum(f, Outside) /\ Sum(g, Outside) \in Int /\ Sum(f, Outside) \in Int
    BY <2>1, Finite, SumLe, SumInt
  <2>4. Sum(g, Outside) <= OutsideLimit
    BY <2>2, <2>3, Constants
  <2> QED BY <2>4 DEF g
<1>7. Within(now + 1, l, E)
  <2>1. \A k \in Chat : l.count[k][0] <= Budget
    BY DEF Within
  <2> QED BY <1>5, <1>6, <2>1 DEF Within
<1> QED BY <1>2, <1>3, <1>7

\* As the clock ticks counts leave the window, what was spent with them (_sum).
LEMMA TickKeeps == Typed /\ Typed' /\ SpendInv /\ Tick => SpendInv'
<1> SUFFICES ASSUME Typed, Typed', SpendInv, Tick PROVE SpendInv'
  OBVIOUS
<1>1. /\ now' = now + 1 /\ now \in Time /\ now + 1 \in Time /\ disk' = disk /\ books' = books /\ req' = req
      /\ run' = run /\ real' = real /\ Out' = Out
  BY DEF Tick, Typed, Out
<1>2. now \in Int /\ \A t \in Time : t \in Int
  BY <1>1 DEF Time
<1>3. disk \in LedgerType /\ run \in [Run -> RunType] /\ real \in [Key -> [Time -> Nat]]
  BY DEF Typed
<1>4. RunsShape(now + 1, run) /\ RealInv(now + 1, real)
  <2>1. \A r \in Run : run[r].at \in Time
    BY RunTypes
  <2>2. RunsShape(now, run) /\ RealInv(now, real)
    BY DEF SpendInv
  <2>3. ASSUME NEW i \in Time, i <= now PROVE i <= now + 1
    BY <1>2, <2>3
  <2>4. RunsShape(now + 1, run)
    BY <2>1, <2>2, <2>3 DEF RunsShape
  <2>5. RealInv(now + 1, real)
    BY <1>2, <2>2 DEF RealInv
  <2> QED BY <2>4, <2>5
<1>5. RunsShape(now, run) /\ RealInv(now, real) /\ FileInv(now, disk, run, real, Out)
  BY DEF SpendInv
<1>6. FileInv(now + 1, disk, run, real, Out)
  <2>1. \A r \in Run : NoHolds[r].at <= now
    BY <1>1, NoHoldsFacts, Constants DEF Time
  <2> QED BY <1>1, <1>3, <1>5, <2>1, NoHoldsFacts, TickInv DEF FileInv
<1>7. ASSUME NEW p \in Proc, NEW own \in SUBSET Run,
             BookInv(now, books[p], LedgerOf(books[p], disk), run, real, own, Out)
      PROVE  BookInv(now + 1, books[p], LedgerOf(books[p], disk), run, real, own, Out)
  <2> DEFINE b == books[p]
             l == LedgerOf(b, disk)
  <2>1. b \in BookType /\ l \in LedgerType
    BY <1>3, LedgerIs DEF Typed
  <2>2. b.hold \in [Run -> HoldType] /\ \A r \in Run : b.hold[r].at \in Time
    BY <2>1, BookParts
  <2>3. HoldShape(now, b) /\ Kept(now, l) /\ Within(now, l, Out) /\ Cover(now, run, real, l.count, b.hold, own, Out)
        /\ \A r \in own : OwnHold(run[r], b, r)
    BY <1>7 DEF BookInv
  <2> HIDE DEF b, l
  <2>4. HoldShape(now + 1, b) /\ \A r \in Run : b.hold[r].at <= now
    BY <1>2, <2>2, <2>3 DEF HoldShape
  <2>5. Kept(now + 1, l) /\ Within(now + 1, l, Out) /\ Cover(now + 1, run, real, l.count, b.hold, own, Out)
    BY <1>1, <1>3, <1>5, <2>1, <2>2, <2>3, <2>4, TickInv
  <2> QED BY <2>3, <2>4, <2>5 DEF BookInv, b, l
<1>8. \A p \in Proc :
        /\ Unheld(p, books[p])
        /\ \E own \in SUBSET Run :
             /\ own \subseteq HomeRuns(p) /\ NotLate(req, own)
             /\ BookInv(now + 1, books[p], LedgerOf(books[p], disk), run, real, own, Out)
  BY <1>7 DEF SpendInv
<1>9. Waits(req, run)
  BY DEF SpendInv
<1> QED BY <1>1, <1>4, <1>6, <1>8, <1>9 DEF SpendInv

(* The requests.                                                           *)

\* A step of process p that leaves the runs and what they spent as they are.
LEMMA SameElsewhere ==
  ASSUME Typed, SpendInv, NEW p \in Proc, \A i \in Proc \ {p} : books'[i] = books[i], run' = run, real' = real,
         \A x \in Request : RunOf[x] \notin HomeRuns(p) /\ req'[x] = "late" => req[x] = "late", Out \subseteq Out'
  PROVE  Elsewhere(p)
<1>1. ASSUME NEW k \in Key, NEW s \in Slots(now, k) PROVE Total(run, real, k, s) <= Total(run, real, k, s)
  <2>1. /\ run \in [Run -> RunType] /\ (\A i \in Run : RunShape(run[i], i)) /\ disk.count[k][s] \in Int
        /\ real[k][s] \in Int
    BY SlotCounts DEF Typed, SpendInv, RunsShape
  <2> DEFINE c == disk.count
  <2>2. c[k][s] \in Int
    BY <2>1
  <2> HIDE DEF c
  <2>3. Total(run, real, k, s) \in Int
    BY <2>1, <2>2, NoHoldsFacts, CoveredTotal
  <2> QED BY <2>3
<1> QED BY <1>1 DEF Elsewhere

\* A step of process p that moves one of its runs.
LEMMA OneElsewhere ==
  ASSUME Typed, Typed', SpendInv, NEW p \in Proc, \A i \in Proc \ {p} : books'[i] = books[i],
         NEW r \in HomeRuns(p), \A i \in Run \ {r} : run'[i] = run[i], RunsShape(now, run'),
         \A x \in Request : RunOf[x] \notin HomeRuns(p) /\ req'[x] = "late" => req[x] = "late", Out \subseteq Out',
         (\E i \in Proc \ {p} : books[i].loaded \/ books[i].blind) =>
           \A k \in Key \ Out' : \A s \in Slots(now, k) :
             real'[k][s] + Needs(run'[r], r, k, s) <= real[k][s] + Needs(run[r], r, k, s)
  PROVE  Elsewhere(p)
<1>1. ASSUME NEW k \in Key, NEW s \in Slots(now, k),
             real'[k][s] + Needs(run'[r], r, k, s) <= real[k][s] + Needs(run[r], r, k, s)
      PROVE  Total(run', real', k, s) <= Total(run, real, k, s)
  <2> DEFINE ru2 == run'
             re2 == real'
             f == [i \in Run |-> Needs(run[i], i, k, s)]
             g == [i \in Run |-> Needs(ru2[i], i, k, s)]
  <2>1. r \in Run /\ RunsShape(now, run)
    BY DEF HomeRuns, SpendInv
  <2>2. real[k][s] \in Nat /\ re2[k][s] \in Nat
    BY Kinds, SlotCounts
  <2>3. \A i \in Run : f[i] \in Nat /\ g[i] \in Nat
    <3> SUFFICES ASSUME NEW i \in Run PROVE f[i] \in Nat /\ g[i] \in Nat
      OBVIOUS
    <3>1. ru2[i] \in RunType /\ run[i] \in RunType /\ RunShape(ru2[i], i) /\ RunShape(run[i], i)
      BY <2>1, Kinds DEF RunsShape
    <3> QED BY <3>1, NeedNat DEF Needs
  <2>4. \A i \in Run \ {r} : f[i] = g[i]
    OBVIOUS
  <2>5. re2[k][s] + g[r] <= real[k][s] + f[r]
    BY <1>1, <2>1
  <2>6. Total(run, real, k, s) = real[k][s] + Sum(f, Run) /\ Total(ru2, re2, k, s) = re2[k][s] + Sum(g, Run)
    BY DEF Total
  <2> HIDE DEF f, g, ru2, re2
  <2>7. Sum(f, Run) = f[r] + Sum(f, Run \ {r}) /\ Sum(g, Run) = g[r] + Sum(g, Run \ {r})
    BY <2>1, <2>3, Finite, SumOut
  <2>8. Sum(f, Run \ {r}) = Sum(g, Run \ {r}) /\ Sum(f, Run \ {r}) \in Int
    <3>1. IsFiniteSet(Run \ {r})
      BY Finite, FS_Subset
    <3> QED BY <2>3, <2>4, <3>1, SumAgree, SumInt
  <2>9. Total(ru2, re2, k, s) <= Total(run, real, k, s)
    BY <2>1, <2>2, <2>3, <2>5, <2>6, <2>7, <2>8
  <2> QED BY <2>9 DEF ru2, re2
<1>2. \A i \in Run \ HomeRuns(p) : run'[i] = run[i]
  OBVIOUS
<1> QED BY <1>1, <1>2 DEF Elsewhere

\* What holds apart from some keys holds apart from more.
LEMMA DropChats ==
  ASSUME NEW E, NEW E2, E \subseteq E2
  PROVE  /\ \A d, ru, re : FileInv(now, d, ru, re, E) => FileInv(now, d, ru, re, E2)
         /\ \A b, l, ru, re, own : BookInv(now, b, l, ru, re, own, E) => BookInv(now, b, l, ru, re, own, E2)
<1>1. ASSUME NEW ru, NEW re, NEW c, NEW h, NEW own, Cover(now, ru, re, c, h, own, E)
      PROVE  Cover(now, ru, re, c, h, own, E2)
  BY <1>1 DEF Cover
<1>2. ASSUME NEW l, Within(now, l, E) PROVE Within(now, l, E2)
  BY <1>2, WithinMore
<1> QED BY <1>1, <1>2 DEF FileInv, BookInv

\* The file is that of the books when a request is charged.
LEMMA SavedIs ==
  ASSUME now \in Time, disk \in LedgerType, NEW q \in Request, Charged(q), books[At(q)] \in BookType,
         Kept(now, LedgerOf(books[At(q)], disk))
  PROVE  Saved(q) = Counted(books[At(q)], q).ledger
<1> DEFINE b == books[At(q)]
           c == Counted(b, q)
           l == LedgerOf(b, disk)
           k == KeyOf[q]
           a == Cost(q)
           m == Recorded(l, k, a)
<1>1. b \in BookType /\ l \in LedgerType /\ k \in Key /\ a \in Nat /\ a > 0
  BY LedgerIs, CostNat, Constants DEF Charged
<1>2. c.loaded /\ c.ledger = m
  BY <1>1, CountedFacts
<1>3. Saved(q) = IF c = b THEN disk ELSE c.ledger
  BY DEF Saved
<1>4. ASSUME c = b PROVE FALSE
  <2>1. l = m
    BY <1>2, <1>4 DEF LedgerOf
  <2>2. Slot(k, now) \in Slots(now, k)
    BY <1>1, SlotsFacts DEF Slot, Slots
  <2>3. k \notin ToSet(l.chats) \ ToSet(m.chats)
    BY <2>1
  <2> DEFINE s == Slot(k, now)
  <2>4. Kept(now, l) /\ s \in Time
    BY <1>1, <2>2, SlotsFacts
  <2> HIDE DEF l, b, c, k, a, s
  <2>5. m.count[k][s] = l.count[k][s] + a
    BY <1>1, <2>2, <2>3, <2>4, RecordedCounts DEF s
  <2>6. l.count[k][s] \in Int
    BY <1>1, <2>4, CountsInt
  <2> HIDE DEF m
  <2> QED BY <1>1, <2>1, <2>5, <2>6
<1> QED BY <1>3, <1>4

\* The chats a count drops for room.
LEMMA CountsEvicted ==
  ASSUME Typed, NEW q \in Request, NEW doubt, Counts(q, doubt)
  PROVE  /\ Charged(q) => evicted' = evicted \cup (ToSet(LedgerOf(books[At(q)], disk).chats)
                                                     \ ToSet(Counted(books[At(q)], q).ledger.chats))
         /\ ~Charged(q) => evicted' = evicted
<1> DEFINE b == books[At(q)]
           c == Counted(b, q)
<1>1. now \in Time /\ disk \in LedgerType /\ At(q) \in Proc /\ b \in BookType /\ c \in BookType
  BY SavedType DEF Typed
<1>2. evicted' = evicted \cup (ToSet(Ledger(At(q)).chats) \ ToSet(Opened(c).ledger.chats))
  BY DEF Counts
<1>3. Ledger(At(q)) = LedgerOf(b, disk) /\ Opened(c).ledger = LedgerOf(c, disk)
  BY <1>1, LedgerIs DEF Ledger
<1>4. CASE Charged(q)
  BY <1>1, <1>2, <1>3, <1>4, CountedFacts DEF LedgerOf
<1>5. CASE ~Charged(q)
  <2>1. c = b
    BY <1>5, NotCounted
  <2> QED BY <1>2, <1>3, <1>5, <2>1
<1> QED BY <1>4, <1>5

\* A request that passes the limits, if it is charged, has room in them.
LEMMA PassedRoom ==
  ASSUME Typed, NEW q \in Request, Charged(q), Passed(q)
  PROVE  Allowed(LedgerOf(books[At(q)], disk), q)
<1>1. At(q) \in Proc /\ books[At(q)] \in BookType /\ disk \in LedgerType
  BY SavedType DEF Typed
<1>2. Ledger(At(q)) = LedgerOf(books[At(q)], disk)
  BY <1>1, LedgerIs DEF Ledger
<1> QED BY <1>2 DEF Passed, Charged

\* A charged request is counted, and registered if its run is new.
LEMMA ChargedStep ==
  ASSUME Typed, Typed', SpendInv, NEW q \in Request, Charged(q), Passed(q), NEW doubt, Counts(q, doubt),
         apart \subseteq apart', RunsShape(now, run'), NEW mine \in BOOLEAN, Counting(mine, run, run', q)
  PROVE  LET c == Counted(books[At(q)], q) IN
         /\ c \in BookType /\ c.loaded /\ Saved(q) = c.ledger /\ Unheld(At(q), c) /\ Out \subseteq Out'
         /\ FileInv(now, c.ledger, run', real, Out')
         /\ \E own \in SUBSET Run :
              /\ own \subseteq HomeRuns(At(q)) /\ BookInv(now, c, c.ledger, run', real, own, Out')
              /\ \A x \in Request : req[x] = "late" /\ Charged(x) => RunOf[x] = RunOf[q] \/ RunOf[x] \notin own
              /\ ~mine => RunOf[q] \notin own
<1> DEFINE b == books[At(q)]
           c == Counted(b, q)
           l == LedgerOf(b, disk)
           m == c.ledger
           r == RunOf[q]
<1>1. At(q) \in Proc /\ b \in BookType /\ c \in BookType /\ r \in HomeRuns(At(q))
  BY SavedType, Constants DEF HomeRuns, At
<1>2. c.loaded /\ m \in LedgerType
  BY <1>1, BookParts, CountedFacts, Kinds
<1>3. PICK own \in SUBSET Run : /\ own \subseteq HomeRuns(At(q)) /\ NotLate(req, own)
                                /\ BookInv(now, b, l, run, real, own, Out)
  BY <1>1 DEF SpendInv
<1>4. Saved(q) = m
  BY <1>1, <1>3, Kinds, SavedIs DEF BookInv
<1> DEFINE ru2 == run'
           E2 == Out \cup (ToSet(l.chats) \ ToSet(m.chats))
           E3 == Out'
<1>5. E2 \subseteq E3 /\ Out \subseteq E3
  <2>1. evicted' = evicted \cup (ToSet(l.chats) \ ToSet(m.chats))
    BY CountsEvicted
  <2> QED BY <2>1 DEF Out
<1>6. Allowed(l, q)
  BY PassedRoom
<1>7. RunsShape(now, run)
  BY DEF SpendInv
<1>8. CountedAs(c, l, ru2, real, own, Out, q, mine)
  <2>1. ru2 \in [Run -> RunType] /\ RunsShape(now, ru2) /\ Counting(mine, run, ru2, q)
    BY Kinds
  <2> HIDE DEF ru2, b
  <2>2. /\ now \in Time /\ disk \in LedgerType /\ b \in BookType /\ Allowed(LedgerOf(b, disk), q)
        /\ run \in [Run -> RunType] /\ RunsShape(now, run) /\ real \in [Key -> [Time -> Nat]]
        /\ BookInv(now, b, LedgerOf(b, disk), run, real, own, Out)
    BY <1>1, <1>3, <1>6, <1>7, Kinds
  <2> QED BY <2>1, <2>2, CountedInv
<1>9. PICK own2 \in SUBSET Run :
           /\ own2 \subseteq own \cup {r} /\ (~mine => r \notin own2)
           /\ BookInv(now, c, m, ru2, real, own2, E2)
  BY <1>8 DEF CountedAs
<1>10. FileInv(now, m, ru2, real, E2)
  <2>1. Kept(now, m) /\ Within(now, m, E2) /\ Cover(now, ru2, real, m.count, c.hold, own2, E2)
    BY <1>9 DEF BookInv
  <2>2. c.hold \in [Run -> HoldType] /\ ru2 \in [Run -> RunType] /\ RunsShape(now, ru2)
    BY <1>1, BookParts, Kinds
  <2> HIDE DEF m, ru2, E2, c
  <2>3. Cover(now, ru2, real, m.count, NoHolds, {}, E2)
    BY <1>2, <2>1, <2>2, Kinds, CoverFile
  <2> QED BY <2>1, <2>3 DEF FileInv
<1>11. \A x \in Request : req[x] = "late" /\ Charged(x) => RunOf[x] = r \/ RunOf[x] \notin own2
  BY <1>3, <1>9 DEF NotLate
<1>12. FileInv(now, m, ru2, real, E3) /\ BookInv(now, c, m, ru2, real, own2, E3)
  <2> HIDE DEF E2, E3, m, c, ru2
  <2> QED BY <1>5, <1>9, <1>10, DropChats
<1>13. own2 \subseteq HomeRuns(At(q))
  BY <1>1, <1>3, <1>9
<1>14. Unheld(At(q), c)
  <2> SUFFICES ASSUME NEW i \in Run, i \notin HomeRuns(At(q)) PROVE c.hold[i].share = {}
    BY <1>2 DEF Unheld
  <2>1. b.hold[i].share = {} /\ i # r
    BY <1>1 DEF SpendInv, Unheld
  <2>2. PICK D \in SUBSET Run :
              /\ r \notin D
              /\ \A j \in Run \ {r} : j \in D => c.hold[j] = NoHold
              /\ \A j \in Run \ {r} : j \notin D =>
                   c.hold[j] = b.hold[j] /\ c.called[j] = b.called[j] /\ (j \in c.tracked <=> j \in b.tracked)
    BY <1>1, CountedFacts, Kinds
  <2> HIDE DEF b, c, r
  <2>3. c.hold[i] = NoHold \/ c.hold[i] = b.hold[i]
    BY <2>1, <2>2
  <2> QED BY <2>1, <2>3, NoHoldsFacts
<1> HIDE DEF c, m, b, l, E2
<1>15. FileInv(now, m, run', real, Out') /\ BookInv(now, c, m, run', real, own2, Out') /\ Out \subseteq Out'
  BY <1>5, <1>12
<1> QED BY <1>1, <1>2, <1>4, <1>9, <1>11, <1>13, <1>14, <1>15 DEF c, m, b

\* The state of a new run.
LEMMA NewRun ==
  ASSUME now \in Time, NEW q \in Request
  PROVE  LET u == [NoRun EXCEPT !.phase = "new", !.nodes = GraphOf[q], !.key = KeyOf[q], !.at = now] IN
         u \in RunType /\ RunShape(u, RunOf[q]) /\ NewFor(u, q) /\ u.at = now
<1> DEFINE u == [NoRun EXCEPT !.phase = "new", !.nodes = GraphOf[q], !.key = KeyOf[q], !.at = now]
<1>1. u \in RunType
  BY NoRunType, Constants DEF RunType
<1>2. /\ u.phase = "new" /\ u.nodes = GraphOf[q] /\ u.ever = {} /\ u.keyless = {} /\ u.key = KeyOf[q] /\ u.at = now
      /\ u.pass = 1 /\ \A n \in Node : u.calls[n] = 0
  BY DEF NoRun
<1> HIDE DEF u
<1>3. RunShape(u, RunOf[q])
  BY <1>2, Constants DEF RunShape
<1> QED BY <1>1, <1>2, <1>3 DEF u, NewFor

-----------------------------------------------------------------------------
\* A step that leaves alone what the invariant is about: a ledger may be loaded.
LEMMA QuietStep ==
  ASSUME SpendInv, now' = now, disk' = disk, run' = run, real' = real, Out' = Out,
         \A q \in Request : req'[q] = "late" => req[q] = "late",
         \A p \in Proc : /\ books'[p].hold = books[p].hold /\ books'[p].called = books[p].called
                         /\ books'[p].tracked = books[p].tracked
                         /\ books[p].loaded => books'[p].loaded
                         /\ LedgerOf(books'[p], disk) = LedgerOf(books[p], disk),
         \A p \in Proc : ~books[p].loaded /\ books'[p].loaded => \A r \in Run : books[p].hold[r].share = {}
  PROVE  SpendInv'
<1>1. ASSUME NEW p \in Proc
      PROVE  /\ Unheld(p, books'[p])
             /\ \E own \in SUBSET Run :
                  /\ own \subseteq HomeRuns(p) /\ NotLate(req', own)
                  /\ BookInv(now, books'[p], LedgerOf(books'[p], disk), run, real, own, Out)
  <2>1. PICK own \in SUBSET Run : /\ own \subseteq HomeRuns(p) /\ NotLate(req, own)
                                  /\ BookInv(now, books[p], LedgerOf(books[p], disk), run, real, own, Out)
    BY DEF SpendInv
  <2> DEFINE b == books[p]
             c == books'[p]
             l == LedgerOf(b, disk)
  <2>2. /\ LedgerOf(c, disk) = l /\ c.hold = b.hold /\ c.called = b.called /\ c.tracked = b.tracked
        /\ BookInv(now, b, l, run, real, own, Out)
    BY <2>1
  <2>5. Unheld(p, c)
    BY <2>2 DEF SpendInv, Unheld
  <2> HIDE DEF b, c, l
  <2>3. BookInv(now, c, l, run, real, own, Out)
    BY <2>2 DEF BookInv, HoldShape, OwnHold
  <2>4. NotLate(req', own)
    BY <2>1 DEF NotLate
  <2> QED BY <2>1, <2>2, <2>3, <2>4, <2>5 DEF c
<1>2. Waits(req', run)
  BY DEF SpendInv, Waits
<1> QED BY <1>1, <1>2 DEF SpendInv

\* A request that waits for its limits changes no count (execute).
LEMMA AskKeeps ==
  ASSUME Typed, SpendInv, NEW q \in Request, Ask(q)
  PROVE  SpendInv'
<1>1. \A x \in Request : req'[x] = "late" => req[x] = "late"
  BY DEF Ask, Typed
<1>2. Out' = Out
  BY DEF Ask, Out
<1> QED BY <1>1, <1>2, QuietStep DEF Ask

\* A book that is loaded holds what the file does, or nothing (_load).
LEMMA OpenKeeps ==
  ASSUME Typed, SpendInv, NEW p \in Proc, books' = [books EXCEPT ![p] = Opened(@)],
         now' = now, disk' = disk, run' = run, real' = real, evicted' = evicted, apart' = apart,
         \A q \in Request : req'[q] = "late" => req[q] = "late"
  PROVE  SpendInv'
<1>1. ASSUME NEW i \in Proc
      PROVE  /\ books'[i].hold = books[i].hold /\ books'[i].called = books[i].called
             /\ books'[i].tracked = books[i].tracked
             /\ books[i].loaded => books'[i].loaded
             /\ LedgerOf(books'[i], disk) = LedgerOf(books[i], disk)
  <2>1. books[i] \in BookType /\ disk \in LedgerType /\ books'[i] = IF i = p THEN Opened(books[i]) ELSE books[i]
    BY DEF Typed
  <2>2. CASE i # p
    BY <2>1, <2>2
  <2>3. CASE i = p
    <3>1. books'[i] = Opened(books[i])
      BY <2>1, <2>3
    <3> DEFINE b == books[i]
               c == books'[i]
    <3>2. c = Opened(b) /\ b \in BookType
      BY <2>1, <3>1
    <3> HIDE DEF b, c
    <3>3. c.loaded /\ c.hold = b.hold /\ c.called = b.called /\ c.tracked = b.tracked /\ c.ledger = LedgerOf(b, disk)
      BY <2>1, <3>2, OpenedFacts, LedgerIs
    <3> QED BY <3>3 DEF LedgerOf, b, c
  <2> QED BY <2>2, <2>3
<1>2. \A i \in Proc : ~books[i].loaded => \A r \in Run : books[i].hold[r].share = {}
  BY DEF SpendInv, Unheld
<1>3. Out' = Out
  BY DEF Out
<1> QED BY <1>1, <1>2, <1>3, QuietStep

\* Reading the totals loads the ledger and changes no count (agent_spend_status).
LEMMA LookKeeps ==
  ASSUME Typed, SpendInv, NEW p \in Proc, Look(p)
  PROVE  SpendInv'
  BY OpenKeeps DEF Look

\* A refused request changes no count (_require_spend_approval).
LEMMA RefuseKeeps ==
  ASSUME Typed, SpendInv, NEW q \in Request, Refuse(q)
  PROVE  SpendInv'
<1>1. \A x \in Request : req'[x] = "late" => req[x] = "late"
  BY DEF Refuse, Typed
<1>2. At(q) \in Proc
  BY Constants DEF At
<1> QED BY <1>1, <1>2, OpenKeeps DEF Refuse

\* A run that is not charged begins.
LEMMA FreeBegins ==
  ASSUME Typed, Typed', SpendInv, NEW q \in Request, ~Charged(q), run[RunOf[q]].phase = "none",
         NEW u \in RunType, RunShape(u, RunOf[q]), NewFor(u, q), run' = [run EXCEPT ![RunOf[q]] = u],
         now' = now, disk' = disk, real' = real, Out' = Out, books' = books,
         \A x \in Request : req'[x] = "late" => req[x] = "late"
  PROVE  SpendInv'
<1> DEFINE r == RunOf[q]
           p == At(q)
           ru2 == run'
           b == books[p]
           l == LedgerOf(b, disk)
<1>1. r \in Run /\ ru2[r] = u /\ (\A i \in Run \ {r} : ru2[i] = run[i]) /\ ru2 \in [Run -> RunType]
      /\ p \in Proc /\ r \in HomeRuns(p)
  BY RunSet, Constants DEF At, HomeRuns
<1>2. RunsShape(now, run)
  BY DEF SpendInv
<1>3. RunsShape(now, ru2)
  <2>1. u.at <= now
    BY Kinds, SlotsFacts DEF NewFor
  <2> HIDE DEF ru2
  <2> QED BY <1>1, <1>2, <2>1 DEF RunsShape
<1>4. PICK own \in SUBSET Run : /\ own \subseteq HomeRuns(p) /\ NotLate(req, own)
                                /\ BookInv(now, b, l, run, real, own, Out)
  BY <1>1 DEF SpendInv
<1>5. r \notin own
  BY <1>4 DEF BookInv, OwnHold, Going
<1>6. \A k \in Key : \A s : Needs(u, r, k, s) = 0
  <2> SUFFICES ASSUME NEW k \in Key, NEW s, InSlot(u.key, u.at, k, s) PROVE Need(u, r) = 0
    BY DEF Needs
  <2>1. u.key # Person /\ u.key = KeyOf[q]
    BY Constants DEF InSlot, NewFor
  <2>2. Cost(q) = 0
    BY <2>1, CostNat DEF Charged
  <2> QED BY <2>2, NeedNew DEF NewFor
<1>7. b \in BookType /\ l \in LedgerType
  BY <1>1, Kinds, LedgerIs
<1>8. \A k, s : Needs(run[r], r, k, s) = 0
  BY <1>1, NeedOver DEF Needs, Going
<1> HIDE DEF ru2, r, l, b, p
<1>9. Moved(b, b, l, l, run, ru2, real, real, own, own, Out, r)
  <2>1. HoldShape(now, b) /\ Kept(now, l) /\ Within(now, l, Out)
    BY <1>4 DEF BookInv
  <2>2. b.hold[r].at <= now
    BY <1>1, <2>1 DEF HoldShape
  <2>3. ASSUME NEW k \in Key \ Out, NEW s \in Slots(now, k)
        PROVE  l.count[k][s] - real[k][s] - Wants(run[r], b.hold, own, r, k, s)
                 <= l.count[k][s] - real[k][s] - Wants(ru2[r], b.hold, own, r, k, s)
    <3>1. l.count[k][s] \in Int /\ real[k][s] \in Int
      BY <1>7, Kinds, SlotCounts
    <3>2. Wants(run[r], b.hold, own, r, k, s) = Wants(ru2[r], b.hold, own, r, k, s)
      BY <1>1, <1>6, <1>8 DEF Wants
    <3>3. Wants(run[r], b.hold, own, r, k, s) \in Nat
      BY <1>1, <1>2, <1>7, Kinds, BookParts, WantsNat DEF RunsShape
    <3> QED BY <3>1, <3>2, <3>3
  <2> QED BY <1>1, <1>5, <2>1, <2>2, <2>3 DEF Moved
<1>10. BookInv(now, b, l, ru2, real, own, Out)
  BY <1>1, <1>2, <1>3, <1>4, <1>7, <1>9, Kinds, MoveInv
<1>14. ASSUME NEW k \in Key \ Out, NEW s \in Slots(now, k)
       PROVE  real[k][s] + Needs(ru2[r], r, k, s) <= real[k][s] + Needs(run[r], r, k, s)
  <2>1. real[k][s] \in Int
    BY <1>7, Kinds, SlotCounts
  <2> QED BY <1>1, <1>6, <1>8, <2>1
<1>11. FileInv(now, disk, ru2, real, Out)
  <2>1. FileInv(now, disk, run, real, Out)
    BY DEF SpendInv
  <2> QED BY <1>1, <1>2, <1>3, <1>14, <2>1, Kinds, MoveFile DEF FileInv
<1>12. Waits(req', ru2) /\ NotLate(req', own)
  <2>1. Waits(req, run)
    BY DEF SpendInv
  <2>2. \A x \in Request : run[RunOf[x]].phase # "none" => ru2[RunOf[x]].phase # "none"
    BY <1>1, Constants DEF r, NewFor
  <2> QED BY <1>4, <2>1, <2>2 DEF Waits, NotLate
<1>13. RealInv(now, real) /\ Unheld(p, b)
  BY <1>1 DEF SpendInv, b
<1>15. Elsewhere(p)
  BY <1>1, <1>3, <1>14, OneElsewhere DEF ru2
<1> QED BY <1>1, <1>3, <1>4, <1>10, <1>11, <1>12, <1>13, <1>15, StepInv DEF ru2, l, b

\* A run that starts is counted for all it may cost, after the limits and with no await between
\* (execute). A backend that has its own count of the key leaves the key apart.
LEMMA StartKeeps ==
  ASSUME Typed, Typed', SpendInv, NEW q \in Request, Start(q)
  PROVE  SpendInv'
<1> DEFINE r == RunOf[q]
           p == At(q)
           c == Counted(books[p], q)
           u == [NoRun EXCEPT !.phase = "new", !.nodes = GraphOf[q], !.key = KeyOf[q], !.at = now]
<1>1. /\ Passed(q) /\ run[r].phase = "none" /\ books' = [books EXCEPT ![p] = c] /\ disk' = Saved(q)
      /\ run' = [run EXCEPT ![r] = u] /\ req' = [req EXCEPT ![q] = "done"] /\ Counts(q, FALSE)
      /\ now' = now /\ real' = real /\ apart' = apart \cup Overlooked(q)
  BY DEF Start
<1>2. u \in RunType /\ RunShape(u, r) /\ NewFor(u, q) /\ u.at = now
  BY NewRun, Kinds
<1> HIDE DEF u
<1>3. r \in Run /\ p \in Proc /\ books[p] \in BookType /\ run'[r] = u /\ (\A i \in Run \ {r} : run'[i] = run[i])
      /\ r \in HomeRuns(p)
  BY <1>1, <1>2, RunSet, SavedType, Constants DEF HomeRuns, At
<1>4. RunsShape(now, run')
  <2>1. RunsShape(now, run) /\ now <= now
    BY Kinds, SlotsFacts DEF SpendInv
  <2> HIDE DEF r
  <2> QED BY <1>2, <1>3, <2>1 DEF RunsShape
<1>5. \A x \in Request : req'[x] = "late" => req[x] = "late"
  BY <1>1 DEF Typed
<1>6. books'[p] = c /\ \A i \in Proc \ {p} : books'[i] = books[i]
  BY <1>1, <1>3, Kinds
<1>7. CASE ~Charged(q)
  <2>1. c = books[p]
    BY <1>7, NotCounted
  <2>2. disk' = disk /\ Out' = Out
    <3>1. evicted' = evicted
      BY <1>1, <1>7, CountsEvicted
    <3> QED BY <1>1, <1>7, <2>1, <3>1 DEF Saved, Overlooked, Out
  <2>3. books' = books
    BY <1>1, <1>3, <2>1, Kinds
  <2> HIDE DEF c, r, p
  <2> QED BY <1>1, <1>2, <1>3, <1>5, <1>7, <2>2, <2>3, FreeBegins DEF r
<1>8. CASE Charged(q)
  <2>1. Counting(TRUE, run, run', q)
    BY <1>2, <1>3 DEF Counting
  <2>2. /\ c \in BookType /\ c.loaded /\ Saved(q) = c.ledger /\ Unheld(p, c) /\ Out \subseteq Out'
        /\ FileInv(now, c.ledger, run', real, Out')
        /\ \E own \in SUBSET Run :
              /\ own \subseteq HomeRuns(p) /\ BookInv(now, c, c.ledger, run', real, own, Out')
              /\ \A x \in Request : req[x] = "late" /\ Charged(x) => RunOf[x] = r \/ RunOf[x] \notin own
    <3>1. apart \subseteq apart'
      BY <1>1
    <3> QED BY <1>1, <1>4, <1>8, <2>1, <3>1, ChargedStep
  <2>3. PICK own \in SUBSET Run :
              /\ own \subseteq HomeRuns(p) /\ BookInv(now, c, c.ledger, run', real, own, Out')
              /\ \A x \in Request : req[x] = "late" /\ Charged(x) => RunOf[x] = r \/ RunOf[x] \notin own
    BY <2>2
  <2>4. Waits(req, run)
    BY DEF SpendInv
  <2>5. NotLate(req', own) /\ Waits(req', run')
    <3>1. ASSUME NEW x \in Request, req'[x] = "late"
          PROVE  (Charged(x) => RunOf[x] \notin own) /\ run'[RunOf[x]].phase # "none"
      <4>1. req[x] = "late" /\ run[RunOf[x]].phase # "none"
        BY <1>5, <2>4, <3>1 DEF Waits
      <4>2. RunOf[x] # r /\ RunOf[x] \in Run
        BY <1>1, <4>1, Constants
      <4> QED BY <1>3, <2>3, <4>1, <4>2
    <3> QED BY <3>1 DEF NotLate, Waits
  <2>6. RealInv(now, real)
    BY DEF SpendInv
  <2>7. LedgerOf(c, disk') = disk' /\ disk' = c.ledger
    BY <1>1, <2>2 DEF LedgerOf
  <2>8. ASSUME \E i \in Proc \ {p} : books[i].loaded \/ books[i].blind, NEW k \in Key \ Out', NEW s \in Slots(now, k)
        PROVE  real'[k][s] + Needs(run'[r], r, k, s) <= real[k][s] + Needs(run[r], r, k, s)
    <3>1. KeyOf[q] \in Out'
      BY <1>1, <1>8, <2>8 DEF Overlooked, Out
    <3>2. Needs(u, r, k, s) = 0
      BY <1>2, <3>1 DEF Needs, InSlot, NewFor
    <3>3. Needs(run[r], r, k, s) = 0
      BY <1>1, <1>3, NeedOver DEF Needs, Going
    <3>4. real[k][s] \in Int
      BY Kinds, SlotCounts
    <3> QED BY <1>1, <1>3, <3>2, <3>3, <3>4
  <2> HIDE DEF c, r, p
  <2>9. Elsewhere(p)
    BY <1>3, <1>4, <1>5, <1>6, <2>2, <2>8, OneElsewhere
  <2> QED BY <1>1, <1>3, <1>4, <1>6, <2>2, <2>3, <2>5, <2>6, <2>7, <2>9, StepInv
<1> QED BY <1>7, <1>8

\* A request that comes too late is counted too, and its hold is not that of the run (execute).
LEMMA LateKeeps ==
  ASSUME Typed, Typed', SpendInv, NEW q \in Request, Late(q)
  PROVE  SpendInv'
<1> DEFINE r == RunOf[q]
           p == At(q)
           c == Counted(books[p], q)
<1>1. /\ Passed(q) /\ run[r].phase # "none" /\ books' = [books EXCEPT ![p] = c] /\ disk' = Saved(q)
      /\ run' = run /\ req' = [req EXCEPT ![q] = "late"] /\ Counts(q, TRUE)
      /\ now' = now /\ real' = real /\ apart' = apart
  BY DEF Late
<1>2. r \in Run /\ p \in Proc /\ books[p] \in BookType /\ books'[p] = c /\ (\A i \in Proc \ {p} : books'[i] = books[i])
      /\ r \in HomeRuns(p)
  BY <1>1, SavedType, Constants, Kinds DEF HomeRuns, At
<1>3. RunsShape(now, run') /\ RealInv(now, real) /\ Waits(req, run)
  BY <1>1 DEF SpendInv
<1>4. \A x \in Request : req'[x] = "late" => x = q \/ req[x] = "late"
  BY <1>1 DEF Typed
<1>5. Waits(req', run')
  BY <1>1, <1>3, <1>4 DEF Waits
<1>8. \A x \in Request : RunOf[x] \notin HomeRuns(p) /\ req'[x] = "late" => req[x] = "late"
  BY <1>2, <1>4
<1>6. CASE ~Charged(q)
  <2>1. c = books[p]
    BY <1>6, NotCounted
  <2>2. disk' = disk /\ Out' = Out
    <3>1. evicted' = evicted
      BY <1>1, <1>6, CountsEvicted
    <3> QED BY <1>1, <2>1, <3>1 DEF Saved, Out
  <2>3. PICK own \in SUBSET Run : /\ own \subseteq HomeRuns(p) /\ NotLate(req, own)
                                  /\ BookInv(now, c, LedgerOf(c, disk), run, real, own, Out)
    BY <1>2, <2>1 DEF SpendInv
  <2>5. NotLate(req', own)
    BY <1>4, <1>6, <2>3 DEF NotLate
  <2>6. FileInv(now, disk, run, real, Out) /\ Unheld(p, c)
    BY <1>2, <2>1 DEF SpendInv
  <2> HIDE DEF c, p, r
  <2>7. Elsewhere(p)
    BY <1>1, <1>2, <1>8, <2>2, SameElsewhere
  <2> QED BY <1>1, <1>2, <1>3, <1>5, <2>2, <2>3, <2>5, <2>6, <2>7, StepInv
<1>7. CASE Charged(q)
  <2>1. Counting(FALSE, run, run', q)
    BY <1>1 DEF Counting
  <2>2. /\ c \in BookType /\ c.loaded /\ Saved(q) = c.ledger /\ Unheld(p, c) /\ Out \subseteq Out'
        /\ FileInv(now, c.ledger, run', real, Out')
        /\ \E own \in SUBSET Run :
              /\ own \subseteq HomeRuns(p) /\ BookInv(now, c, c.ledger, run', real, own, Out')
              /\ \A x \in Request : req[x] = "late" /\ Charged(x) => RunOf[x] = r \/ RunOf[x] \notin own
              /\ r \notin own
    BY <1>1, <1>3, <1>7, <2>1, ChargedStep
  <2>3. PICK own \in SUBSET Run :
              /\ own \subseteq HomeRuns(p) /\ BookInv(now, c, c.ledger, run', real, own, Out')
              /\ \A x \in Request : req[x] = "late" /\ Charged(x) => RunOf[x] = r \/ RunOf[x] \notin own
              /\ r \notin own
    BY <2>2
  <2>4. NotLate(req', own)
    BY <1>4, <2>3 DEF NotLate
  <2>5. LedgerOf(c, disk') = disk' /\ disk' = c.ledger
    BY <1>1, <2>2 DEF LedgerOf
  <2> HIDE DEF c, p, r
  <2>6. Elsewhere(p)
    BY <1>1, <1>2, <1>8, <2>2, SameElsewhere
  <2> QED BY <1>1, <1>2, <1>3, <1>5, <2>2, <2>3, <2>4, <2>5, <2>6, StepInv
<1> QED BY <1>6, <1>7

-----------------------------------------------------------------------------
(* Counts that are taken back.                                             *)

\* Books written to the file are as good there.
LEMMA BookFile ==
  ASSUME now \in Time, NEW b \in BookType, NEW l \in LedgerType, NEW ru \in [Run -> RunType], RunsShape(now, ru),
         NEW re \in [Key -> [Time -> Nat]], NEW own, NEW E, BookInv(now, b, l, ru, re, own, E)
  PROVE  FileInv(now, l, ru, re, E)
<1>1. Kept(now, l) /\ Within(now, l, E) /\ Cover(now, ru, re, l.count, b.hold, own, E)
  BY DEF BookInv
<1>2. b.hold \in [Run -> HoldType]
  BY BookParts
<1> QED BY <1>1, <1>2, CoverFile DEF FileInv

\* The books after a give-back are kept, in the file if it can be written.
LEMMA KeptStep ==
  ASSUME Typed, Typed', SpendInv, now' = now, NEW p \in Proc, Elsewhere(p), NEW b \in BookType, NEW c \in BookType,
         NEW file, Keep(p, b, c, file), c.loaded \/ (~b.loaded /\ c.blind = b.blind /\ file = disk),
         RunsShape(now, run'), RealInv(now, real'), FileInv(now, file, run', real', Out'), Waits(req', run'),
         Unheld(p, c), NEW own \in SUBSET Run, own \subseteq HomeRuns(p), NotLate(req', own),
         BookInv(now, c, LedgerOf(c, disk), run', real', own, Out')
  PROVE  SpendInv'
<1> DEFINE m == LedgerOf(c, disk)
<1>1. books'[p] = c /\ LedgerOf(c, disk') = m /\ disk' \in {file, m}
  BY Kinds, KeepFacts
<1>2. m \in LedgerType
  BY Kinds, LedgerIs
<1> DEFINE ru2 == run'
           re2 == real'
           E2 == Out'
<1> HIDE DEF m, ru2, re2, E2
<1>3. FileInv(now, m, ru2, re2, E2)
  BY <1>2, Kinds, BookFile DEF m, ru2, re2, E2
<1>4. FileInv(now, disk', run', real', Out')
  BY <1>1, <1>3 DEF ru2, re2, E2
<1> QED BY <1>1, <1>4, StepInv DEF m

\* A hold that is dropped leaves no other with less, and the ledger loaded if it changed.
LEMMA DroppedShape ==
  ASSUME now \in Time, disk \in LedgerType, NEW b \in BookType, NEW r \in Run, NEW S \in SUBSET Node
  PROVE  LET c == Dropped(GivenBack(b, r, S), r) IN
         /\ c.loaded \/ (~b.loaded /\ c.blind = b.blind)
         /\ \A p : Unheld(p, b) => Unheld(p, c)
<1> DEFINE g == GivenBack(b, r, S)
           h == b.hold[r]
           T == h.share \cap S
<1>1. /\ g \in BookType /\ g.hold = [b.hold EXCEPT ![r].share = @ \ S]
      /\ T = {} => g = b
      /\ T # {} => g.loaded
  <2>1. /\ g \in BookType /\ g.order = b.order /\ g.called = b.called /\ g.tracked = b.tracked
        /\ g.hold = [b.hold EXCEPT ![r].share = @ \ S]
        /\ T = {} => g = b
    BY GivenBackFacts, ZenonT(30)
  <2>2. T # {} => g.loaded /\ g.ledger = Refunded(Opened(b).ledger, h.key, Charge(r, T), h.at)
    BY GivenBackFacts, Zenon
  <2> QED BY <2>1, <2>2
<1>2. b.loaded \in BOOLEAN /\ g.loaded \in BOOLEAN /\ \A i \in Run \ {r} : g.hold[i] = b.hold[i]
  BY <1>1, BookParts
<1> HIDE DEF g, T, h
<1> DEFINE c == Dropped(g, r)
<1>3. /\ c \in BookType /\ c.loaded = g.loaded /\ c.blind = g.blind /\ c.ledger = g.ledger /\ c.hold[r] = NoHold
      /\ \A i \in Run \ {r} :
            c.hold[i] = g.hold[i] /\ c.called[i] = g.called[i] /\ (i \in c.tracked <=> i \in g.tracked)
  BY <1>1, DroppedFacts
<1> HIDE DEF c
<1>4. c.loaded \/ (~b.loaded /\ c.blind = b.blind)
  BY <1>1, <1>2, <1>3
<1>5. ASSUME NEW p, Unheld(p, b) PROVE Unheld(p, c)
  <2> SUFFICES ASSUME NEW i \in Run, ~c.loaded \/ i \notin HomeRuns(p) PROVE c.hold[i].share = {}
    BY DEF Unheld
  <2>1. CASE i = r
    BY <1>3, <2>1, NoHoldsFacts
  <2>2. CASE i # r
    BY <1>2, <1>3, <1>4, <1>5, <2>2 DEF Unheld
  <2> QED BY <2>1, <2>2
<1> QED BY <1>4, <1>5 DEF c, g

\* The hold of an id is returned: of one whose run owns it, the key is apart.
LEMMA ReturnInv ==
  ASSUME now \in Time, disk \in LedgerType, NEW b \in BookType, NEW ru \in [Run -> RunType], RunsShape(now, ru),
         NEW re \in [Key -> [Time -> Nat]], NEW own \in SUBSET Run, NEW E,
         BookInv(now, b, LedgerOf(b, disk), ru, re, own, E), NEW r \in Run,
         r \in own /\ b.hold[r].share # {} => b.hold[r].key \in E, NEW p, Unheld(p, b)
  PROVE  LET c == Returned(b, r) IN
         /\ c \in BookType /\ BookInv(now, c, LedgerOf(c, disk), ru, re, own \ {r}, E)
         /\ c.loaded \/ (~b.loaded /\ c.blind = b.blind)
         /\ Unheld(p, c)
<1> DEFINE S == Node
           c == Dropped(GivenBack(b, r, S), r)
           h == b.hold[r]
           T == h.share \cap S
<1>1. Returned(b, r) = c /\ S \in SUBSET Node
  BY DEF Returned
<1>2. ASSUME NEW k \in Key \ E, NEW s \in Slots(now, k)
      PROVE  Needs(ru[r], r, k, s) + (IF InSlot(h.key, h.at, k, s) THEN Charge(r, T) ELSE 0)
               <= Wants(ru[r], b.hold, own, r, k, s)
  <2>1. T = h.share
    BY BookParts
  <2>2. Needs(ru[r], r, k, s) \in Nat /\ Due(b.hold, own, r, k, s) \in Nat
    BY BookParts, WantsNat DEF RunsShape
  <2>3. (IF InSlot(h.key, h.at, k, s) THEN Charge(r, T) ELSE 0) = Due(b.hold, own, r, k, s)
    <3>1. CASE r \notin own
      BY <2>1, <3>1 DEF Due
    <3>2. CASE r \in own /\ h.share = {}
      BY <2>1, <3>2, ChargeNone DEF Due
    <3>3. CASE r \in own /\ h.share # {}
      <4>1. h.key \in E
        BY <3>3
      <4>2. ~InSlot(h.key, h.at, k, s)
        BY <4>1 DEF InSlot
      <4> QED BY <3>3, <4>2 DEF Due
    <3> QED BY <3>1, <3>2, <3>3
  <2> HIDE DEF S, h, T
  <2> QED BY <2>2, <2>3 DEF Wants
<1>3. c \in BookType /\ BookInv(now, c, LedgerOf(c, disk), ru, re, own \ {r}, E)
  <2> HIDE DEF S
  <2> QED BY <1>1, <1>2, DropInv
<1>4. (c.loaded \/ (~b.loaded /\ c.blind = b.blind)) /\ Unheld(p, c)
  <2> HIDE DEF S
  <2> QED BY <1>1, DroppedShape
<1> HIDE DEF c
<1> QED BY <1>1, <1>3, <1>4

\* A hold that a request without a charge returns sets its key apart.
LEMMA UncoveredKey ==
  ASSUME Typed, NEW q \in Request, ~Charged(q), NEW b, b = books[At(q)],
         OwnHold(run[RunOf[q]], b, RunOf[q]), b.hold[RunOf[q]].share # {}
  PROVE  b.hold[RunOf[q]].key \in Uncovered(q)
<1> DEFINE h == b.hold[RunOf[q]]
           u == run[RunOf[q]]
<1>1. b \in BookType /\ RunOf[q] \in Run
  BY SavedType, Constants
<1>2. h \in HoldType
  BY <1>1, BookParts
<1>3. h.key \in Key /\ u.phase \in Going /\ h.key = u.key /\ h.at = u.at
  BY <1>2 DEF OwnHold, HoldType
<1> QED BY <1>3 DEF Uncovered

\* What a late request returns is not due to the run that is going, or its key is apart (_return_hold).
LEMMA LeaveKeeps ==
  ASSUME Typed, Typed', SpendInv, NEW q \in Request, Leave(q)
  PROVE  SpendInv'
<1> DEFINE r == RunOf[q]
           p == At(q)
           b == books[p]
           c == Returned(b, r)
           E2 == Out'
<1>1. /\ req[q] = "late" /\ req' = [req EXCEPT ![q] = "done"] /\ Keep(p, b, c, disk)
      /\ now' = now /\ run' = run /\ real' = real /\ evicted' = evicted /\ apart' = apart \cup Uncovered(q)
  BY DEF Leave
<1>2. r \in Run /\ p \in Proc /\ b \in BookType /\ \A i \in Proc \ {p} : books'[i] = books[i]
  BY <1>1, SavedType, Constants, Kinds DEF Keep
<1>3. RunsShape(now, run) /\ RealInv(now, real) /\ FileInv(now, disk, run, real, Out) /\ Waits(req, run)
      /\ Unheld(p, b)
  BY <1>2 DEF SpendInv
<1>4. PICK own \in SUBSET Run : /\ own \subseteq HomeRuns(p) /\ NotLate(req, own)
                                /\ BookInv(now, b, LedgerOf(b, disk), run, real, own, Out)
  BY <1>2 DEF SpendInv
<1>5. Out \subseteq E2
  BY <1>1 DEF Out
<1>6. r \in own /\ b.hold[r].share # {} => b.hold[r].key \in E2
  <2> SUFFICES ASSUME r \in own, b.hold[r].share # {} PROVE b.hold[r].key \in E2
    OBVIOUS
  <2>1. ~Charged(q) /\ OwnHold(run[r], b, r)
    BY <1>1, <1>4 DEF NotLate, BookInv
  <2> HIDE DEF b
  <2>2. b.hold[r].key \in Uncovered(q)
    BY <2>1, UncoveredKey DEF b
  <2> QED BY <1>1, <2>2 DEF Out
<1>7. \A x \in Request : req'[x] = "late" => req[x] = "late"
  BY <1>1 DEF Typed
<1> DEFINE own2 == own \ {r}
<1>8. NotLate(req', own2) /\ Waits(req', run) /\ own2 \in SUBSET Run /\ own2 \subseteq HomeRuns(p)
  BY <1>3, <1>4, <1>7 DEF NotLate, Waits
<1> HIDE DEF r, p, b, E2
<1>9. FileInv(now, disk, run, real, E2) /\ BookInv(now, b, LedgerOf(b, disk), run, real, own, E2)
  BY <1>3, <1>4, <1>5, DropChats
<1>10. /\ c \in BookType /\ BookInv(now, c, LedgerOf(c, disk), run, real, own2, E2)
       /\ c.loaded \/ (~b.loaded /\ c.blind = b.blind)
       /\ Unheld(p, c)
  BY <1>2, <1>3, <1>4, <1>6, <1>9, Kinds, ReturnInv
<1>11. Elsewhere(p)
  BY <1>1, <1>2, <1>5, <1>7, SameElsewhere DEF E2
<1> HIDE DEF c, own2
<1>12. /\ RunsShape(now, run') /\ RealInv(now, real') /\ FileInv(now, disk, run', real', Out') /\ Waits(req', run')
       /\ BookInv(now, c, LedgerOf(c, disk), run', real', own2, Out')
  BY <1>1, <1>3, <1>8, <1>9, <1>10 DEF E2
<1> QED BY <1>1, <1>2, <1>8, <1>10, <1>11, <1>12, KeptStep

\* A request that is turned down returns what it counted, or, without a charge, what its run holds
\* (_return_hold).
LEMMA TurnDownKeeps ==
  ASSUME Typed, Typed', SpendInv, NEW q \in Request, TurnDown(q)
  PROVE  SpendInv'
<1> DEFINE r == RunOf[q]
           p == At(q)
           b == Counted(books[p], q)
           c == Returned(b, r)
           file == Saved(q)
           E2 == Out'
<1>1. /\ Passed(q) /\ req' = [req EXCEPT ![q] = "done"] /\ Keep(p, b, c, file)
      /\ \E doubt : Counts(q, doubt)
      /\ now' = now /\ run' = run /\ real' = real /\ apart' = apart \cup Uncovered(q)
  BY DEF TurnDown
<1>2. r \in Run /\ p \in Proc /\ b \in BookType /\ \A i \in Proc \ {p} : books'[i] = books[i]
  BY <1>1, SavedType, Constants, Kinds DEF Keep
<1>3. RunsShape(now, run) /\ RealInv(now, real) /\ FileInv(now, disk, run, real, Out) /\ Waits(req, run)
  BY DEF SpendInv
<1>4. \A x \in Request : req'[x] = "late" => req[x] = "late" /\ x # q
  BY <1>1 DEF Typed
<1>5. /\ Out \subseteq E2 /\ FileInv(now, file, run, real, E2) /\ Unheld(p, b)
      /\ b.loaded \/ file = disk
      /\ \E own \in SUBSET Run :
           /\ own \subseteq HomeRuns(p) /\ BookInv(now, b, LedgerOf(b, disk), run, real, own, E2)
           /\ NotLate(req', own \ {r}) /\ (r \in own /\ b.hold[r].share # {} => b.hold[r].key \in E2)
  <2>1. CASE Charged(q)
    <3>1. Counting(FALSE, run, run', q)
      BY <1>1 DEF Counting
    <3>2. PICK doubt : Counts(q, doubt)
      BY <1>1
    <3>3. /\ b.loaded /\ Saved(q) = b.ledger /\ Unheld(p, b) /\ Out \subseteq Out'
          /\ FileInv(now, b.ledger, run', real, Out')
          /\ \E own \in SUBSET Run :
               /\ own \subseteq HomeRuns(p) /\ BookInv(now, b, b.ledger, run', real, own, Out')
               /\ \A x \in Request : req[x] = "late" /\ Charged(x) => RunOf[x] = r \/ RunOf[x] \notin own
               /\ r \notin own
      BY <1>1, <1>3, <2>1, <3>1, <3>2, ChargedStep
    <3>4. LedgerOf(b, disk) = b.ledger
      BY <3>3 DEF LedgerOf
    <3>5. PICK own \in SUBSET Run :
               /\ own \subseteq HomeRuns(p) /\ BookInv(now, b, b.ledger, run', real, own, Out')
               /\ \A x \in Request : req[x] = "late" /\ Charged(x) => RunOf[x] = r \/ RunOf[x] \notin own
               /\ r \notin own
      BY <3>3
    <3>6. NotLate(req', own \ {r})
      BY <1>4, <3>5 DEF NotLate
    <3> HIDE DEF b, r, p
    <3> QED BY <1>1, <3>3, <3>4, <3>5, <3>6
  <2>2. CASE ~Charged(q)
    <3>1. b = books[p] /\ evicted' = evicted
      BY <1>1, <2>2, NotCounted, CountsEvicted
    <3>2. PICK own \in SUBSET Run : /\ own \subseteq HomeRuns(p) /\ NotLate(req, own)
                                    /\ BookInv(now, b, LedgerOf(b, disk), run, real, own, Out)
      BY <1>2, <3>1 DEF SpendInv
    <3>3. Unheld(p, b)
      BY <1>2, <3>1 DEF SpendInv
    <3>4. Out \subseteq E2 /\ file = disk
      BY <1>1, <3>1 DEF Out, Saved
    <3>5. NotLate(req', own \ {r})
      BY <1>4, <3>2 DEF NotLate
    <3> HIDE DEF b, file
    <3>6. r \in own /\ b.hold[r].share # {} => b.hold[r].key \in E2
      <4> SUFFICES ASSUME r \in own, b.hold[r].share # {} PROVE b.hold[r].key \in E2
        OBVIOUS
      <4>1. OwnHold(run[r], b, r)
        BY <3>2 DEF BookInv
      <4>2. b.hold[r].key \in Uncovered(q)
        BY <2>2, <3>1, <4>1, UncoveredKey
      <4> QED BY <1>1, <4>2 DEF Out
    <3> HIDE DEF r, p, E2
    <3>7. FileInv(now, disk, run, real, E2) /\ BookInv(now, b, LedgerOf(b, disk), run, real, own, E2)
      BY <1>3, <3>2, <3>4, DropChats
    <3> QED BY <3>2, <3>3, <3>4, <3>5, <3>6, <3>7
  <2> QED BY <2>1, <2>2
<1>6. Waits(req', run)
  BY <1>3, <1>4 DEF Waits
<1>7. PICK own \in SUBSET Run :
           /\ own \subseteq HomeRuns(p) /\ BookInv(now, b, LedgerOf(b, disk), run, real, own, E2)
           /\ NotLate(req', own \ {r}) /\ (r \in own /\ b.hold[r].share # {} => b.hold[r].key \in E2)
  BY <1>5
<1> DEFINE own2 == own \ {r}
<1>8. own2 \in SUBSET Run /\ own2 \subseteq HomeRuns(p) /\ NotLate(req', own2)
  BY <1>7
<1> HIDE DEF r, p, b, file, E2
<1>9. /\ c \in BookType /\ BookInv(now, c, LedgerOf(c, disk), run, real, own2, E2)
      /\ c.loaded \/ (~b.loaded /\ c.blind = b.blind)
      /\ Unheld(p, c)
  BY <1>2, <1>3, <1>5, <1>7, Kinds, ReturnInv
<1>10. Elsewhere(p)
  BY <1>1, <1>2, <1>4, <1>5, SameElsewhere DEF E2
<1> HIDE DEF c, own2
<1>11. /\ BookInv(now, c, LedgerOf(c, disk), run', real', own2, Out')
       /\ c.loaded \/ (~b.loaded /\ c.blind = b.blind /\ file = disk)
       /\ RunsShape(now, run') /\ RealInv(now, real') /\ FileInv(now, file, run', real', Out') /\ Waits(req', run')
  BY <1>1, <1>3, <1>5, <1>6, <1>9 DEF E2
<1> QED BY <1>1, <1>2, <1>8, <1>9, <1>10, <1>11, KeptStep

\* A count that could not be saved stays in memory without a hold (_require_spend_approval).
LEMMA UnsavedKeeps ==
  ASSUME Typed, Typed', SpendInv, NEW q \in Request, Unsaved(q)
  PROVE  SpendInv'
<1> DEFINE p == At(q)
           b == books[p]
           o == Opened(b)
           l == LedgerOf(b, disk)
           k0 == KeyOf[q]
           a == Cost(q)
           m == Recorded(l, k0, a)
           c == [o EXCEPT !.ledger = m]
           E2 == Out'
           r == RunOf[q]
<1>1. p \in Proc /\ b \in BookType /\ l \in LedgerType /\ Charged(q) /\ o.ledger = l /\ r \in Run
  BY SavedType, Kinds, LedgerIs, CostNat, Constants DEF Unsaved, Charged
<1>2. /\ Passed(q) /\ books' = [books EXCEPT ![p] = c] /\ req' = [req EXCEPT ![q] = "done"]
      /\ now' = now /\ run' = run /\ real' = real /\ disk' = disk /\ apart' = apart
  BY <1>1 DEF Unsaved
<1>3. k0 \in Key /\ a \in Nat /\ Room(now, l, k0, a)
  BY <1>1, <1>2, Kinds, CostNat, PassedRoom, AllowedRoom
<1>4. m \in LedgerType
  BY <1>1, <1>3, Kinds, RecordedFacts
<1>5. c \in BookType /\ c.loaded /\ c.ledger = m /\ c.hold = b.hold /\ c.called = b.called /\ c.tracked = b.tracked
  <2>1. /\ o \in BookType /\ o.loaded /\ o.hold = b.hold /\ o.called = b.called /\ o.tracked = b.tracked
    BY <1>1, Kinds, OpenedFacts
  <2> HIDE DEF o, m, b
  <2> QED BY <1>4, <2>1 DEF BookType
<1>6. books'[p] = c /\ \A i \in Proc \ {p} : books'[i] = books[i]
  BY <1>1, <1>2, Kinds
<1>7. E2 = Out \cup (ToSet(l.chats) \ ToSet(m.chats))
  <2>1. evicted' = evicted \cup (ToSet(o.ledger.chats) \ ToSet(books'[p].ledger.chats))
    BY DEF Unsaved
  <2>2. evicted' = evicted \cup (ToSet(l.chats) \ ToSet(m.chats))
    BY <1>1, <1>5, <1>6, <2>1
  <2> HIDE DEF l, m
  <2> QED BY <1>2, <2>2 DEF Out
<1>8. RunsShape(now, run) /\ RealInv(now, real) /\ FileInv(now, disk, run, real, Out) /\ Waits(req, run)
  BY DEF SpendInv
<1>9. PICK own \in SUBSET Run : /\ own \subseteq HomeRuns(p) /\ NotLate(req, own)
                                /\ BookInv(now, b, l, run, real, own, Out)
  BY <1>1 DEF SpendInv
<1>17. Unheld(p, c)
  BY <1>1, <1>5 DEF SpendInv, Unheld
<1>18. \A x \in Request : req'[x] = "late" => req[x] = "late"
  BY <1>2 DEF Typed
<1> HIDE DEF p, b, o, l, k0, a, m, c, E2
<1>10. FileInv(now, disk, run, real, E2) /\ BookInv(now, b, l, run, real, own, E2)
  BY <1>7, <1>8, <1>9, DropChats
<1>11. Kept(now, l) /\ Within(now, l, E2) /\ HoldShape(now, b) /\ \A i \in own : OwnHold(run[i], b, i)
  BY <1>10 DEF BookInv
<1>12. Kept(now, m) /\ Within(now, m, E2)
  BY <1>1, <1>3, <1>11, Kinds, RecordedFine DEF m
<1>13. Moved(b, c, l, m, run, run, real, real, own, own, E2, r)
  <2>1. r \in own => OwnHold(run[r], c, r)
    BY <1>5, <1>11 DEF OwnHold
  <2>2. ASSUME NEW k \in Key \ E2, NEW s \in Slots(now, k)
        PROVE  l.count[k][s] - real[k][s] - Wants(run[r], b.hold, own, r, k, s)
                 <= m.count[k][s] - real[k][s] - Wants(run[r], c.hold, own, r, k, s)
    <3>1. l.count[k][s] \in Int /\ m.count[k][s] \in Int /\ real[k][s] \in Int
      BY <1>1, <1>4, Kinds, SlotCounts
    <3>2. m.count[k][s] = l.count[k][s] + (IF k = k0 /\ s = Slot(k0, now) THEN a ELSE 0)
      BY <1>1, <1>3, <1>7, <1>11, Kinds, RecordedCounts DEF m
    <3>3. Wants(run[r], b.hold, own, r, k, s) \in Nat
      BY <1>1, <1>8, Kinds, BookParts, WantsNat DEF RunsShape
    <3> QED BY <1>3, <1>5, <3>1, <3>2, <3>3
  <2>3. b.hold[r].at <= now
    BY <1>1, <1>11 DEF HoldShape
  <2> QED BY <1>5, <1>12, <2>1, <2>2, <2>3 DEF Moved
<1>14. BookInv(now, c, m, run, real, own, E2)
  BY <1>1, <1>4, <1>5, <1>8, <1>10, <1>13, Kinds, MoveInv
<1>15. NotLate(req', own) /\ Waits(req', run)
  BY <1>8, <1>9, <1>18 DEF NotLate, Waits
<1>16. LedgerOf(c, disk') = m
  BY <1>5 DEF LedgerOf
<1>19. Elsewhere(p)
  BY <1>1, <1>2, <1>6, <1>7, <1>18, SameElsewhere DEF E2
<1> QED BY <1>1, <1>2, <1>6, <1>8, <1>9, <1>10, <1>14, <1>15, <1>16, <1>17, <1>19, StepInv DEF E2

-----------------------------------------------------------------------------
(* The task of a run.                                                      *)

\* A run moves on, the books and the file stay what they are.
LEMMA RunStep ==
  ASSUME Typed, Typed', SpendInv, now' = now, disk' = disk, real' = real, Out' = Out, req' = req,
         books' = books, NEW r \in Run, NEW u \in RunType, run' = [run EXCEPT ![r] = u],
         RunShape(u, r), u.phase # "none", u.key = run[r].key, u.at = run[r].at,
         Need(u, r) <= Need(run[r], r),
         \A p \in Proc, own \in SUBSET Run :
           BookInv(now, books[p], LedgerOf(books[p], disk), run, real, own, Out) =>
             \/ r \in own => OwnHold(u, books[p], r)
             \/ r \in own /\ LET h == books[p].hold[r] IN
                  (h.share # {} => h.key = u.key /\ h.at = u.at) /\ Need(u, r) + Charge(r, h.share) <= Need(run[r], r)
  PROVE  SpendInv'
<1> DEFINE p == Home[r]
           b == books[p]
           l == LedgerOf(b, disk)
           ru2 == run'
<1>1. p \in Proc /\ b \in BookType /\ l \in LedgerType /\ b.hold \in [Run -> HoldType]
  BY Constants, Kinds, LedgerIs, BookParts
<1>2. ru2[r] = u /\ (\A i \in Run \ {r} : ru2[i] = run[i]) /\ ru2 \in [Run -> RunType]
  BY RunSet
<1>3. RunsShape(now, run) /\ RealInv(now, real) /\ FileInv(now, disk, run, real, Out) /\ Waits(req, run)
  BY DEF SpendInv
<1> HIDE DEF ru2
<1>4. RunsShape(now, ru2)
  BY <1>2, <1>3 DEF RunsShape
<1>5. Need(u, r) \in Nat /\ Need(run[r], r) \in Nat
  BY <1>3, Kinds, NeedNat DEF RunsShape
<1>6. PICK own \in SUBSET Run : /\ own \subseteq HomeRuns(p) /\ NotLate(req, own)
                                /\ BookInv(now, b, l, run, real, own, Out)
  BY <1>1 DEF SpendInv
<1>7. PICK own2 \in {own, own \ {r}} :
        \/ own2 = own /\ (r \in own => OwnHold(u, b, r))
        \/ r \in own /\ r \notin own2 /\ own2 = own \ {r}
           /\ (b.hold[r].share # {} => b.hold[r].key = u.key /\ b.hold[r].at = u.at)
           /\ Need(u, r) + Charge(r, b.hold[r].share) <= Need(run[r], r)
  <2>1. CASE r \in own => OwnHold(u, b, r)
    BY <2>1
  <2>2. CASE ~(r \in own => OwnHold(u, b, r))
    <3>1. r \in own /\ (b.hold[r].share # {} => b.hold[r].key = u.key /\ b.hold[r].at = u.at)
          /\ Need(u, r) + Charge(r, b.hold[r].share) <= Need(run[r], r)
      BY <1>1, <1>6, <2>2
    <3> QED BY <3>1
  <2> QED BY <2>1, <2>2
<1> HIDE DEF b, l, p
<1>8. Moved(b, b, l, l, run, ru2, real, real, own, own2, Out, r)
  <2>1. HoldShape(now, b) /\ Kept(now, l) /\ Within(now, l, Out)
    BY <1>6 DEF BookInv
  <2>2. b.hold[r].at <= now
    BY <2>1 DEF HoldShape
  <2>3. r \in own2 => OwnHold(ru2[r], b, r)
    BY <1>2, <1>7
  <2>4. ASSUME NEW k \in Key \ Out, NEW s \in Slots(now, k)
        PROVE  l.count[k][s] - real[k][s] - Wants(run[r], b.hold, own, r, k, s)
                 <= l.count[k][s] - real[k][s] - Wants(ru2[r], b.hold, own2, r, k, s)
    <3>1. l.count[k][s] \in Int /\ real[k][s] \in Int
      BY <1>1, Kinds, SlotCounts
    <3>2. /\ Due(b.hold, own, r, k, s) \in Nat /\ Due(b.hold, own2, r, k, s) \in Nat
          /\ Charge(r, b.hold[r].share) \in Nat
      BY <1>1, <1>3, Kinds, BookParts, ChargeNat, WantsNat DEF RunsShape
    <3>3. Wants(ru2[r], b.hold, own2, r, k, s) <= Wants(run[r], b.hold, own, r, k, s)
      <4>1. CASE own2 = own
        BY <1>2, <1>5, <3>2, <4>1 DEF Wants, Needs
      <4>2. CASE own2 # own
        <5>1. r \in own /\ r \notin own2 /\ Need(u, r) + Charge(r, b.hold[r].share) <= Need(run[r], r)
              /\ (b.hold[r].share # {} => b.hold[r].key = u.key /\ b.hold[r].at = u.at)
          BY <1>7, <4>2
        <5>2. Due(b.hold, own, r, k, s) = 0
          BY <5>1 DEF Due
        <5>3. b.hold[r].share = {} => Due(b.hold, own2, r, k, s) = 0
          BY DueNone
        <5>4. Due(b.hold, own2, r, k, s) = IF InSlot(b.hold[r].key, b.hold[r].at, k, s) THEN Charge(r, b.hold[r].share) ELSE 0
          BY <5>1 DEF Due
        <5>5. CASE InSlot(u.key, u.at, k, s)
          <6>1. Due(b.hold, own2, r, k, s) <= Charge(r, b.hold[r].share)
            BY <3>2, <5>4
          <6>2. Needs(ru2[r], r, k, s) = Need(u, r) /\ Needs(run[r], r, k, s) = Need(run[r], r)
            BY <1>2, <5>5 DEF Needs
          <6> QED BY <1>5, <3>2, <5>1, <5>2, <6>1, <6>2 DEF Wants
        <5>6. CASE ~InSlot(u.key, u.at, k, s)
          <6>1. Due(b.hold, own2, r, k, s) = 0
            BY <5>1, <5>3, <5>4, <5>6
          <6>2. Needs(ru2[r], r, k, s) = 0 /\ Needs(run[r], r, k, s) = 0
            BY <1>2, <5>6 DEF Needs
          <6> QED BY <5>2, <6>1, <6>2 DEF Wants
        <5> QED BY <5>5, <5>6
      <4> QED BY <4>1, <4>2
    <3>4. Wants(ru2[r], b.hold, own2, r, k, s) \in Nat /\ Wants(run[r], b.hold, own, r, k, s) \in Nat
      BY <1>1, <1>2, <1>3, Kinds, WantsNat DEF RunsShape
    <3> QED BY <3>1, <3>3, <3>4
  <2>5. \A i \in Run \ {r} : i \in own2 <=> i \in own
    BY <1>7
  <2> QED BY <1>2, <2>1, <2>2, <2>3, <2>4, <2>5 DEF Moved
<1>9. own2 \in SUBSET Run /\ own2 \subseteq own
  BY <1>7
<1>10. BookInv(now, b, l, ru2, real, own2, Out)
  BY <1>1, <1>2, <1>3, <1>4, <1>6, <1>8, <1>9, Kinds, MoveInv
<1>11. FileInv(now, disk, ru2, real, Out)
  <2>1. ASSUME NEW k \in Key \ Out, NEW s \in Slots(now, k)
        PROVE  real[k][s] + Needs(ru2[r], r, k, s) <= real[k][s] + Needs(run[r], r, k, s)
    <3>1. real[k][s] \in Int
      BY <1>1, Kinds, SlotCounts
    <3>2. Needs(ru2[r], r, k, s) <= Needs(run[r], r, k, s) /\ Needs(ru2[r], r, k, s) \in Int /\ Needs(run[r], r, k, s) \in Int
      BY <1>2, <1>5 DEF Needs
    <3> QED BY <3>1, <3>2
  <2> QED BY <1>2, <1>3, <1>4, <2>1, Kinds, MoveFile DEF FileInv
<1>12. NotLate(req, own2) /\ Waits(req, ru2)
  <2>1. \A i \in Run : ru2[i].phase = "none" => run[i].phase = "none"
    BY <1>2
  <2> QED BY <1>3, <1>6, <1>9, <2>1, Constants DEF NotLate, Waits
<1>13. r \in HomeRuns(p) /\ own2 \subseteq HomeRuns(p) /\ Unheld(p, b)
  BY <1>1, <1>6, <1>9 DEF HomeRuns, SpendInv, p, b
<1>14. ASSUME NEW k \in Key \ Out, NEW s \in Slots(now, k)
       PROVE  real[k][s] + Needs(ru2[r], r, k, s) <= real[k][s] + Needs(run[r], r, k, s)
  <2>1. real[k][s] \in Int
    BY <1>1, Kinds, SlotCounts
  <2>2. Needs(ru2[r], r, k, s) <= Needs(run[r], r, k, s) /\ Needs(ru2[r], r, k, s) \in Int /\ Needs(run[r], r, k, s) \in Int
    BY <1>2, <1>5 DEF Needs
  <2> QED BY <2>1, <2>2
<1>15. Elsewhere(p)
  BY <1>1, <1>2, <1>4, <1>13, <1>14, OneElsewhere DEF ru2
<1> QED BY <1>1, <1>3, <1>4, <1>9, <1>10, <1>11, <1>12, <1>13, <1>15, StepInv DEF b, l, ru2

\* A task that begins moves no count (execute).
LEMMA TurnKeeps ==
  ASSUME Typed, Typed', SpendInv, NEW r \in Run, Turn(r)
  PROVE  SpendInv'
<1> DEFINE u == [run[r] EXCEPT !.phase = "live"]
<1>1. /\ run[r].phase = "new" /\ run' = [run EXCEPT ![r] = u]
      /\ now' = now /\ disk' = disk /\ real' = real /\ Out' = Out /\ req' = req /\ books' = books
  BY RunTypes DEF Out, Turn, Typed
<1>2. /\ u \in RunType /\ u.phase = "live" /\ u.nodes = run[r].nodes /\ u.key = run[r].key /\ u.at = run[r].at
      /\ u.pass = run[r].pass /\ u.calls = run[r].calls /\ u.failing = run[r].failing /\ u.ever = run[r].ever
      /\ u.keyless = run[r].keyless
  <2>1. run[r] \in RunType
    BY RunTypes
  <2> QED BY <2>1 DEF RunType
<1>3. RunShape(run[r], r)
  BY DEF SpendInv, RunsShape
<1> HIDE DEF u
<1>4. RunShape(u, r)
  BY <1>1, <1>2, <1>3 DEF RunShape, Going
<1>5. Need(u, r) = Need(run[r], r)
  BY <1>1, <1>2 DEF Need, Left, Going
<1>6. Need(u, r) <= Need(run[r], r)
  BY <1>3, <1>5, RunTypes, NeedNat
<1>7. ASSUME NEW p \in Proc, OwnHold(run[r], books[p], r) PROVE OwnHold(u, books[p], r)
  BY <1>2, <1>7 DEF OwnHold, Going
<1>8. \A p \in Proc, own \in SUBSET Run :
        BookInv(now, books[p], LedgerOf(books[p], disk), run, real, own, Out) => (r \in own => OwnHold(u, books[p], r))
  BY <1>7 DEF BookInv
<1> QED BY <1>1, <1>2, <1>4, <1>6, <1>8, RunStep

\* A task that never ran leaves its hold, which then nobody gives back (cancel_execution).
LEMMA CutKeeps ==
  ASSUME Typed, Typed', SpendInv, NEW r \in Run, Cut(r)
  PROVE  SpendInv'
<1> DEFINE u == [run[r] EXCEPT !.phase = "unborn"]
<1>1. /\ run[r].phase = "new" /\ run' = [run EXCEPT ![r] = u]
      /\ now' = now /\ disk' = disk /\ real' = real /\ Out' = Out /\ req' = req /\ books' = books
  BY RunTypes DEF Out, Cut, Typed
<1>2. /\ u \in RunType /\ u.phase = "unborn" /\ u.nodes = run[r].nodes /\ u.key = run[r].key /\ u.at = run[r].at
      /\ u.pass = run[r].pass /\ u.calls = run[r].calls /\ u.failing = run[r].failing /\ u.ever = run[r].ever
      /\ u.keyless = run[r].keyless
  <2>1. run[r] \in RunType
    BY RunTypes
  <2> QED BY <2>1 DEF RunType
<1>3. RunShape(run[r], r)
  BY DEF SpendInv, RunsShape
<1> HIDE DEF u
<1>4. RunShape(u, r)
  BY <1>1, <1>2, <1>3 DEF RunShape, Going
<1>5. Need(u, r) = 0 /\ Need(run[r], r) \in Nat
  BY <1>2, <1>3, RunTypes, NeedNat, NeedOver DEF Going
<1>6. ASSUME NEW p \in Proc, OwnHold(run[r], books[p], r)
      PROVE  LET h == books[p].hold[r] IN
               (h.share # {} => h.key = u.key /\ h.at = u.at) /\ Need(u, r) + Charge(r, h.share) <= Need(run[r], r)
  <2> DEFINE h == books[p].hold[r]
  <2>1. h.share \in SUBSET Node
    BY Kinds, BookParts
  <2>2. h.share # {} => h.key = u.key /\ h.at = u.at /\ h.share \subseteq run[r].nodes
    BY <1>2, <1>6 DEF OwnHold
  <2>3. run[r].ever = {}
    BY <1>1, <1>3 DEF RunShape
  <2>4. Charge(r, h.share) <= Need(run[r], r) /\ Charge(r, h.share) \in Nat
    BY <1>1, <1>3, <2>1, <2>2, <2>3, RunTypes, ChargeNeed, ChargeNat DEF Going
  <2> QED BY <1>5, <2>2, <2>4
<1>7. \A p \in Proc, own \in SUBSET Run :
        BookInv(now, books[p], LedgerOf(books[p], disk), run, real, own, Out) =>
             \/ r \in own => OwnHold(u, books[p], r)
             \/ r \in own /\ LET h == books[p].hold[r] IN
                  (h.share # {} => h.key = u.key /\ h.at = u.at) /\ Need(u, r) + Charge(r, h.share) <= Need(run[r], r)
  BY <1>6 DEF BookInv
<1>8. u.phase # "none" /\ Need(u, r) <= Need(run[r], r)
  BY <1>2, <1>5
<1> QED BY <1>1, <1>2, <1>4, <1>7, <1>8, RunStep

\* What is left of node n falls by a, what is left of the others does not grow.
LEMMA NeedMove ==
  ASSUME NEW r \in Run, NEW u \in RunType, NEW v \in RunType, RunShape(u, r), RunShape(v, r),
         NEW n \in Node, NEW a \in Nat, Left(v, r, n) + a <= Left(u, r, n),
         \A i \in Node \ {n} : Left(v, r, i) <= Left(u, r, i)
  PROVE  Need(v, r) + a <= Need(u, r) /\ Need(v, r) \in Nat /\ Need(u, r) \in Nat
<1> DEFINE f == [i \in Node |-> Left(u, r, i)]
           g == [i \in Node |-> Left(v, r, i)]
<1>1. \A i \in Node : f[i] \in Nat /\ g[i] \in Nat
  BY LeftNat
<1>2. g[n] + a <= f[n] /\ \A i \in Node \ {n} : g[i] <= f[i]
  OBVIOUS
<1> HIDE DEF f, g
<1>3. Sum(f, Node) = f[n] + Sum(f, Node \ {n}) /\ Sum(g, Node) = g[n] + Sum(g, Node \ {n})
  BY <1>1, Finite, SumOut
<1>4. IsFiniteSet(Node \ {n})
  BY Finite, FS_Subset
<1>5. Sum(g, Node \ {n}) <= Sum(f, Node \ {n})
  BY <1>1, <1>2, <1>4, SumLe
<1>6. Sum(g, Node \ {n}) \in Int /\ Sum(f, Node \ {n}) \in Int
  BY <1>1, <1>4, SumInt
<1>7. Sum(g, Node) + a <= Sum(f, Node)
  BY <1>1, <1>2, <1>3, <1>5, <1>6
<1> QED BY <1>7, NeedNat DEF Need, f, g

\* The next pass has a pass less to pay.
LEMMA NextPassLeft ==
  ASSUME NEW r \in Run, NEW u \in RunType, NEW v \in RunType, RunShape(u, r), u.pass < Passes[r], NEW n \in Node,
         v.phase = u.phase, v.nodes = u.nodes, v.keyless = u.keyless, v.ever = u.ever,
         v.pass = u.pass + 1, v.calls[n] = 0
  PROVE  Left(v, r, n) <= Left(u, r, n)
<1> DEFINE x == Passes[r] - u.pass + 1
<1>1. Price[n] \in Nat /\ Fan[n] \in Nat /\ Passes[r] \in Nat /\ u.pass \in Nat /\ u.calls[n] \in Nat /\ u.calls[n] <= Fan[n]
  BY Constants DEF RunType, RunShape
<1>2. x \in Nat /\ x > 0 /\ Passes[r] - v.pass + 1 = x - 1 /\ x - 1 \in Nat
  BY <1>1
<1> HIDE DEF x
<1>3. /\ Fan[n] <= Fan[n] * x /\ Fan[n] * (x - 1) = Fan[n] * x - Fan[n] /\ Fan[n] * x \in Nat
      /\ Fan[n] * (x - 1) \in Nat
  BY <1>1, <1>2, Products
<1>4. Fan[n] * (x - 1) - v.calls[n] <= Fan[n] * x - u.calls[n] /\ Fan[n] * x - u.calls[n] \in Nat
      /\ Fan[n] * (x - 1) - v.calls[n] \in Nat
  BY <1>1, <1>3
<1>5. Price[n] * (Fan[n] * (x - 1) - v.calls[n]) <= Price[n] * (Fan[n] * x - u.calls[n])
  BY <1>1, <1>4, Products
<1>6. Left(u, r, n) \in Nat
  BY LeftNat
<1>7. CASE n \in u.ever /\ u.phase \in Going /\ n \in u.nodes \ u.keyless
  <2>1. Left(v, r, n) = Price[n] * (Fan[n] * (Passes[r] - v.pass + 1) - v.calls[n])
    BY <1>7 DEF Left
  <2>2. Left(u, r, n) = Price[n] * (Fan[n] * x - u.calls[n])
    BY <1>7 DEF Left, x
  <2> QED BY <1>2, <1>5, <2>1, <2>2
<1>8. CASE ~(n \in u.ever /\ u.phase \in Going /\ n \in u.nodes \ u.keyless)
  <2>1. Left(v, r, n) = Left(u, r, n)
    BY <1>8 DEF Left
  <2> QED BY <1>6, <2>1
<1> QED BY <1>7, <1>8

\* A call has been paid.
LEMMA CallLeft ==
  ASSUME NEW r \in Run, NEW u \in RunType, NEW v \in RunType, RunShape(u, r), RunShape(v, r), NEW n \in Node,
         u.phase \in Going, n \in u.nodes \ u.keyless,
         v.phase = u.phase, v.nodes = u.nodes, v.keyless = u.keyless, n \in v.ever,
         v.pass = u.pass, v.calls[n] = u.calls[n] + 1
  PROVE  Left(v, r, n) + Price[n] <= Left(u, r, n)
<1> DEFINE x == Passes[r] - u.pass + 1
           y == Fan[n] * x - u.calls[n]
<1>1. /\ Price[n] \in Nat /\ Fan[n] \in Nat /\ Passes[r] \in Nat /\ u.pass \in Nat /\ u.calls[n] \in Nat
      /\ u.calls[n] + 1 <= Fan[n] /\ u.pass >= 1 /\ u.pass <= Passes[r]
  BY Constants DEF RunType, RunShape
<1>2. x \in Nat /\ x > 0 /\ x <= Passes[r] /\ Passes[r] - v.pass + 1 = x
  BY <1>1
<1> HIDE DEF x
<1>3. Fan[n] <= Fan[n] * x /\ Fan[n] * x \in Nat /\ Fan[n] * x <= Fan[n] * Passes[r] /\ Fan[n] * Passes[r] \in Nat
  BY <1>1, <1>2, Products
<1>4. y \in Nat /\ y > 0 /\ Fan[n] * x - v.calls[n] = y - 1
  BY <1>1, <1>3
<1> HIDE DEF y
<1>5. Price[n] * (y - 1) = Price[n] * y - Price[n] /\ Price[n] * y \in Nat
  BY <1>1, <1>4, Products
<1>6. Left(v, r, n) = Price[n] * (y - 1)
  <2>1. Left(v, r, n) = Price[n] * (Fan[n] * (Passes[r] - v.pass + 1) - v.calls[n])
    BY DEF Left
  <2> QED BY <1>2, <1>4, <2>1
<1>7. Price[n] * y <= Left(u, r, n)
  <2>1. CASE n \in u.ever
    BY <1>5, <2>1 DEF Left, x, y
  <2>2. CASE n \notin u.ever
    <3>1. u.calls[n] = 0
      BY <2>2 DEF RunShape
    <3>2. y <= Fan[n] * Passes[r]
      BY <1>3, <3>1 DEF y
    <3>3. Price[n] * y <= Price[n] * (Fan[n] * Passes[r])
      BY <1>1, <1>3, <1>4, <3>2, Products
    <3>4. Price[n] * (Fan[n] * Passes[r]) = Share(r, n)
      <4>1. \A a, b, c \in Nat : a * (b * c) = a * b * c
        OBVIOUS
      <4> QED BY <1>1, <4>1 DEF Share
    <3>5. Left(u, r, n) = Share(r, n)
      BY <2>2 DEF Left
    <3> QED BY <3>3, <3>4, <3>5
  <2> QED BY <2>1, <2>2
<1> QED BY <1>1, <1>5, <1>6, <1>7, LeftNat

\* The next pass of a shot may cost what its first left, and no more (execute_shot).
LEMMA NextPassKeeps ==
  ASSUME Typed, Typed', SpendInv, NEW r \in Run, NextPass(r)
  PROVE  SpendInv'
<1> DEFINE z == [n \in Node |-> 0]
           m == run[r].pass + 1
           u == [run[r] EXCEPT !.pass = m, !.calls = z, !.failing = {}]
<1>1. /\ run[r].phase = "live" /\ run[r].pass < Passes[r] /\ run' = [run EXCEPT ![r] = u]
      /\ now' = now /\ disk' = disk /\ real' = real /\ Out' = Out /\ req' = req /\ books' = books
  BY RunTypes DEF Out, NextPass, Typed
<1>2. /\ u \in RunType /\ u.phase = run[r].phase /\ u.nodes = run[r].nodes /\ u.key = run[r].key /\ u.at = run[r].at
      /\ u.pass = m /\ u.calls = z /\ u.failing = {} /\ u.ever = run[r].ever /\ u.keyless = run[r].keyless
      /\ m \in Nat /\ \A n \in Node : z[n] = 0
  <2>1. run[r] \in RunType /\ m \in Nat /\ z \in [Node -> Nat] /\ \A n \in Node : z[n] = 0
    BY RunTypes
  <2> HIDE DEF z, m
  <2> QED BY <2>1 DEF RunType
<1>3. RunShape(run[r], r) /\ run[r] \in RunType /\ run[r].pass \in Nat
  BY RunTypes DEF SpendInv, RunsShape
<1> HIDE DEF u, z
<1>4. RunShape(u, r)
  <2>1. m > 1 /\ m <= Passes[r]
    BY <1>1, <1>3, Constants DEF RunShape
  <2>2. \A n \in Node : Fan[n] >= 0
    BY Constants
  <2> HIDE DEF m
  <2> QED BY <1>1, <1>2, <1>3, <2>1, <2>2, Constants DEF RunShape
<1>5. \A n \in Node : Left(u, r, n) <= Left(run[r], r, n)
  BY <1>1, <1>2, <1>3, NextPassLeft
<1>6. Need(u, r) <= Need(run[r], r)
  <2> DEFINE f == [n \in Node |-> Left(run[r], r, n)]
             g == [n \in Node |-> Left(u, r, n)]
  <2>1. \A n \in Node : f[n] \in Nat /\ g[n] \in Nat /\ g[n] <= f[n]
    BY <1>2, <1>3, <1>4, <1>5, LeftNat
  <2> HIDE DEF f, g
  <2>2. Sum(g, Node) <= Sum(f, Node)
    BY <2>1, Finite, SumLe
  <2> QED BY <2>2 DEF Need, f, g
<1>7. ASSUME NEW p \in Proc, OwnHold(run[r], books[p], r) PROVE OwnHold(u, books[p], r)
  BY <1>2, <1>7 DEF OwnHold
<1>8. \A p \in Proc, own \in SUBSET Run :
        BookInv(now, books[p], LedgerOf(books[p], disk), run, real, own, Out) => (r \in own => OwnHold(u, books[p], r))
  BY <1>7 DEF BookInv
<1>9. u.phase # "none"
  BY <1>1, <1>2
<1> QED BY <1>1, <1>2, <1>4, <1>6, <1>8, <1>9, RunStep

\* A node of run r is called: the state of the run afterwards.
LEMMA CalledRun ==
  ASSUME Typed, SpendInv, NEW r \in Run, NEW n \in Node, Callable(r, n), NEW F \in SUBSET Node, NEW K \in SUBSET Node,
         run[r].failing \subseteq F, run[r].keyless \subseteq K, K \subseteq run[r].keyless \cup {n}
  PROVE  LET u == [run[r] EXCEPT !.calls[n] = @ + 1, !.failing = F, !.ever = @ \cup {n}, !.keyless = K] IN
         /\ u \in RunType /\ RunShape(u, r) /\ u.phase = "live" /\ u.nodes = run[r].nodes
         /\ u.key = run[r].key /\ u.at = run[r].at /\ u.pass = run[r].pass
         /\ u.keyless = K /\ u.ever = run[r].ever \cup {n} /\ u.calls[n] = run[r].calls[n] + 1
         /\ \A i \in Node \ {n} : Left(u, r, i) <= Left(run[r], r, i)
         /\ run[r].phase = "live" /\ RunShape(run[r], r) /\ run[r] \in RunType /\ n \in run[r].nodes
<1> DEFINE c == [run[r].calls EXCEPT ![n] = @ + 1]
           u == [run[r] EXCEPT !.calls = c, !.failing = F, !.ever = @ \cup {n}, !.keyless = K]
<1>1. u = [run[r] EXCEPT !.calls[n] = @ + 1, !.failing = F, !.ever = @ \cup {n}, !.keyless = K]
  OBVIOUS
<1>2. /\ run[r].phase = "live" /\ RunShape(run[r], r) /\ run[r] \in RunType /\ n \in run[r].nodes
      /\ run[r].calls \in [Node -> Nat] /\ run[r].calls[n] < Fan[n]
  BY RunTypes DEF SpendInv, RunsShape, Callable
<1>3. c \in [Node -> Nat] /\ c[n] = run[r].calls[n] + 1 /\ \A i \in Node \ {n} : c[i] = run[r].calls[i]
  BY <1>2
<1> HIDE DEF c
<1>4. /\ u \in RunType /\ u.phase = "live" /\ u.nodes = run[r].nodes
      /\ u.key = run[r].key /\ u.at = run[r].at /\ u.pass = run[r].pass
      /\ u.keyless = K /\ u.ever = run[r].ever \cup {n} /\ u.calls = c /\ u.failing = F
  BY <1>2, <1>3 DEF RunType
<1> HIDE DEF u
<1>5. \A i \in Node : c[i] <= Fan[i] /\ (i \notin u.ever => c[i] = 0) /\ (run[r].calls[i] > 0 \/ i = n => c[i] > 0)
  <2>1. \A i \in Node : run[r].calls[i] \in Nat /\ Fan[i] \in Nat
    BY <1>2, Constants
  <2> QED BY <1>2, <1>3, <1>4, <2>1 DEF RunShape
<1>6. RunShape(u, r)
  <2>1. /\ u.pass >= 1 /\ u.pass <= Passes[r] /\ u.keyless \subseteq u.ever /\ u.ever \subseteq u.nodes
    BY <1>2, <1>4 DEF RunShape
  <2>2. u.pass = 1 => \A i \in u.ever : u.calls[i] > 0
    <3> SUFFICES ASSUME u.pass = 1, NEW i \in u.ever PROVE u.calls[i] > 0
      OBVIOUS
    <3>1. i \in Node /\ (i = n \/ run[r].calls[i] > 0)
      BY <1>2, <1>4, RunTypes DEF RunShape
    <3> QED BY <1>4, <1>5, <3>1
  <2> QED BY <1>4, <1>5, <2>1, <2>2 DEF RunShape
<1>7. ASSUME NEW i \in Node \ {n} PROVE Left(u, r, i) <= Left(run[r], r, i)
  <2>1. Left(u, r, i) = Left(run[r], r, i)
    BY <1>2, <1>3, <1>4 DEF Left, Going
  <2> QED BY <1>2, <2>1, LeftNat
<1> QED BY <1>1, <1>2, <1>3, <1>4, <1>6, <1>7

\* A call spends what its run may still cost (run_invocation).
LEMMA CallKeeps ==
  ASSUME Typed, Typed', SpendInv, NEW r \in Run, NEW n \in Node, Call(r, n)
  PROVE  SpendInv'
<1> DEFINE F == run[r].failing
           K == run[r].keyless
           u == [run[r] EXCEPT !.calls[n] = @ + 1, !.failing = F, !.ever = @ \cup {n}, !.keyless = K]
           p == Home[r]
           b == books[p]
           c == Marked(b, r, n)
           l == LedgerOf(b, disk)
           ru2 == run'
           re2 == real'
           k0 == run[r].key
           s0 == Slot(k0, run[r].at)
           E2 == Out'
<1>1. /\ Callable(r, n) /\ apart' = apart \cup (IF n \in run[r].keyless THEN KeysOf(r) ELSE {})
      /\ books' = [books EXCEPT ![p] = c]
      /\ now' = now /\ disk' = disk /\ evicted' = evicted /\ req' = req
      /\ re2 = IF k0 = Person THEN real ELSE [real EXCEPT ![k0][s0] = @ + Price[n]]
  BY DEF Call
<1>2. run' = [run EXCEPT ![r] = u]
  <2>1. run[r] \in RunType /\ run \in [Run -> RunType]
    BY RunTypes, Kinds
  <2>2. run[r] = [run[r] EXCEPT !.failing = F, !.keyless = K]
    BY <2>1 DEF RunType
  <2>3. [run EXCEPT ![r].calls[n] = @ + 1, ![r].ever = @ \cup {n}] = [run EXCEPT ![r] = u]
    BY <2>1 DEF RunType
  <2> QED BY <2>3 DEF Call
<1>3. RunsShape(now, run) /\ RealInv(now, real) /\ FileInv(now, disk, run, real, Out) /\ Waits(req, run)
  BY DEF SpendInv
<1>4. /\ u \in RunType /\ RunShape(u, r) /\ u.phase = "live" /\ u.nodes = run[r].nodes
      /\ u.key = run[r].key /\ u.at = run[r].at /\ u.pass = run[r].pass
      /\ u.keyless = K /\ u.ever = run[r].ever \cup {n} /\ u.calls[n] = run[r].calls[n] + 1
      /\ \A i \in Node \ {n} : Left(u, r, i) <= Left(run[r], r, i)
      /\ run[r].phase = "live" /\ RunShape(run[r], r) /\ run[r] \in RunType /\ n \in run[r].nodes
  <2>1. F \in SUBSET Node /\ K \in SUBSET Node
    BY <1>3, RunTypes DEF RunsShape, RunShape
  <2> HIDE DEF F, K
  <2>2. run[r].failing \subseteq F /\ run[r].keyless \subseteq K /\ K \subseteq run[r].keyless \cup {n}
    BY DEF F, K
  <2> QED BY <1>1, <2>1, <2>2, CalledRun
<1>5. Out \subseteq E2 /\ (n \in run[r].keyless => KeysOf(r) \subseteq E2)
  BY <1>1 DEF Out
<1> HIDE DEF u
<1>6. ru2[r] = u /\ (\A i \in Run \ {r} : ru2[i] = run[i]) /\ ru2 \in [Run -> RunType]
  BY <1>2, <1>4, RunSet
<1> HIDE DEF ru2
<1>7. RunsShape(now, ru2)
  BY <1>3, <1>4, <1>6 DEF RunsShape
<1>8. /\ Price[n] \in Nat /\ Need(u, r) \in Nat /\ Need(run[r], r) \in Nat
      /\ n \notin run[r].keyless => Need(u, r) + Price[n] <= Need(run[r], r)
  <2>1. CASE n \notin run[r].keyless
    <3>1. Left(u, r, n) + Price[n] <= Left(run[r], r, n)
      BY <1>4, <2>1, CallLeft DEF Going
    <3> QED BY <1>4, <3>1, Constants, NeedMove
  <2>2. CASE n \in run[r].keyless
    BY <1>4, <2>2, Constants, NeedNat
  <2> QED BY <2>1, <2>2
<1>9. p \in Proc /\ b \in BookType /\ l \in LedgerType /\ b.hold \in [Run -> HoldType]
  BY Constants, Kinds, LedgerIs, BookParts
<1>10. /\ c \in BookType /\ c.loaded = b.loaded /\ c.blind = b.blind /\ c.ledger = b.ledger /\ c.hold = b.hold /\ c.tracked = b.tracked
       /\ \A i \in Run \ {r} : c.called[i] = b.called[i]
       /\ b.called[r] \subseteq c.called[r] /\ (r \in b.tracked => n \in c.called[r])
  BY <1>9, MarkedFacts
<1>11. books'[p] = c /\ LedgerOf(c, disk) = l
  BY <1>1, <1>9, <1>10, Kinds DEF LedgerOf
<1>12. PICK own \in SUBSET Run : /\ own \subseteq HomeRuns(p) /\ NotLate(req, own)
                                 /\ BookInv(now, b, l, run, real, own, Out)
  BY <1>9 DEF SpendInv
<1>21. Unheld(p, c) /\ r \in HomeRuns(p)
  BY <1>9, <1>10 DEF SpendInv, Unheld, HomeRuns
<1>22. \A i \in Proc \ {p} : books'[i] = books[i]
  BY <1>1, <1>9, Kinds
<1> HIDE DEF p, b, c, l, re2, E2
<1>23. FileInv(now, disk, run, real, E2) /\ BookInv(now, b, l, run, real, own, E2)
  BY <1>3, <1>5, <1>12, DropChats
<1>13. ASSUME NEW k \in Key, NEW s \in Time
       PROVE  /\ real[k][s] \in Nat /\ re2[k][s] \in Nat
              /\ re2[k][s] = real[k][s] + (IF InSlot(u.key, u.at, k, s) THEN Price[n] ELSE 0)
  <2>1. InSlot(u.key, u.at, k, s) <=> k = k0 /\ s = s0
    BY <1>4 DEF InSlot
  <2>2. real \in [Key -> [Time -> Nat]] /\ k # Person
    BY Kinds, Constants
  <2>3. CASE k0 = Person
    BY <1>1, <2>1, <2>2, <2>3
  <2>4. CASE k0 # Person
    <3>1. k0 \in Key /\ s0 \in Time
      BY <2>4, RunTypes, Constants DEF Slot, Time
    <3> HIDE DEF k0, s0
    <3>2. re2[k][s] = real[k][s] + (IF k = k0 /\ s = s0 THEN Price[n] ELSE 0)
      BY <1>1, <2>2, <2>4, <3>1
    <3> QED BY <1>8, <2>1, <2>2, <3>2
  <2> QED BY <2>3, <2>4
<1>14. re2 \in [Key -> [Time -> Nat]]
  BY Kinds DEF re2
<1>15. ASSUME NEW k \in Key \ E2, NEW s \in Time
       PROVE  /\ Needs(u, r, k, s) \in Nat /\ Needs(run[r], r, k, s) \in Nat
              /\ re2[k][s] + Needs(u, r, k, s) <= real[k][s] + Needs(run[r], r, k, s)
  <2>1. n \in run[r].keyless => ~InSlot(u.key, u.at, k, s)
    BY <1>4, <1>5 DEF InSlot, KeysOf
  <2> QED BY <1>4, <1>8, <1>13, <2>1 DEF Needs
<1>16. Moved(b, c, l, l, run, ru2, real, re2, own, own, E2, r)
  <2>1. HoldShape(now, b) /\ Kept(now, l) /\ Within(now, l, E2) /\ \A i \in own : OwnHold(run[i], b, i)
    BY <1>23 DEF BookInv
  <2>2. b.hold[r].at <= now
    BY <2>1 DEF HoldShape
  <2>3. r \in own => OwnHold(ru2[r], c, r)
    BY <1>4, <1>6, <1>10, <2>1 DEF OwnHold, Going
  <2>4. ASSUME NEW k \in Key \ E2, NEW s \in Slots(now, k)
        PROVE  l.count[k][s] - real[k][s] - Wants(run[r], b.hold, own, r, k, s)
                 <= l.count[k][s] - re2[k][s] - Wants(ru2[r], c.hold, own, r, k, s)
    <3>1. l.count[k][s] \in Int /\ s \in Time
      BY <1>9, Kinds, SlotCounts
    <3>2. Due(b.hold, own, r, k, s) \in Nat
      BY <1>4, <1>9, WantsNat
    <3> QED BY <1>6, <1>10, <1>13, <1>15, <3>1, <3>2 DEF Wants
  <2> QED BY <1>6, <1>10, <2>1, <2>2, <2>3, <2>4 DEF Moved
<1>17. BookInv(now, c, l, ru2, re2, own, E2)
  BY <1>3, <1>6, <1>7, <1>9, <1>10, <1>14, <1>16, <1>23, Kinds, MoveInv
<1>18. FileInv(now, disk, ru2, re2, E2)
  <2>1. ASSUME NEW k \in Key \ E2, NEW s \in Slots(now, k)
        PROVE  re2[k][s] + Needs(ru2[r], r, k, s) <= real[k][s] + Needs(run[r], r, k, s)
    <3>1. s \in Time
      BY Kinds, SlotsFacts
    <3> QED BY <1>6, <1>15, <3>1
  <2> QED BY <1>3, <1>6, <1>7, <1>14, <1>23, <2>1, Kinds, MoveFile DEF FileInv
<1>19. Waits(req, ru2)
  <2>1. \A i \in Run : ru2[i].phase = "none" => run[i].phase = "none"
    BY <1>4, <1>6
  <2> QED BY <1>3, <2>1, Constants DEF Waits
<1>20. RealInv(now, re2)
  <2> SUFFICES ASSUME NEW k \in Outside, NEW t \in Time, t > now PROVE re2[k][t] = 0
    BY DEF RealInv
  <2>1. real[k][t] = 0 /\ k \in Key /\ k \notin Chat
    BY <1>3, Constants DEF RealInv
  <2>2. u.at <= now /\ u.at \in Time /\ \A i \in Time : i \in Int
    BY <1>3, <1>4, Constants DEF RunsShape, RunType, Time
  <2>3. ~InSlot(u.key, u.at, k, t)
    BY <2>1, <2>2, Kinds DEF InSlot, Slot
  <2> QED BY <1>13, <2>1, <2>3
<1>24. Elsewhere(p)
  <2>1. ASSUME NEW k \in Key \ E2, NEW s \in Slots(now, k)
        PROVE  re2[k][s] + Needs(ru2[r], r, k, s) <= real[k][s] + Needs(run[r], r, k, s)
    <3>1. s \in Time
      BY Kinds, SlotsFacts
    <3> QED BY <1>6, <1>15, <3>1
  <2> QED BY <1>1, <1>5, <1>6, <1>7, <1>9, <1>21, <1>22, <2>1, OneElsewhere DEF ru2, re2, E2
<1> QED BY <1>1, <1>7, <1>9, <1>11, <1>12, <1>17, <1>18, <1>19, <1>20, <1>21, <1>24, StepInv DEF ru2, re2, E2

\* The charge of one node is its share.
LEMMA ChargeOne ==
  ASSUME NEW r \in Run, NEW n \in Node
  PROVE  Charge(r, {n}) = Share(r, n)
<1> DEFINE f == [i \in {n} |-> Share(r, i)]
<1>1. f[n] = Share(r, n) /\ f[n] \in Int /\ \A i \in {n} : f[i] \in Int
  BY ShareNat
<1>2. IsFiniteSet({n}) /\ {n} \ {n} = {}
  BY ChargeNat
<1>3. Charge(r, {n}) = Sum(f, {n})
  BY DEF Charge
<1> HIDE DEF f
<1>4. Sum(f, {n}) = f[n] + Sum(f, {n} \ {n})
  BY <1>1, <1>2, SumOut
<1>5. Sum(f, {n} \ {n}) = 0
  BY <1>2, FS_EmptySet, SumStep
<1> QED BY <1>1, <1>3, <1>4, <1>5

\* What a missing credential leaves of the books b of run r: of its hold, the
\* part T is given back.
LessHold(b, c, l, m, r, n, T) ==
  LET h == b.hold[r] IN
  /\ T \in SUBSET h.share
  /\ c.hold[r].key = h.key /\ c.hold[r].at = h.at /\ c.hold[r].share = h.share \ T
  /\ \A i \in Run \ {r} :
       c.hold[i] = b.hold[i] /\ c.called[i] = b.called[i] /\ (i \in c.tracked <=> i \in b.tracked)
  /\ (r \in c.tracked <=> r \in b.tracked) /\ b.called[r] \subseteq c.called[r]
  /\ r \in b.tracked => n \in c.called[r]
  /\ m = (IF T = {} THEN l ELSE Refunded(l, h.key, Charge(r, T), h.at))

\* A marked call gives nothing back.
LEMMA MarkedLess ==
  ASSUME now \in Time, disk \in LedgerType, NEW b \in BookType, NEW r \in Run, NEW n \in Node
  PROVE  LET c == Marked(b, r, n) IN
         /\ c \in BookType /\ c.loaded = b.loaded /\ c.blind = b.blind /\ LedgerOf(c, disk) = LedgerOf(b, disk)
         /\ LessHold(b, c, LedgerOf(b, disk), LedgerOf(c, disk), r, n, {})
<1> DEFINE c == Marked(b, r, n)
<1>1. /\ c \in BookType /\ c.loaded = b.loaded /\ c.blind = b.blind /\ c.ledger = b.ledger /\ c.hold = b.hold
      /\ c.tracked = b.tracked
      /\ \A i \in Run \ {r} : c.called[i] = b.called[i]
      /\ b.called[r] \subseteq c.called[r] /\ (r \in b.tracked => n \in c.called[r])
  BY MarkedFacts
<1> HIDE DEF c
<1>2. LedgerOf(c, disk) = LedgerOf(b, disk)
  BY <1>1 DEF LedgerOf
<1> QED BY <1>1, <1>2 DEF LessHold, c

\* A node without a credential gives back its own share of the hold and no other
\* (_release_unspent_hold).
LEMMA MarkedBack ==
  ASSUME now \in Time, disk \in LedgerType, NEW b \in BookType, NEW r \in Run, NEW n \in Node
  PROVE  LET c == GivenBack(Marked(b, r, n), r, {n}) IN
         /\ c \in BookType /\ (c.loaded \/ (~b.loaded /\ c.blind = b.blind))
         /\ LessHold(b, c, LedgerOf(b, disk), LedgerOf(c, disk), r, n, b.hold[r].share \cap {n})
<1> DEFINE k == Marked(b, r, n)
           c == GivenBack(k, r, {n})
           T == b.hold[r].share \cap {n}
           l == LedgerOf(b, disk)
<1>1. /\ k \in BookType /\ k.loaded = b.loaded /\ k.blind = b.blind /\ k.ledger = b.ledger /\ k.hold = b.hold
      /\ k.tracked = b.tracked
      /\ \A i \in Run \ {r} : k.called[i] = b.called[i]
      /\ b.called[r] \subseteq k.called[r] /\ (r \in b.tracked => n \in k.called[r])
  BY MarkedFacts
<1> HIDE DEF k
<1>2. /\ c \in BookType /\ c.called = k.called /\ c.tracked = k.tracked
      /\ c.hold = [k.hold EXCEPT ![r].share = @ \ {n}]
      /\ k.hold[r].share \cap {n} = {} => c = k
      /\ k.hold[r].share \cap {n} # {} =>
           c.loaded /\ c.ledger = Refunded(Opened(k).ledger, k.hold[r].key, Charge(r, k.hold[r].share \cap {n}), k.hold[r].at)
  <2> DEFINE S == {n}
             d == GivenBack(k, r, S)
             h == k.hold[r]
  <2>1. S \in SUBSET Node
    OBVIOUS
  <2>2. d = c
    OBVIOUS
  <2> HIDE DEF S
  <2>3. /\ d \in BookType /\ d.order = k.order /\ d.called = k.called /\ d.tracked = k.tracked
        /\ d.doubted = k.doubted
        /\ d.hold = [k.hold EXCEPT ![r].share = @ \ S]
        /\ h.share \cap S = {} => d = k
        /\ h.share \cap S # {} =>
             d.loaded /\ d.ledger = Refunded(Opened(k).ledger, h.key, Charge(r, h.share \cap S), h.at)
    BY <1>1, <2>1, GivenBackFacts, ZenonT(30)
  <2> HIDE DEF d, h, c
  <2>4. S = {n} /\ h = k.hold[r]
    BY DEF S, h
  <2> QED BY <2>2, <2>3, <2>4
<1> HIDE DEF c
<1>3. Opened(k).ledger = l
  BY <1>1, LedgerIs DEF LedgerOf
<1>4. b.hold \in [Run -> HoldType] /\ b.hold[r] \in HoldType
  BY BookParts
<1>5. /\ c.hold[r].key = b.hold[r].key /\ c.hold[r].at = b.hold[r].at /\ c.hold[r].share = b.hold[r].share \ T
      /\ \A i \in Run \ {r} : c.hold[i] = b.hold[i]
  BY <1>1, <1>2, <1>4 DEF HoldType
<1>6. LedgerOf(c, disk) = IF T = {} THEN l ELSE Refunded(l, b.hold[r].key, Charge(r, T), b.hold[r].at)
  <2>1. CASE T = {}
    BY <1>1, <1>2, <2>1 DEF LedgerOf
  <2>2. CASE T # {}
    <3>1. c.loaded /\ c.ledger = Refunded(l, b.hold[r].key, Charge(r, T), b.hold[r].at)
      BY <1>1, <1>2, <1>3, <2>2
    <3> QED BY <2>2, <3>1 DEF LedgerOf
  <2> QED BY <2>1, <2>2
<1>7. c.loaded \/ (~b.loaded /\ c.blind = b.blind)
  BY <1>1, <1>2, BookParts
<1>8. LessHold(b, c, l, LedgerOf(c, disk), r, n, T)
  <2> HIDE DEF l
  <2> QED BY <1>1, <1>2, <1>5, <1>6 DEF LessHold
<1> QED BY <1>2, <1>7, <1>8 DEF c, k

\* A missing credential of node n of run r: its hold and what it may still
\* cost lose as much.
LEMMA MissInv ==
  ASSUME Typed, SpendInv, NEW r \in Run, NEW n \in Node, NEW b \in BookType, NEW c \in BookType,
         NEW l \in LedgerType, NEW m, NEW T \in SUBSET {n}, LessHold(b, c, l, m, r, n, T),
         NEW own \in SUBSET Run, NEW E, BookInv(now, b, l, run, real, own, E),
         NEW u \in RunType, RunShape(u, r), u.phase = "live", run[r].phase = "live",
         u.nodes = run[r].nodes, u.key = run[r].key, u.at = run[r].at, u.ever = run[r].ever \cup {n},
         u.keyless \subseteq run[r].keyless \cup {n}, n \in u.keyless => n \in T \cup run[r].keyless \/ n \notin b.hold[r].share,
         NEW ru2 \in [Run -> RunType], RunsShape(now, ru2), ru2[r] = u, \A i \in Run \ {r} : ru2[i] = run[i],
         Need(u, r) <= Need(run[r], r), r \in own /\ T # {} => Need(u, r) + Charge(r, T) <= Need(run[r], r) \/ u.key \in E
  PROVE  BookInv(now, c, m, ru2, real, own, E)
<1> DEFINE h == b.hold[r]
<1>1. /\ HoldShape(now, b) /\ Kept(now, l) /\ Within(now, l, E) /\ \A i \in own : OwnHold(run[i], b, i)
      /\ RunsShape(now, run) /\ RunShape(run[r], r) /\ run[r] \in RunType
  BY RunTypes DEF BookInv, SpendInv, RunsShape
<1>2. h \in HoldType /\ h.at <= now /\ h.share \in SUBSET Node /\ b.hold \in [Run -> HoldType]
      /\ c.hold \in [Run -> HoldType] /\ T \in SUBSET h.share /\ T \in SUBSET Node
  BY <1>1, BookParts DEF HoldShape, LessHold
<1>3. /\ m \in LedgerType
      /\ Kept(now, l) /\ Within(now, l, E) /\ h.at <= now => Kept(now, m) /\ Within(now, m, E)
      /\ \A k \in Key : \A s \in Slots(now, k) :
           m.count[k][s] >= l.count[k][s] - (IF InSlot(h.key, h.at, k, s) THEN Charge(r, T) ELSE 0)
  <2>1. m = IF T = {} THEN l ELSE Refunded(l, h.key, Charge(r, T), h.at)
    BY DEF LessHold
  <2>2. now \in Time
    BY DEF Typed
  <2> HIDE DEF h
  <2> DEFINE t == T
             x == h
  <2>3. x \in HoldType /\ t \in SUBSET x.share /\ m = IF t = {} THEN l ELSE Refunded(l, x.key, Charge(r, t), x.at)
    BY <1>2, <2>1
  <2> HIDE DEF t, x
  <2>4. /\ m \in LedgerType
        /\ Kept(now, l) /\ Within(now, l, E) /\ x.at <= now => Kept(now, m) /\ Within(now, m, E)
        /\ \A k \in Key : \A s \in Slots(now, k) :
             m.count[k][s] >= l.count[k][s] - (IF InSlot(x.key, x.at, k, s) THEN Charge(r, t) ELSE 0)
    BY <2>2, <2>3, BackLedger
  <2> QED BY <2>4 DEF t, x
<1>4. /\ c.hold[r].key = h.key /\ c.hold[r].at = h.at /\ c.hold[r].share = h.share \ T
      /\ (r \in c.tracked <=> r \in b.tracked) /\ b.called[r] \subseteq c.called[r]
      /\ r \in b.tracked => n \in c.called[r]
      /\ \A i \in Run \ {r} :
           c.hold[i] = b.hold[i] /\ c.called[i] = b.called[i] /\ (i \in c.tracked <=> i \in b.tracked)
  BY DEF LessHold
<1>5. r \in own => OwnHold(u, c, r)
  <2> SUFFICES ASSUME r \in own PROVE OwnHold(u, c, r)
    OBVIOUS
  <2>1. OwnHold(run[r], b, r)
    BY <1>1
  <2>2. ASSUME c.hold[r].share # {}
        PROVE  /\ h.key = u.key /\ h.at = u.at /\ h.share \ T \subseteq u.nodes \ u.keyless
               /\ r \in b.tracked => u.ever \subseteq c.called[r]
    <3>1. h.share # {}
      BY <1>4, <2>2
    <3>2. /\ h.key = u.key /\ h.at = u.at /\ h.share \subseteq u.nodes \ run[r].keyless
          /\ r \in b.tracked => run[r].ever \subseteq b.called[r]
      BY <2>1, <3>1 DEF OwnHold
    <3> QED BY <1>4, <3>2
  <2> QED BY <1>4, <2>1, <2>2 DEF OwnHold, Going
<1>6. Need(u, r) \in Nat /\ Need(run[r], r) \in Nat /\ Charge(r, T) \in Nat /\ Charge(r, h.share \ T) \in Nat
      /\ Charge(r, h.share) = Charge(r, T) + Charge(r, h.share \ T)
  <2>1. h.share \cap T = T /\ h.share \ T \in SUBSET Node
    BY <1>2
  <2> HIDE DEF h
  <2>2. Charge(r, h.share) = Charge(r, h.share \cap T) + Charge(r, h.share \ T)
    BY <1>2, ChargeSplit
  <2> QED BY <1>1, <1>2, <2>1, <2>2, ChargeNat, NeedNat
<1> HIDE DEF h
<1>7. Moved(b, c, l, m, run, ru2, real, real, own, own, E, r)
  <2>1. ASSUME NEW k \in Key \ E, NEW s \in Slots(now, k)
        PROVE  l.count[k][s] - real[k][s] - Wants(run[r], b.hold, own, r, k, s)
                 <= m.count[k][s] - real[k][s] - Wants(ru2[r], c.hold, own, r, k, s)
    <3>1. l.count[k][s] \in Int /\ m.count[k][s] \in Int /\ real[k][s] \in Int
      BY <1>3, SlotCounts DEF Typed
    <3> DEFINE a == IF InSlot(h.key, h.at, k, s) THEN Charge(r, T) ELSE 0
    <3>2. m.count[k][s] >= l.count[k][s] - a /\ a \in Nat
      BY <1>3, <1>6
    <3>3. Needs(run[r], r, k, s) \in Nat /\ Needs(u, r, k, s) \in Nat /\ Needs(u, r, k, s) <= Needs(run[r], r, k, s)
      BY <1>6 DEF Needs
    <3>4. CASE r \in own
      <4>1. Due(b.hold, own, r, k, s) = 0 /\ Due(c.hold, own, r, k, s) = 0
        BY <3>4 DEF Due
      <4>2. Needs(u, r, k, s) + a <= Needs(run[r], r, k, s)
        <5>1. CASE T = {}
          <6>1. a = 0
            BY <5>1, ChargeNone
          <6> QED BY <3>3, <6>1
        <5>2. CASE T # {}
          <6>1. h.key = u.key /\ h.at = u.at
            BY <1>1, <1>2, <3>4, <5>2 DEF OwnHold, h
          <6>2. CASE Need(u, r) + Charge(r, T) <= Need(run[r], r)
            BY <1>6, <6>1, <6>2 DEF Needs
          <6>3. CASE u.key \in E
            <7>1. a = 0
              BY <6>1, <6>3 DEF InSlot
            <7> QED BY <3>3, <7>1
          <6> QED BY <3>4, <5>2, <6>2, <6>3
        <5> QED BY <5>1, <5>2
      <4> HIDE DEF a
      <4> QED BY <3>1, <3>2, <3>3, <4>1, <4>2 DEF Wants
    <3>5. CASE r \notin own
      <4>1. Due(b.hold, own, r, k, s) = Due(c.hold, own, r, k, s) + a /\ Due(c.hold, own, r, k, s) \in Nat
        BY <1>4, <1>6, <3>5 DEF Due, h
      <4> HIDE DEF a
      <4> QED BY <3>1, <3>2, <3>3, <4>1 DEF Wants
    <3> QED BY <3>4, <3>5
  <2>2. c.hold[r].at <= now /\ c.hold[r].share \subseteq b.hold[r].share
    BY <1>2, <1>4 DEF h
  <2> QED BY <1>1, <1>2, <1>3, <1>4, <1>5, <2>1, <2>2 DEF Moved
<1>8. now \in Time /\ run \in [Run -> RunType] /\ real \in [Key -> [Time -> Nat]] /\ m \in LedgerType
  BY <1>3 DEF Typed
<1> QED BY <1>1, <1>7, <1>8, MoveInv

\* A missing credential gives back what no item of the node spent or will spend;
\* where it gives back what an earlier pass spent, the key is apart (_release_unspent_hold).
LEMMA KeyMissingKeeps ==
  ASSUME Typed, Typed', SpendInv, NEW r \in Run, NEW n \in Node, KeyMissing(r, n)
  PROVE  SpendInv'
<1> DEFINE F == run[r].failing \cup {n}
           K == IF First(r, n) THEN run[r].keyless \cup {n} ELSE run[r].keyless
           u == [run[r] EXCEPT !.calls[n] = @ + 1, !.failing = F, !.ever = @ \cup {n}, !.keyless = K]
           p == Home[r]
           b == books[p]
           k == Marked(b, r, n)
           c == IF First(r, n) THEN GivenBack(k, r, {n}) ELSE k
           T == IF First(r, n) THEN b.hold[r].share \cap {n} ELSE {}
           l == LedgerOf(b, disk)
           ru2 == run'
           E2 == Out'
<1>1. /\ Callable(r, n) /\ now' = now /\ evicted' = evicted /\ req' = req /\ real' = real
      /\ apart' = apart \cup (IF SpentBefore(r, n) THEN KeysOf(r) ELSE {})
      /\ First(r, n) => Keep(p, k, c, disk)
      /\ ~First(r, n) => books' = [books EXCEPT ![p] = c] /\ disk' = disk
  BY DEF KeyMissing
<1>2. run' = [run EXCEPT ![r] = u]
  <2>1. run[r] \in RunType /\ run \in [Run -> RunType]
    BY RunTypes DEF Typed
  <2>2. [run EXCEPT ![r].calls[n] = @ + 1, ![r].failing = @ \cup {n}, ![r].ever = @ \cup {n},
                        ![r].keyless = IF First(r, n) THEN @ \cup {n} ELSE @] = [run EXCEPT ![r] = u]
    BY <2>1 DEF RunType
  <2> QED BY <2>2 DEF KeyMissing
<1>3. RunsShape(now, run) /\ RealInv(now, real) /\ FileInv(now, disk, run, real, Out) /\ Waits(req, run)
  BY DEF SpendInv
<1>4. /\ u \in RunType /\ RunShape(u, r) /\ u.phase = "live" /\ u.nodes = run[r].nodes
      /\ u.key = run[r].key /\ u.at = run[r].at /\ u.pass = run[r].pass
      /\ u.keyless = K /\ u.ever = run[r].ever \cup {n} /\ u.calls[n] = run[r].calls[n] + 1
      /\ \A i \in Node \ {n} : Left(u, r, i) <= Left(run[r], r, i)
      /\ run[r].phase = "live" /\ RunShape(run[r], r) /\ run[r] \in RunType /\ n \in run[r].nodes
  <2>1. /\ F \in SUBSET Node /\ K \in SUBSET Node
        /\ run[r].failing \subseteq F /\ run[r].keyless \subseteq K /\ K \subseteq run[r].keyless \cup {n}
    BY <1>3, RunTypes DEF RunsShape, RunShape
  <2> HIDE DEF F, K
  <2> QED BY <1>1, <2>1, CalledRun
<1> HIDE DEF u
<1>5. ru2[r] = u /\ (\A i \in Run \ {r} : ru2[i] = run[i]) /\ ru2 \in [Run -> RunType]
  BY <1>2, <1>4, RunSet
<1> HIDE DEF ru2
<1>6. RunsShape(now, ru2)
  BY <1>3, <1>4, <1>5 DEF RunsShape
<1>7. p \in Proc /\ b \in BookType /\ l \in LedgerType /\ k \in BookType /\ b.hold[r] \in HoldType
  BY Constants, Kinds, LedgerIs, MarkedFacts, BookParts
<1>8. /\ c \in BookType /\ LessHold(b, c, l, LedgerOf(c, disk), r, n, T)
      /\ c.loaded \/ (~b.loaded /\ c.blind = b.blind)
      /\ k.loaded = b.loaded /\ k.blind = b.blind
  <2> HIDE DEF b, p
  <2>1. CASE First(r, n)
    BY <1>7, <2>1, Kinds, MarkedBack, MarkedFacts
  <2>2. CASE ~First(r, n)
    <3>1. k.loaded = b.loaded /\ k.blind = b.blind /\ c = k /\ b.loaded \in BOOLEAN
      BY <1>7, <2>2, MarkedFacts, BookParts
    <3>2. c \in BookType /\ LessHold(b, c, l, LedgerOf(c, disk), r, n, T)
      BY <1>7, <2>2, Kinds, MarkedLess
    <3> HIDE DEF k, c, l, T
    <3> QED BY <3>1, <3>2
  <2> QED BY <2>1, <2>2
<1>9. PICK own \in SUBSET Run : /\ own \subseteq HomeRuns(p) /\ NotLate(req, own)
                                /\ BookInv(now, b, l, run, real, own, Out)
  BY <1>7 DEF SpendInv
<1>10. Left(u, r, n) <= Left(run[r], r, n)
  <2>1. Left(u, r, n) \in Nat /\ Left(run[r], r, n) \in Nat
    BY <1>4, LeftNat
  <2>2. CASE n \in K
    <3>1. Left(u, r, n) = 0
      BY <1>4, <2>2 DEF Left
    <3> QED BY <2>1, <3>1
  <2>3. CASE n \notin K
    <3>1. ~First(r, n) /\ n \notin run[r].keyless /\ u.keyless = run[r].keyless
      BY <1>4, <2>3
    <3>2. Left(u, r, n) + Price[n] <= Left(run[r], r, n)
      BY <1>4, <3>1, CallLeft DEF Going
    <3> QED BY <2>1, <3>2, Constants
  <2> QED BY <2>2, <2>3
<1>11. Need(u, r) <= Need(run[r], r) /\ Need(u, r) \in Nat /\ Need(run[r], r) \in Nat
  <2>1. Left(u, r, n) + 0 <= Left(run[r], r, n)
    BY <1>4, <1>10, LeftNat
  <2>2. Need(u, r) + 0 <= Need(run[r], r) /\ Need(u, r) \in Nat /\ Need(run[r], r) \in Nat
    BY <1>4, <2>1, NeedMove
  <2> QED BY <2>2
<1>12. r \in own /\ T # {} => Need(u, r) + Charge(r, T) <= Need(run[r], r) \/ u.key \in E2
  <2> SUFFICES ASSUME r \in own, T # {}
               PROVE  Need(u, r) + Charge(r, T) <= Need(run[r], r) \/ u.key \in E2
    OBVIOUS
  <2>1. First(r, n) /\ n \in b.hold[r].share /\ T = {n}
    OBVIOUS
  <2>2. n \in run[r].nodes \ run[r].keyless /\ b.hold[r].key = run[r].key
    BY <1>9, <2>1 DEF BookInv, OwnHold
  <2>3. CASE n \in run[r].ever
    <3>1. SpentBefore(r, n)
      BY <2>1, <2>2, <2>3 DEF SpentBefore, First
    <3>2. run[r].key \in KeysOf(r)
      BY <1>7, <2>1, <2>2 DEF HoldType, KeysOf
    <3> QED BY <1>1, <1>4, <3>1, <3>2 DEF Out
  <2>4. CASE n \notin run[r].ever
    <3>1. Left(run[r], r, n) = Share(r, n) /\ Left(u, r, n) = 0 /\ Share(r, n) \in Nat
      BY <1>4, <2>1, <2>2, <2>4, ShareNat DEF Left, Going
    <3>2. Left(u, r, n) + Share(r, n) <= Left(run[r], r, n)
      BY <3>1
    <3>3. Need(u, r) + Share(r, n) <= Need(run[r], r)
      BY <1>4, <3>1, <3>2, NeedMove
    <3> QED BY <2>1, <3>3, ChargeOne
  <2> QED BY <2>3, <2>4
<1>13. T \in SUBSET {n} /\ (n \in u.keyless => n \in T \cup run[r].keyless \/ n \notin b.hold[r].share)
       /\ u.keyless \subseteq run[r].keyless \cup {n}
  BY <1>4
<1>14. Unheld(p, b) /\ r \in HomeRuns(p) /\ Out \subseteq E2
  BY <1>1, <1>7 DEF SpendInv, HomeRuns, Out
<1>15. \A i \in Proc \ {p} : books'[i] = books[i]
  BY <1>1, <1>7, Kinds DEF Keep
<1>16. ~First(r, n) => books'[p] = c /\ disk' = disk
  BY <1>1, <1>7, Kinds
<1> DEFINE m == LedgerOf(c, disk)
<1> HIDE DEF T, p, b, c, k, l, m, F, K, E2
<1>17. FileInv(now, disk, run, real, E2) /\ BookInv(now, b, l, run, real, own, E2)
  BY <1>3, <1>9, <1>14, DropChats
<1>18. LessHold(b, c, l, m, r, n, T)
  BY <1>8 DEF m
<1>19. BookInv(now, c, m, ru2, real, own, E2)
  BY <1>4, <1>5, <1>6, <1>7, <1>8, <1>11, <1>12, <1>13, <1>17, <1>18, MissInv
<1>20. Unheld(p, c)
  <2> SUFFICES ASSUME NEW i \in Run, ~c.loaded \/ i \notin HomeRuns(p) PROVE c.hold[i].share = {}
    BY DEF Unheld
  <2>1. b.hold[i].share = {}
    BY <1>8, <1>14 DEF Unheld
  <2>2. c.hold[i].share \subseteq b.hold[i].share
    BY <1>18 DEF LessHold
  <2> QED BY <2>1, <2>2
<1>21. ASSUME NEW i \in Key, NEW s \in Slots(now, i)
       PROVE  real[i][s] + Needs(ru2[r], r, i, s) <= real[i][s] + Needs(run[r], r, i, s)
  <2>1. real[i][s] \in Int
    BY <1>7, Kinds, SlotCounts
  <2>2. Needs(ru2[r], r, i, s) <= Needs(run[r], r, i, s) /\ Needs(ru2[r], r, i, s) \in Int /\ Needs(run[r], r, i, s) \in Int
    BY <1>4, <1>5, <1>11 DEF Needs
  <2> QED BY <2>1, <2>2
<1>22. FileInv(now, disk, ru2, real, E2)
  BY <1>3, <1>5, <1>6, <1>17, <1>21, Kinds, MoveFile DEF FileInv
<1>23. Waits(req, ru2)
  <2>1. \A i \in Run : ru2[i].phase = "none" => run[i].phase = "none"
    BY <1>4, <1>5
  <2> QED BY <1>3, <2>1, Constants DEF Waits
<1>24. Elsewhere(p)
  BY <1>1, <1>5, <1>6, <1>7, <1>14, <1>15, <1>21, OneElsewhere DEF ru2, E2
<1>25. /\ RunsShape(now, run') /\ RealInv(now, real') /\ FileInv(now, disk, run', real', Out') /\ Waits(req', run')
       /\ BookInv(now, c, LedgerOf(c, disk), run', real', own, Out') /\ NotLate(req', own)
  BY <1>1, <1>3, <1>6, <1>9, <1>19, <1>22, <1>23 DEF ru2, m, E2
<1>26. CASE First(r, n)
  <2>1. Keep(p, k, c, disk) /\ (c.loaded \/ (~k.loaded /\ c.blind = k.blind /\ disk = disk))
    BY <1>1, <1>8, <1>26
  <2> QED BY <1>1, <1>7, <1>8, <1>9, <1>20, <1>24, <1>25, <2>1, KeptStep
<1>27. CASE ~First(r, n)
  BY <1>1, <1>7, <1>9, <1>16, <1>20, <1>24, <1>25, <1>27, StepInv
<1> QED BY <1>26, <1>27

\* The end of a run gives back the nodes it never called, wherever the window is then (_settle_hold).
LEMMA FinishKeeps ==
  ASSUME Typed, Typed', SpendInv, NEW r \in Run, Finish(r)
  PROVE  SpendInv'
<1> DEFINE u == [run[r] EXCEPT !.phase = "ended"]
           p == Home[r]
           b == books[p]
           S == Back(b, r)
           c == Dropped(GivenBack(b, r, S), r)
           h == b.hold[r]
           l == LedgerOf(b, disk)
           ru2 == run'
<1>1. /\ run[r].phase = "live" /\ run' = [run EXCEPT ![r] = u] /\ Keep(p, b, Settled(b, r), disk)
      /\ now' = now /\ real' = real /\ Out' = Out /\ req' = req
  BY RunTypes DEF Finish, Typed, Out
<1>2. /\ u \in RunType /\ u.phase = "ended" /\ u.nodes = run[r].nodes /\ u.key = run[r].key /\ u.at = run[r].at
      /\ u.pass = run[r].pass /\ u.calls = run[r].calls /\ u.failing = run[r].failing /\ u.ever = run[r].ever
      /\ u.keyless = run[r].keyless
  <2>1. run[r] \in RunType
    BY RunTypes
  <2> QED BY <2>1 DEF RunType
<1> HIDE DEF u
<1>3. ru2[r] = u /\ (\A i \in Run \ {r} : ru2[i] = run[i]) /\ ru2 \in [Run -> RunType]
  BY <1>1, <1>2, RunSet
<1>4. /\ RunsShape(now, run) /\ RealInv(now, real) /\ FileInv(now, disk, run, real, Out) /\ Waits(req, run)
      /\ RunShape(run[r], r) /\ run[r] \in RunType
  BY RunTypes DEF SpendInv, RunsShape
<1> HIDE DEF ru2
<1>5. RunShape(u, r)
  BY <1>1, <1>2, <1>4 DEF RunShape, Going
<1>6. RunsShape(now, ru2)
  BY <1>2, <1>3, <1>4, <1>5 DEF RunsShape
<1>7. p \in Proc /\ b \in BookType /\ l \in LedgerType /\ h.share \in SUBSET Node
  BY Constants, Kinds, LedgerIs, BookParts
<1>8. Settled(b, r) = c /\ S \in SUBSET Node
  <2> HIDE DEF b
  <2> QED BY <1>7, SettledIs
<1>9. PICK own \in SUBSET Run : /\ own \subseteq HomeRuns(p) /\ NotLate(req, own)
                                /\ BookInv(now, b, l, run, real, own, Out)
  BY <1>7 DEF SpendInv
<1>10. Need(u, r) = 0 /\ Need(run[r], r) \in Nat
  BY <1>2, <1>4, NeedOver, NeedNat DEF Going
<1>11. Charge(r, h.share \cap S) \in Nat /\ Charge(r, h.share \cap S) <= Charge(r, h.share) /\ Charge(r, h.share) \in Nat
  <2> DEFINE A == h.share
  <2>1. A \in SUBSET Node /\ A \cap S \in SUBSET Node /\ A \ S \in SUBSET Node
    BY <1>7
  <2> HIDE DEF A, S
  <2>2. Charge(r, A) = Charge(r, A \cap S) + Charge(r, A \ S)
    BY <1>8, <2>1, ChargeSplit
  <2>3. Charge(r, A \cap S) \in Nat /\ Charge(r, A \ S) \in Nat
    BY <2>1, ChargeNat
  <2> QED BY <2>2, <2>3 DEF A
<1>12. ASSUME r \in own
       PROVE  Charge(r, h.share \cap S) <= Need(run[r], r) /\ (h.share # {} => h.key = run[r].key /\ h.at = run[r].at)
  <2>1. OwnHold(run[r], b, r)
    BY <1>9, <1>12 DEF BookInv
  <2>2. h.share \cap S \subseteq run[r].nodes \ run[r].ever
    <3>1. CASE r \in b.tracked
      BY <1>7, <2>1, <3>1 DEF OwnHold, Back
    <3>2. CASE r \notin b.tracked
      BY <3>2 DEF Back
    <3> QED BY <3>1, <3>2
  <2> DEFINE A == h.share \cap S
  <2>3. A \in SUBSET Node /\ A \subseteq run[r].nodes \ run[r].ever
    BY <1>7, <2>2
  <2> HIDE DEF A
  <2>4. Charge(r, A) <= Need(run[r], r)
    BY <1>1, <1>4, <2>3, ChargeNeed DEF Going
  <2> QED BY <2>1, <2>4 DEF OwnHold, A
<1>13. ASSUME NEW k \in Key \ Out, NEW s \in Slots(now, k)
       PROVE  Needs(ru2[r], r, k, s) + (IF InSlot(h.key, h.at, k, s) THEN Charge(r, h.share \cap S) ELSE 0)
                <= Wants(run[r], b.hold, own, r, k, s)
  <2>1. Needs(ru2[r], r, k, s) = 0
    BY <1>3, <1>10 DEF Needs
  <2>2. /\ Needs(run[r], r, k, s) \in Nat /\ Due(b.hold, own, r, k, s) \in Nat
    BY <1>4, <1>7, BookParts, WantsNat
  <2>3. CASE r \in own
    <3>1. CASE h.share = {}
      <4>1. Charge(r, h.share \cap S) = 0
        <5>1. h.share \cap S = {}
          BY <3>1
        <5> QED BY <5>1, ChargeNone
      <4> HIDE DEF h, S
      <4> QED BY <2>1, <2>2, <4>1 DEF Wants
    <3>2. CASE h.share # {}
      <4>1. h.key = run[r].key /\ h.at = run[r].at /\ Charge(r, h.share \cap S) <= Need(run[r], r)
        BY <1>12, <2>3, <3>2
      <4>2. (IF InSlot(h.key, h.at, k, s) THEN Charge(r, h.share \cap S) ELSE 0) <= Needs(run[r], r, k, s)
        BY <1>10, <4>1 DEF Needs
      <4> HIDE DEF h, S
      <4>3. (IF InSlot(h.key, h.at, k, s) THEN Charge(r, h.share \cap S) ELSE 0) \in Nat
        BY <1>11
      <4> QED BY <2>1, <2>2, <4>2, <4>3 DEF Wants
    <3> QED BY <3>1, <3>2
  <2>4. CASE r \notin own
    <3>1. Due(b.hold, own, r, k, s) = IF InSlot(h.key, h.at, k, s) THEN Charge(r, h.share) ELSE 0
      BY <2>4 DEF Due
    <3> HIDE DEF h, S
    <3> QED BY <1>11, <2>1, <2>2, <3>1 DEF Wants
  <2> QED BY <2>3, <2>4
<1>14. c \in BookType /\ BookInv(now, c, LedgerOf(c, disk), ru2, real, own \ {r}, Out)
  <2> HIDE DEF b, S
  <2> QED BY <1>3, <1>4, <1>6, <1>7, <1>8, <1>9, <1>13, Kinds, DropInv DEF h, l
<1>16. FileInv(now, disk, ru2, real, Out)
  <2>1. ASSUME NEW k \in Key \ Out, NEW s \in Slots(now, k)
        PROVE  real[k][s] + Needs(ru2[r], r, k, s) <= real[k][s] + Needs(run[r], r, k, s)
    <3>1. real[k][s] \in Int
      BY <1>7, Kinds, SlotCounts
    <3> QED BY <1>3, <1>10, <3>1 DEF Needs
  <2> QED BY <1>3, <1>4, <1>6, <2>1, Kinds, MoveFile DEF FileInv
<1>17. NotLate(req, own \ {r}) /\ Waits(req, ru2)
  <2>1. \A i \in Run : ru2[i].phase = "none" => run[i].phase = "none"
    BY <1>2, <1>3
  <2> QED BY <1>4, <1>9, <2>1, Constants DEF NotLate, Waits
<1> DEFINE own2 == own \ {r}
<1>18. own2 \in SUBSET Run /\ own2 \subseteq HomeRuns(p)
  BY <1>9
<1>19. Unheld(p, b) /\ r \in HomeRuns(p) /\ (\A i \in Proc \ {p} : books'[i] = books[i]) /\ Out \subseteq Out'
  BY <1>1, <1>7, Kinds DEF SpendInv, HomeRuns, Keep
<1>20. /\ RunsShape(now, run') /\ RealInv(now, real') /\ FileInv(now, disk, run', real', Out') /\ Waits(req', run')
       /\ BookInv(now, c, LedgerOf(c, disk), run', real', own2, Out') /\ NotLate(req', own2)
       /\ Keep(p, b, c, disk)
  BY <1>1, <1>4, <1>6, <1>8, <1>14, <1>16, <1>17 DEF ru2
<1>21. (c.loaded \/ (~b.loaded /\ c.blind = b.blind)) /\ Unheld(p, c)
  <2> HIDE DEF b, p, S
  <2> QED BY <1>7, <1>8, <1>19, Kinds, DroppedShape
<1>22. Elsewhere(p)
  <2>1. ASSUME NEW k \in Key \ Out', NEW s \in Slots(now, k)
        PROVE  real'[k][s] + Needs(run'[r], r, k, s) <= real[k][s] + Needs(run[r], r, k, s)
    <3>1. real[k][s] \in Int
      BY <1>7, Kinds, SlotCounts
    <3> QED BY <1>1, <1>3, <1>10, <3>1 DEF Needs, ru2
  <2> HIDE DEF b, p, c
  <2> QED BY <1>1, <1>3, <1>6, <1>7, <1>19, <2>1, OneElsewhere DEF ru2
<1> HIDE DEF c, b, p, own2
<1> QED BY <1>1, <1>7, <1>14, <1>18, <1>20, <1>21, <1>22, KeptStep

-----------------------------------------------------------------------------
(* A file that cannot be read, and a restart.                              *)

\* The keys without a count in the file are covered by an empty ledger.
LEMMA NothingCounted ==
  ASSUME now \in Time, NEW d \in LedgerType, NEW ru \in [Run -> RunType], NEW re \in [Key -> [Time -> Nat]], NEW E,
         FileInv(now, d, ru, re, E), \A k \in Key \ E : d.count[k] = Empty.count[k]
  PROVE  FileInv(now, Empty, ru, re, E)
<1>1. ASSUME NEW k \in Key \ E, NEW s \in Slots(now, k)
      PROVE  Covered(ru, re, Empty.count, NoHolds, {}, k, s)
  <2> DEFINE c == d.count
             e == Empty.count
  <2>1. Covered(ru, re, c, NoHolds, {}, k, s) /\ c[k][s] = e[k][s]
    BY DEF FileInv, Cover
  <2> HIDE DEF c, e
  <2>2. Covered(ru, re, e, NoHolds, {}, k, s)
    BY <2>1 DEF Covered
  <2> QED BY <2>2 DEF e
<1>2. Cover(now, ru, re, Empty.count, NoHolds, {}, E)
  BY <1>1 DEF Cover
<1> QED BY <1>2, EmptyFine DEF FileInv

\* A backend that cannot read the file has no count: the keys that have one are apart (_load).
LEMMA UnreadableKeeps ==
  ASSUME Typed, Typed', SpendInv, NEW p \in Proc, Unreadable(p)
  PROVE  SpendInv'
<1> DEFINE b == books[p]
           c == [b EXCEPT !.blind = TRUE]
           E2 == Out'
<1>1. /\ ~b.loaded /\ ~b.blind /\ books' = [books EXCEPT ![p] = c]
      /\ apart' = apart \cup {k \in Key : disk.count[k] # Empty.count[k]}
      /\ now' = now /\ disk' = disk /\ req' = req /\ run' = run /\ real' = real /\ evicted' = evicted
  <2>1. books \in [Proc -> BookType]
    BY Kinds
  <2> QED BY <2>1 DEF Unreadable
<1>2. /\ b \in BookType /\ c \in BookType /\ c.hold = b.hold /\ c.loaded = b.loaded /\ c.blind = TRUE
      /\ books'[p] = c /\ \A i \in Proc \ {p} : books'[i] = books[i]
  <2>1. b \in BookType /\ books \in [Proc -> BookType]
    BY Kinds
  <2>2. books'[p] = c /\ \A i \in Proc \ {p} : books'[i] = books[i]
    BY <1>1, <2>1
  <2>3. books'[p] \in BookType
    BY Kinds
  <2> HIDE DEF b
  <2>4. c.hold = b.hold /\ c.loaded = b.loaded /\ c.blind = TRUE
    BY <2>1 DEF BookType
  <2> HIDE DEF c
  <2> QED BY <2>1, <2>2, <2>3, <2>4
<1> HIDE DEF c
<1>3. Out \subseteq E2 /\ \A k \in Key \ E2 : disk.count[k] = Empty.count[k]
  BY <1>1 DEF Out
<1>4. RunsShape(now, run) /\ RealInv(now, real) /\ FileInv(now, disk, run, real, Out) /\ Waits(req, run) /\ Unheld(p, b)
  BY DEF SpendInv
<1> HIDE DEF E2, b
<1>5. FileInv(now, disk, run, real, E2)
  BY <1>3, <1>4, DropChats
<1>6. FileInv(now, Empty, run, real, E2)
  BY <1>3, <1>5, Kinds, NothingCounted
<1>7. Unheld(p, c) /\ (\A i \in Run : c.hold[i].share = {})
  BY <1>1, <1>2, <1>4 DEF Unheld
<1>8. HoldShape(now, c)
  <2>1. HoldShape(now, books[p])
    BY DEF SpendInv, BookInv
  <2> QED BY <1>2, <2>1 DEF HoldShape, b
<1>9. BookInv(now, c, Empty, run, real, {}, E2)
  BY <1>2, <1>4, <1>6, <1>7, <1>8, FreshType, Kinds, BareBook
<1>10. LedgerOf(c, disk) = Empty
  BY <1>1, <1>2 DEF LedgerOf
<1>11. Elsewhere(p)
  BY <1>1, <1>2, <1>3, SameElsewhere DEF E2
<1>12. NotLate(req, {}) /\ {} \in SUBSET Run /\ {} \subseteq HomeRuns(p)
  BY DEF NotLate
<1> QED BY <1>1, <1>2, <1>4, <1>5, <1>7, <1>9, <1>10, <1>11, <1>12, StepInv DEF E2

\* A backend that comes back has nothing to give back; the file covers what was
\* spent, and what the runs of the others may still cost (_load).
LEMMA RestartKeeps ==
  ASSUME Typed, Typed', SpendInv, NEW p \in Proc, Restart(p)
  PROVE  SpendInv'
<1> DEFINE ru2 == run'
<1>1. /\ books' = [books EXCEPT ![p] = Fresh] /\ now' = now /\ disk' = disk /\ real' = real /\ Out' = Out
      /\ ru2 = [r \in Run |-> IF Home[r] = p THEN NoRun ELSE run[r]]
      /\ req' = [q \in Request |-> IF Home[RunOf[q]] = p /\ req[q] # "idle" THEN "done" ELSE req[q]]
  BY DEF Restart, Out
<1>2. \A r \in Run : ru2[r] = (IF r \in HomeRuns(p) THEN NoRun ELSE run[r])
  BY <1>1 DEF HomeRuns
<1>3. \A q \in Request : req'[q] = "late" => req[q] = "late" /\ RunOf[q] \notin HomeRuns(p)
  BY <1>1, Constants DEF Typed, HomeRuns
<1>4. RunsShape(now, run) /\ RealInv(now, real) /\ FileInv(now, disk, run, real, Out) /\ Waits(req, run)
  BY DEF SpendInv
<1>5. ru2 \in [Run -> RunType]
  BY Kinds
<1> HIDE DEF ru2
<1>6. RunsShape(now, ru2)
  <2> SUFFICES ASSUME NEW r \in Run PROVE RunShape(ru2[r], r) /\ ru2[r].at <= now
    BY DEF RunsShape
  <2>1. CASE r \in HomeRuns(p)
    <3>1. 0 <= now /\ ru2[r] = NoRun
      BY <1>2, <2>1, Kinds, Constants DEF Time
    <3>2. RunShape(NoRun, r) /\ NoRun.at = 0
      BY NoRunShape
    <3> HIDE DEF NoRun
    <3> QED BY <3>1, <3>2
  <2>2. CASE r \notin HomeRuns(p)
    BY <1>2, <1>4, <2>2 DEF RunsShape
  <2> QED BY <2>1, <2>2
<1>7. ASSUME NEW r \in Run, NEW k, NEW s
      PROVE  Needs(ru2[r], r, k, s) \in Nat /\ Needs(run[r], r, k, s) \in Nat
             /\ Needs(ru2[r], r, k, s) <= Needs(run[r], r, k, s)
  <2>1. Need(run[r], r) \in Nat
    BY <1>4, Kinds, NeedNat DEF RunsShape
  <2>2. CASE r \in HomeRuns(p)
    BY <1>2, <2>1, <2>2, NoRunShape DEF Needs
  <2>3. CASE r \notin HomeRuns(p)
    BY <1>2, <2>1, <2>3 DEF Needs
  <2> QED BY <2>2, <2>3
<1>8. ASSUME NEW k \in Key \ Out, NEW s \in Slots(now, k) PROVE Covered(ru2, real, disk.count, NoHolds, {}, k, s)
  <2> DEFINE c == disk.count
  <2>1. s \in Time /\ c[k][s] \in Int /\ real[k][s] \in Int /\ Covered(run, real, c, NoHolds, {}, k, s)
    BY <1>4, Kinds, SlotCounts DEF FileInv, Cover
  <2> HIDE DEF c
  <2>2. \A r \in Run : RunShape(run[r], r) /\ RunShape(ru2[r], r)
    BY <1>4, <1>6 DEF RunsShape
  <2>3. ASSUME NEW r \in Run PROVE Wants(ru2[r], NoHolds, {}, r, k, s) <= Wants(run[r], NoHolds, {}, r, k, s)
    <3>1. Due(NoHolds, {}, r, k, s) = 0
      BY NoHoldsFacts, DueNone
    <3> QED BY <1>7, <3>1 DEF Wants
  <2>4. c[k][s] <= c[k][s]
    BY <2>1
  <2>5. Covered(ru2, real, c, NoHolds, {}, k, s)
    BY <1>5, <2>1, <2>2, <2>3, <2>4, Kinds, NoHoldsFacts, CoverLess
  <2> QED BY <2>5 DEF c
<1>9. FileInv(now, disk, ru2, real, Out)
  BY <1>4, <1>8 DEF FileInv, Cover
<1>10. /\ Fresh \in BookType /\ HoldShape(now, Fresh) /\ (\A r \in Run : Fresh.hold[r].share = {})
       /\ ~Fresh.loaded /\ ~Fresh.blind
  <2>1. \A r \in Run : Fresh.hold[r] = NoHold
    BY DEF Fresh
  <2>2. 0 <= now
    BY Kinds, Constants DEF Time
  <2> QED BY <2>1, <2>2, FreshType, NoHoldsFacts DEF HoldShape, Fresh
<1>11. BookInv(now, Fresh, disk, ru2, real, {}, Out)
  BY <1>5, <1>6, <1>9, <1>10, Kinds, BareBook
<1>12. books'[p] = Fresh /\ LedgerOf(Fresh, disk) = disk /\ Unheld(p, Fresh) /\ \A i \in Proc \ {p} : books'[i] = books[i]
  BY <1>1, <1>10, Kinds DEF LedgerOf, Unheld
<1>13. Waits(req', ru2) /\ NotLate(req', {}) /\ {} \in SUBSET Run /\ {} \subseteq HomeRuns(p)
  BY <1>2, <1>3, <1>4, Constants DEF Waits, NotLate
<1>14. ASSUME NEW k \in Key, NEW s \in Slots(now, k) PROVE Total(ru2, real, k, s) <= Total(run, real, k, s)
  <2> DEFINE f == [r \in Run |-> Needs(run[r], r, k, s)]
             g == [r \in Run |-> Needs(ru2[r], r, k, s)]
  <2>1. \A r \in Run : f[r] \in Int /\ g[r] \in Int /\ g[r] <= f[r]
    <3> SUFFICES ASSUME NEW r \in Run PROVE f[r] \in Int /\ g[r] \in Int /\ g[r] <= f[r]
      OBVIOUS
    <3> QED BY <1>7
  <2>2. real[k][s] \in Int
    BY Kinds, SlotCounts
  <2>3. Total(run, real, k, s) = real[k][s] + Sum(f, Run) /\ Total(ru2, real, k, s) = real[k][s] + Sum(g, Run)
    BY DEF Total
  <2> HIDE DEF f, g
  <2>4. Sum(g, Run) <= Sum(f, Run) /\ Sum(f, Run) \in Int /\ Sum(g, Run) \in Int
    BY <2>1, Finite, SumLe, SumInt
  <2> QED BY <2>2, <2>3, <2>4
<1>15. Elsewhere(p)
  <2>1. \A r \in Run \ HomeRuns(p) : run'[r] = run[r]
    BY <1>2 DEF ru2
  <2> QED BY <1>1, <1>3, <1>12, <1>14, <2>1 DEF Elsewhere, ru2
<1> QED BY <1>1, <1>4, <1>6, <1>9, <1>11, <1>12, <1>13, <1>15, StepInv DEF ru2

\* Every step keeps the invariant of the counts.
LEMMA StepKeeps == ASSUME Typed, Typed', SpendInv, [Next]_vars PROVE SpendInv'
<1>1. CASE Tick
  BY <1>1, TickKeeps
<1>2. ASSUME NEW q \in Request, Ask(q) PROVE SpendInv'
  BY <1>2, AskKeeps
<1>3. ASSUME NEW q \in Request, Refuse(q) PROVE SpendInv'
  BY <1>3, RefuseKeeps
<1>4. ASSUME NEW q \in Request, Start(q) PROVE SpendInv'
  BY <1>4, StartKeeps
<1>5. ASSUME NEW q \in Request, Late(q) PROVE SpendInv'
  BY <1>5, LateKeeps
<1>6. ASSUME NEW q \in Request, Leave(q) PROVE SpendInv'
  BY <1>6, LeaveKeeps
<1>7. ASSUME NEW q \in Request, TurnDown(q) PROVE SpendInv'
  BY <1>7, TurnDownKeeps
<1>8. ASSUME NEW q \in Request, Unsaved(q) PROVE SpendInv'
  BY <1>8, UnsavedKeeps
<1>9. ASSUME NEW r \in Run, Turn(r) PROVE SpendInv'
  BY <1>9, TurnKeeps
<1>10. ASSUME NEW r \in Run, Cut(r) PROVE SpendInv'
  BY <1>10, CutKeeps
<1>11. ASSUME NEW r \in Run, NextPass(r) PROVE SpendInv'
  BY <1>11, NextPassKeeps
<1>12. ASSUME NEW r \in Run, Finish(r) PROVE SpendInv'
  BY <1>12, FinishKeeps
<1>13. ASSUME NEW r \in Run, NEW n \in Node, Call(r, n) PROVE SpendInv'
  BY <1>13, CallKeeps
<1>14. ASSUME NEW r \in Run, NEW n \in Node, KeyMissing(r, n) PROVE SpendInv'
  BY <1>14, KeyMissingKeeps
<1>15. ASSUME NEW p \in Proc, Look(p) PROVE SpendInv'
  BY <1>15, LookKeeps
<1>16. ASSUME NEW p \in Proc, Restart(p) PROVE SpendInv'
  BY <1>16, RestartKeeps
<1>17. ASSUME NEW p \in Proc, Unreadable(p) PROVE SpendInv'
  BY <1>17, UnreadableKeeps
<1>18. CASE UNCHANGED vars
  <2>1. Out' = Out
    BY <1>18 DEF vars, Out
  <2> QED BY <1>18, <2>1, QuietStep DEF vars
<1> QED BY <1>1, <1>2, <1>3, <1>4, <1>5, <1>6, <1>7, <1>8, <1>9, <1>10, <1>11, <1>12, <1>13, <1>14,
           <1>15, <1>16, <1>17, <1>18 DEF Next

-----------------------------------------------------------------------------
(* What holds at any time.                                                 *)

\* The counts keep their invariant through starts, repeated ids, refusals, calls, missing credentials in
\* any pass, ends, evictions, failed saves, unreadable files, ticks and restarts of any number of backends
\* (SpendLedger and _SpendHold with the routes that drive them).
THEOREM SpendInvAlways == Spec => [](Typed /\ SpendInv)
<1>1. Init => Typed /\ SpendInv
  BY InitTyped, InitInv
<1>2. Typed /\ SpendInv /\ [Next]_vars => (Typed /\ SpendInv)'
  BY StepTyped, StepKeeps
<1> QED BY <1>1, <1>2, PTL DEF Spec

\* What covers a slot of the window covers what was spent of it.
LEMMA RealCounted ==
  ASSUME Typed, SpendInv, NEW k \in Key \ Out, NEW s \in Slots(now, k)
  PROVE  /\ s \in Time /\ real[k][s] \in Nat /\ disk.count[k][s] \in Int /\ real[k][s] <= disk.count[k][s]
         /\ \A p \in Proc : real[k][s] <= Ledger(p).count[k][s]
<1>1. /\ now \in Time /\ disk \in LedgerType /\ run \in [Run -> RunType] /\ real \in [Key -> [Time -> Nat]]
      /\ books \in [Proc -> BookType]
  BY DEF Typed
<1>2. RunsShape(now, run) /\ FileInv(now, disk, run, real, Out)
  BY DEF SpendInv
<1>3. \A r \in Run : RunShape(run[r], r)
  BY <1>2 DEF RunsShape
<1>4. ASSUME NEW l \in LedgerType, NEW h \in [Run -> HoldType], NEW own, Cover(now, run, real, l.count, h, own, Out)
      PROVE  s \in Time /\ real[k][s] \in Nat /\ l.count[k][s] \in Int /\ real[k][s] <= l.count[k][s]
  <2>1. s \in Time /\ real[k][s] \in Nat /\ l.count[k][s] \in Int
    BY <1>1, SlotCounts
  <2> DEFINE c == l.count
  <2>2. Covered(run, real, c, h, own, k, s) /\ c[k][s] \in Int
    BY <1>4, <2>1 DEF Cover
  <2> HIDE DEF c
  <2>3. real[k][s] <= c[k][s]
    BY <1>1, <1>3, <2>1, <2>2, CoveredReal
  <2> QED BY <2>1, <2>3 DEF c
<1>5. s \in Time /\ real[k][s] \in Nat /\ disk.count[k][s] \in Int /\ real[k][s] <= disk.count[k][s]
  BY <1>1, <1>2, <1>4, NoHoldsFacts DEF FileInv
<1>6. ASSUME NEW p \in Proc PROVE real[k][s] <= Ledger(p).count[k][s]
  <2> DEFINE b == books[p]
             l == LedgerOf(b, disk)
  <2>1. b \in BookType /\ l \in LedgerType /\ b.hold \in [Run -> HoldType] /\ Ledger(p) = l
    BY <1>1, LedgerIs, BookParts DEF Ledger
  <2>2. \E own \in SUBSET Run : Cover(now, run, real, l.count, b.hold, own, Out)
    BY DEF SpendInv, BookInv
  <2> HIDE DEF b, l
  <2> QED BY <1>4, <2>1, <2>2
<1> QED BY <1>5, <1>6

\* What the called handlers of the runs cost is counted for their key, in memory and in the file, as
\* long as a limit looks at it: what is given back at the end of a run, for a missing credential or
\* for a refused request never takes what was spent ("a wrong record can only over-count",
\* provider_calls; _settle_hold, _return_hold, _release_unspent_hold). The keys apart are those for
\* which the code itself does.
THEOREM CountedIsCoveredAlways == Spec => []CountedIsCovered
<1>1. Typed /\ SpendInv => CountedIsCovered
  <2> SUFFICES ASSUME Typed, SpendInv, NEW p \in Proc, NEW k \in Key \ (evicted \cup apart),
                      NEW s \in (IF k \in Chat THEN {0} ELSE Recent)
               PROVE  real[k][s] <= Ledger(p).count[k][s] /\ real[k][s] <= disk.count[k][s]
    BY DEF CountedIsCovered, CoveredBut
  <2>1. s \in Slots(now, k) /\ k \in Key \ Out
    BY DEF Slots, Latest, Recent, Out
  <2> QED BY <2>1, RealCounted
<1> QED BY <1>1, SpendInvAlways, PTL

\* What the agents really spend in the window, or for a chat that has not lost its place, stays
\* within the budget of a chat, of an app and of all outside agents together, the keys apart that the
\* code lost a count of (decide).
THEOREM RealWithinBudgetAlways == Spec => []RealWithinBudget
<1>1. Typed /\ SpendInv => RealWithinBudget
  <2> SUFFICES ASSUME Typed, SpendInv PROVE WithinBudget(Out)
    BY DEF RealWithinBudget, Out
  <2> DEFINE E == Out
  <2>1. now \in Time /\ disk \in LedgerType /\ Within(now, disk, E)
    BY DEF Typed, SpendInv, FileInv
  <2>2. Recent = Latest(now) /\ IsFiniteSet(Latest(now))
    BY <2>1, SlotsFacts DEF Recent, Latest
  <2>6. \A k \in Key \ E : \A s \in Slots(now, k) :
          s \in Time /\ real[k][s] \in Nat /\ disk.count[k][s] \in Int /\ real[k][s] <= disk.count[k][s]
    BY RealCounted
  <2> HIDE DEF E
  <2>3. ASSUME NEW k \in Chat \ E PROVE Spending(k) <= Budget
    <3>1. k \in Key \ E /\ 0 \in Slots(now, k)
      BY Constants DEF Slots
    <3>2. real[k][0] \in Nat /\ disk.count[k][0] \in Int /\ real[k][0] <= disk.count[k][0]
      BY <2>6, <3>1
    <3>3. disk.count[k][0] <= Budget
      BY <2>1 DEF Within
    <3> QED BY <3>2, <3>3, Constants DEF Spending
  <2>4. ASSUME NEW k \in Outside \ E
        PROVE  Spending(k) <= Windowed(now, disk, k) /\ Spending(k) \in Int /\ Windowed(now, disk, k) \in Int
    <3> DEFINE f == real[k]
               g == disk.count[k]
    <3>1. k \in Key \ E /\ k \notin Chat /\ Slots(now, k) = Latest(now)
      BY <2>1, Constants DEF Slots
    <3>2. \A t \in Latest(now) : f[t] \in Int /\ g[t] \in Int /\ f[t] <= g[t]
      BY <2>6, <3>1
    <3>3. Spending(k) = Sum(f, Latest(now)) /\ Windowed(now, disk, k) = Sum(g, Latest(now))
      BY <2>2, <3>1 DEF Spending, Windowed
    <3> HIDE DEF f, g
    <3> QED BY <2>2, <3>2, <3>3, SumLe, SumInt
  <2>5. ASSUME NEW k \in App \ E PROVE Spending(k) <= AppLimit
    <3>1. k \in Outside \ E /\ Windowed(now, disk, k) <= AppLimit
      BY <2>1 DEF Outside, Within
    <3> QED BY <2>4, <3>1, Constants
  <2>7. ASSUME Outside \cap E = {} PROVE Sum([k \in Outside |-> Spending(k)], Outside) <= OutsideLimit
    <3> DEFINE f == [k \in Outside |-> Spending(k)]
               g == [k \in Outside |-> Windowed(now, disk, k)]
    <3>1. \A k \in Outside : f[k] \in Int /\ g[k] \in Int /\ f[k] <= g[k]
      BY <2>4, <2>7
    <3>2. Sum(g, Outside) <= OutsideLimit
      BY <2>1, <2>7 DEF Within
    <3> HIDE DEF f, g
    <3>3. Sum(f, Outside) <= Sum(g, Outside) /\ Sum(f, Outside) \in Int /\ Sum(g, Outside) \in Int
      BY <3>1, Finite, SumLe, SumInt
    <3>4. Sum(f, Outside) <= OutsideLimit
      BY <3>2, <3>3, Constants
    <3> QED BY <3>4 DEF f
  <2> QED BY <2>3, <2>5, <2>7 DEF WithinBudget, E
<1> QED BY <1>1, SpendInvAlways, PTL
=============================================================================

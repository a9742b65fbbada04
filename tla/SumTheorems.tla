---------------------------- MODULE SumTheorems ----------------------------
(***************************************************************************)
(* Sums over a finite set of numbers, as the modules write them:           *)
(* SumFunctionOnSet(f, S).  The library's sum is a fold, a recursive       *)
(* function over the subsets of S that chooses one element after the       *)
(* other.  Shown here is that the fold is well defined and does not depend *)
(* on what is chosen.  Each induction is a minimal counterexample.         *)
(***************************************************************************)
EXTENDS Integers, FiniteSets, Functions, FiniteSetTheorems, WellFoundedInduction, TLAPS

LEMMA SmallestSet ==
  ASSUME NEW S, IsFiniteSet(S), NEW T \in SUBSET SUBSET S, T # {}
  PROVE  \E m \in T : \A y \in T : y \subseteq m => y = m
<1>1. T \subseteq FiniteSubsetsOf(S)
  BY FS_Subset DEF FiniteSubsetsOf
<1>2. \E m \in T : \A y \in T : ~(<<y, m>> \in StrictSubsetOrdering(S))
  BY <1>1, FS_StrictSubsetOrderingWellFounded, WFMin
<1> QED
  BY <1>2 DEF StrictSubsetOrdering

\* What the fold computes for the subsets of S.
Pick(s) == CHOOSE x \in s : TRUE
IsSum(g, f, S) ==
  g = [s \in SUBSET S |-> IF s = {} THEN 0 ELSE f[Pick(s)] + g[s \ {Pick(s)}]]

LEMMA Unfolded ==
  ASSUME NEW f, NEW S
  PROVE  SumFunctionOnSet(f, S) = (CHOOSE g : IsSum(g, f, S))[S]
BY DEF SumFunctionOnSet, FoldFunctionOnSet, MapThenFoldSet, IsSum, Pick

LEMMA SumUnique ==
  ASSUME NEW f, NEW S, NEW T, IsFiniteSet(S), T \subseteq S, NEW g, NEW h,
         IsSum(g, f, S), IsSum(h, f, T)
  PROVE  g[T] = h[T]
<1> DEFINE Bad == {s \in SUBSET T : g[s] # h[s]}
<1> SUFFICES ASSUME Bad # {} PROVE FALSE
  OBVIOUS
<1>0. Bad \in SUBSET SUBSET S
  OBVIOUS
<1> HIDE DEF Bad
<1>1. PICK s \in Bad : \A y \in Bad : y \subseteq s => y = s
  BY <1>0, SmallestSet
<1> USE DEF Bad
<1>2. s # {}
  BY <1>1 DEF IsSum
<1>3. Pick(s) \in s
  BY <1>2 DEF Pick
<1>4. g[s \ {Pick(s)}] = h[s \ {Pick(s)}]
  BY <1>1, <1>3
<1>5. g[s] = f[Pick(s)] + g[s \ {Pick(s)}] /\ h[s] = f[Pick(s)] + h[s \ {Pick(s)}]
  BY <1>1, <1>2 DEF IsSum
<1> QED
  BY <1>1, <1>4, <1>5

LEMMA SumExists ==
  ASSUME NEW f, NEW S, IsFiniteSet(S)
  PROVE  \E g : IsSum(g, f, S)
<1> DEFINE Bad == {s \in SUBSET S : ~\E g : IsSum(g, f, s)}
<1> SUFFICES ASSUME Bad # {} PROVE FALSE
  OBVIOUS
<1>0. Bad \in SUBSET SUBSET S
  OBVIOUS
<1> HIDE DEF Bad
<1>1. PICK T \in Bad : \A y \in Bad : y \subseteq T => y = T
  BY <1>0, SmallestSet
<1> USE DEF Bad
<1> DEFINE Of(s) == CHOOSE g : IsSum(g, f, s)
           whole == [s \in SUBSET T |-> IF s = {} THEN 0
                       ELSE f[Pick(s)] + Of(s \ {Pick(s)})[s \ {Pick(s)}]]
<1>2. \A s \in SUBSET T : s # T => IsSum(Of(s), f, s)
  BY <1>1
<1>3. ASSUME NEW s \in SUBSET T, s # {}
      PROVE  Pick(s) \in s /\ s \ {Pick(s)} \in SUBSET T /\ s \ {Pick(s)} # T
  BY <1>3 DEF Pick
<1>4. ASSUME NEW s \in SUBSET T, s # {}
      PROVE  whole[s \ {Pick(s)}] = Of(s \ {Pick(s)})[s \ {Pick(s)}]
  <2> DEFINE t == s \ {Pick(s)}
  <2>1. t \in SUBSET T /\ IsSum(Of(t), f, t)
    BY <1>2, <1>3, <1>4
  <2>2. CASE t = {}
    <3>1. whole[t] = 0
      BY <2>1, <2>2
    <3>2. Of(t)[t] = 0
      BY <2>1, <2>2 DEF IsSum
    <3> QED
      BY <3>1, <3>2
  <2>3. CASE t # {}
    <3> DEFINE u == t \ {Pick(t)}
    <3>1. IsSum(Of(u), f, u) /\ u \subseteq t
      BY <1>2, <1>3, <2>1, <2>3
    <3>2. Of(t)[t] = f[Pick(t)] + Of(t)[u]
      BY <2>1, <2>3 DEF IsSum
    <3>3. IsFiniteSet(t)
      BY <2>1, FS_Subset
    <3> HIDE DEF Of
    <3>4. Of(t)[u] = Of(u)[u]
      <4> HIDE DEF t, u
      <4> QED
        BY <2>1, <3>1, <3>3, SumUnique
    <3>5. whole[t] = f[Pick(t)] + Of(u)[u]
      BY <2>1, <2>3
    <3> QED
      BY <3>2, <3>4, <3>5
  <2> QED
    BY <2>2, <2>3
<1> HIDE DEF Of
<1>5. whole = [s \in SUBSET T |-> IF s = {} THEN 0 ELSE f[Pick(s)] + whole[s \ {Pick(s)}]]
  <2> DEFINE other == [s \in SUBSET T |-> IF s = {} THEN 0 ELSE f[Pick(s)] + whole[s \ {Pick(s)}]]
  <2>1. \A s \in SUBSET T : whole[s] = other[s]
    BY <1>4
  <2> QED
    BY <2>1
<1>6. IsSum(whole, f, T)
  BY <1>5 DEF IsSum
<1> QED
  BY <1>1, <1>6

\* One step of the fold.
LEMMA SumStep ==
  ASSUME NEW f, NEW S, IsFiniteSet(S)
  PROVE  SumFunctionOnSet(f, S) =
           IF S = {} THEN 0 ELSE f[Pick(S)] + SumFunctionOnSet(f, S \ {Pick(S)})
<1> DEFINE T == S \ {Pick(S)}
           g == CHOOSE g : IsSum(g, f, S)
           h == CHOOSE h : IsSum(h, f, T)
<1>1. IsFiniteSet(T) /\ T \subseteq S
  BY FS_Subset
<1>2. IsSum(g, f, S) /\ IsSum(h, f, T)
  BY <1>1, SumExists
<1>3. SumFunctionOnSet(f, S) = g[S] /\ SumFunctionOnSet(f, T) = h[T]
  BY Unfolded
<1> HIDE DEF g, h
<1>4. g[S] = IF S = {} THEN 0 ELSE f[Pick(S)] + g[T]
  BY <1>2 DEF IsSum
<1>5. g[T] = h[T]
  <2> HIDE DEF T
  <2> QED
    BY <1>1, <1>2, SumUnique
<1> QED
  BY <1>3, <1>4, <1>5

THEOREM SumOfNone ==
  ASSUME NEW f
  PROVE  SumFunctionOnSet(f, {}) = 0
BY SumStep, FS_EmptySet

\* A sum of integers is an integer.
THEOREM SumType ==
  ASSUME NEW f, NEW S, IsFiniteSet(S), \A x \in S : f[x] \in Int
  PROVE  SumFunctionOnSet(f, S) \in Int
<1> DEFINE Bad == {s \in SUBSET S : SumFunctionOnSet(f, s) \notin Int}
<1> SUFFICES ASSUME Bad # {} PROVE FALSE
  OBVIOUS
<1>0. Bad \in SUBSET SUBSET S
  OBVIOUS
<1> HIDE DEF Bad
<1>1. PICK s \in Bad : \A y \in Bad : y \subseteq s => y = s
  BY <1>0, SmallestSet
<1>2. s \subseteq S /\ IsFiniteSet(s) /\ SumFunctionOnSet(f, s) \notin Int
  BY <1>1, FS_Subset DEF Bad
<1>3. s # {}
  BY <1>2, SumOfNone
<1>4. Pick(s) \in s
  BY <1>3 DEF Pick
<1>5. SumFunctionOnSet(f, s \ {Pick(s)}) \in Int
  BY <1>1, <1>2, <1>4 DEF Bad
<1> QED
  BY <1>2, <1>3, <1>4, <1>5, SumStep

\* Whichever element is taken out first, the rest adds up to the same.
THEOREM SumSplit ==
  ASSUME NEW f, NEW S, IsFiniteSet(S), \A x \in S : f[x] \in Int, NEW e \in S
  PROVE  SumFunctionOnSet(f, S) = f[e] + SumFunctionOnSet(f, S \ {e})
<1> DEFINE Splits(s) == \A x \in s : SumFunctionOnSet(f, s) = f[x] + SumFunctionOnSet(f, s \ {x})
           Bad == {s \in SUBSET S : ~Splits(s)}
<1> SUFFICES ASSUME Bad # {} PROVE FALSE
  OBVIOUS
<1>0. Bad \in SUBSET SUBSET S
  OBVIOUS
<1> HIDE DEF Bad
<1>1. PICK s \in Bad : \A y \in Bad : y \subseteq s => y = s
  BY <1>0, SmallestSet
<1>2. PICK x \in s : SumFunctionOnSet(f, s) # f[x] + SumFunctionOnSet(f, s \ {x})
  BY <1>1 DEF Bad
<1>3. s \subseteq S /\ IsFiniteSet(s)
  BY <1>1, FS_Subset DEF Bad
<1> DEFINE p == Pick(s)
           t == (s \ {p}) \ {x}
<1>4. p \in s
  BY <1>2 DEF Pick
<1>5. SumFunctionOnSet(f, s) = f[p] + SumFunctionOnSet(f, s \ {p})
  BY <1>2, <1>3, SumStep
<1>6. p # x
  BY <1>2, <1>5
<1> HIDE DEF p
<1>7. SumFunctionOnSet(f, s \ {p}) = f[x] + SumFunctionOnSet(f, t)
  <2>1. Splits(s \ {p})
    BY <1>1, <1>3, <1>4 DEF Bad
  <2> QED
    BY <1>2, <1>6, <2>1
<1>8. SumFunctionOnSet(f, s \ {x}) = f[p] + SumFunctionOnSet(f, t)
  <2>1. Splits(s \ {x})
    BY <1>1, <1>2, <1>3 DEF Bad
  <2>2. (s \ {x}) \ {p} = t
    OBVIOUS
  <2> QED
    BY <1>4, <1>6, <2>1, <2>2
<1>9. f[x] \in Int /\ f[p] \in Int /\ SumFunctionOnSet(f, t) \in Int
  <2>1. t \subseteq S /\ IsFiniteSet(t)
    BY <1>3, FS_Subset
  <2>2. SumFunctionOnSet(f, t) \in Int
    <3> HIDE DEF t
    <3> QED
      BY <2>1, SumType
  <2> QED
    BY <1>2, <1>3, <1>4, <2>2
<1> QED
  BY <1>2, <1>5, <1>7, <1>8, <1>9

\* A sum with larger summands is not smaller.
THEOREM SumMonotone ==
  ASSUME NEW f, NEW g, NEW S, IsFiniteSet(S),
         \A x \in S : f[x] \in Int /\ g[x] \in Int /\ f[x] <= g[x]
  PROVE  SumFunctionOnSet(f, S) <= SumFunctionOnSet(g, S)
<1> DEFINE Bad == {s \in SUBSET S : ~(SumFunctionOnSet(f, s) <= SumFunctionOnSet(g, s))}
<1> SUFFICES ASSUME Bad # {} PROVE FALSE
  OBVIOUS
<1>0. Bad \in SUBSET SUBSET S
  OBVIOUS
<1> HIDE DEF Bad
<1>1. PICK s \in Bad : \A y \in Bad : y \subseteq s => y = s
  BY <1>0, SmallestSet
<1>2. /\ s \subseteq S /\ IsFiniteSet(s)
      /\ ~(SumFunctionOnSet(f, s) <= SumFunctionOnSet(g, s))
  BY <1>1, FS_Subset DEF Bad
<1>3. s # {}
  BY <1>2, SumOfNone
<1> DEFINE t == s \ {Pick(s)}
<1>4. Pick(s) \in s
  BY <1>3 DEF Pick
<1>5. SumFunctionOnSet(f, t) <= SumFunctionOnSet(g, t)
  BY <1>1, <1>2, <1>4 DEF Bad
<1>6. /\ SumFunctionOnSet(f, s) = f[Pick(s)] + SumFunctionOnSet(f, t)
      /\ SumFunctionOnSet(g, s) = g[Pick(s)] + SumFunctionOnSet(g, t)
  BY <1>2, <1>3, SumStep
<1>7. SumFunctionOnSet(f, t) \in Int /\ SumFunctionOnSet(g, t) \in Int
  <2>1. t \subseteq S /\ IsFiniteSet(t)
    BY <1>2, FS_Subset
  <2> HIDE DEF t
  <2> QED
    BY <2>1, SumType
<1>8. f[Pick(s)] \in Int /\ g[Pick(s)] \in Int /\ f[Pick(s)] <= g[Pick(s)]
  BY <1>2, <1>4
<1> HIDE DEF t
<1> QED
  BY <1>2, <1>5, <1>6, <1>7, <1>8

\* Only the summands count.
THEOREM SumSame ==
  ASSUME NEW f, NEW g, NEW S, IsFiniteSet(S), \A x \in S : f[x] \in Int /\ g[x] = f[x]
  PROVE  SumFunctionOnSet(f, S) = SumFunctionOnSet(g, S)
<1>1. SumFunctionOnSet(f, S) \in Int /\ SumFunctionOnSet(g, S) \in Int
  BY SumType
<1>2. SumFunctionOnSet(f, S) <= SumFunctionOnSet(g, S)
  BY SumMonotone
<1>3. SumFunctionOnSet(g, S) <= SumFunctionOnSet(f, S)
  BY SumMonotone
<1> QED
  BY <1>1, <1>2, <1>3

\* A sum of numbers that are not negative is not negative.
THEOREM SumNatural ==
  ASSUME NEW f, NEW S, IsFiniteSet(S), \A x \in S : f[x] \in Nat
  PROVE  SumFunctionOnSet(f, S) \in Nat
<1> DEFINE Bad == {s \in SUBSET S : SumFunctionOnSet(f, s) \notin Nat}
<1> SUFFICES ASSUME Bad # {} PROVE FALSE
  OBVIOUS
<1>0. Bad \in SUBSET SUBSET S
  OBVIOUS
<1> HIDE DEF Bad
<1>1. PICK s \in Bad : \A y \in Bad : y \subseteq s => y = s
  BY <1>0, SmallestSet
<1>2. s \subseteq S /\ IsFiniteSet(s) /\ SumFunctionOnSet(f, s) \notin Nat
  BY <1>1, FS_Subset DEF Bad
<1>3. s # {}
  BY <1>2, SumOfNone
<1>4. Pick(s) \in s
  BY <1>3 DEF Pick
<1>5. SumFunctionOnSet(f, s \ {Pick(s)}) \in Nat
  BY <1>1, <1>2, <1>4 DEF Bad
<1> QED
  BY <1>2, <1>3, <1>4, <1>5, SumStep
=============================================================================

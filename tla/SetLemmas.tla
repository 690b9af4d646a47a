----------------------------- MODULE SetLemmas -----------------------------
(***************************************************************************)
(* Lemmas about finite sets that several proofs need.                      *)
(*                                                                         *)
(* The sums the money invariants are about (MapThenSumSet of the community *)
(* modules) are folds that take the elements of a set in an order nobody   *)
(* knows.  These lemmas say, for every finite set, what the proofs need of *)
(* them: taking one element out, adding one, changing one, comparing two.  *)
(* Then sets of numbers: their least and greatest element, and the list of *)
(* them in ascending order.                                                *)
(*                                                                         *)
(* The induction is on the strict subsets of a finite set, stated as its   *)
(* least-element principle: a set of finite sets that has a counterexample *)
(* has a smallest one.                                                     *)
(***************************************************************************)
EXTENDS Integers, Sequences, FiniteSets, FiniteSetsExt, Functions, FiniteSetTheorems,
        SequenceTheorems, TLAPS

SumOver(f, S) == MapThenSumSet(LAMBDA x : f[x], S)

Pick(s) == CHOOSE x \in s : TRUE

\* A set of numbers in ascending order, and the elements of list t at places S
Sorted(S) ==
  [i \in 1..Cardinality(S) |-> CHOOSE k \in S : Cardinality({j \in S : j < k}) = i - 1]
Picked(t, S) == [j \in DOMAIN Sorted(S) |-> t[Sorted(S)[j]]]

\* The recursive function of the fold over the subsets of S
IsFold(f, g, S) ==
  g = [s \in SUBSET S |-> IF s = {} THEN 0 ELSE f[Pick(s)] + g[s \ {Pick(s)}]]
FoldsAt(f, g, s) ==
  g[s] = IF s = {} THEN 0 ELSE f[Pick(s)] + g[s \ {Pick(s)}]
--------------------------------------------------------------------------------
LEMMA PickIn == ASSUME NEW s, s # {} PROVE Pick(s) \in s
  BY DEF Pick

LEMMA SmallestSubset ==
  ASSUME NEW S, IsFiniteSet(S), NEW T, T \subseteq SUBSET S, T # {}
  PROVE  \E t \in T : \A u \in T : u \subseteq t => u = t
<1>1. IsWellFoundedOn(StrictSubsetOrdering(S), FiniteSubsetsOf(S))
  BY FS_StrictSubsetOrderingWellFounded
<1>2. T \subseteq FiniteSubsetsOf(S)
  BY FS_Subset DEF FiniteSubsetsOf
<1>3. PICK t \in T : \A y \in T : ~(<<y, t>> \in StrictSubsetOrdering(S))
  BY <1>1, <1>2, WFMin
<1>4. QED
  BY <1>3, Zenon DEF StrictSubsetOrdering

\* A set of numbers below a bound has a least and a greatest element.
LEMMA MinMaxIn ==
  ASSUME NEW N \in Nat, NEW S \in SUBSET (0..N), S # {}
  PROVE  Min(S) \in S /\ Max(S) \in S
<1> DEFINE R == 0..N
<1>1. IsFiniteSet(R)
  BY FS_Interval
<1> HIDE DEF R
<1>0. ASSUME NEW W, W \subseteq SUBSET R, W # {}
      PROVE  \E t \in W : \A u \in W : u \subseteq t => u = t
  BY <1>0, <1>1, SmallestSubset
<1>2. \E m \in S : \A y \in S : m <= y
  <2> DEFINE T == {0..j : j \in S}
  <2>1. \A j \in S : 0..j \in SUBSET (0..N) /\ j..N \in SUBSET (0..N)
    OBVIOUS
  <2>2. T \subseteq SUBSET R /\ T # {}
    BY <2>1 DEF R
  <2> HIDE DEF T
  <2>5. PICK t \in T : \A u \in T : u \subseteq t => u = t
    BY <1>0, <2>2
  <2>3. PICK m \in S : t = 0..m
    BY DEF T
  <2>4. ASSUME NEW y \in S, y < m PROVE FALSE
    <3>1. 0..y \in T
      BY DEF T
    <3>2. 0..y \subseteq 0..m /\ m \in 0..m /\ m \notin 0..y
      BY <2>4
    <3> QED BY <2>5, <2>3, <3>1, <3>2
  <2> QED BY <2>4
<1>3. \E m \in S : \A y \in S : m >= y
  <2> DEFINE T == {j..N : j \in S}
  <2>1. \A j \in S : 0..j \in SUBSET (0..N) /\ j..N \in SUBSET (0..N)
    OBVIOUS
  <2>2. T \subseteq SUBSET R /\ T # {}
    BY <2>1 DEF R
  <2> HIDE DEF T
  <2>5. PICK t \in T : \A u \in T : u \subseteq t => u = t
    BY <1>0, <2>2
  <2>3. PICK m \in S : t = m..N
    BY DEF T
  <2>4. ASSUME NEW y \in S, y > m PROVE FALSE
    <3>1. y..N \in T
      BY DEF T
    <3>2. y..N \subseteq m..N /\ m \in m..N /\ m \notin y..N
      BY <2>4
    <3> QED BY <2>5, <2>3, <3>1, <3>2
  <2> QED BY <2>4
<1> QED BY <1>2, <1>3 DEF Min, Max

\* The form of it the lemmas below use: what fails of no least set never fails.
LEMMA NoSmallest ==
  ASSUME NEW S, IsFiniteSet(S), NEW T, T \subseteq SUBSET S,
         \A t \in T : \E u \in T : u \subseteq t /\ u # t
  PROVE  T = {}
  BY SmallestSubset

LEMMA FoldAt ==
  ASSUME NEW f, NEW g, NEW S, IsFold(f, g, S), NEW s \in SUBSET S
  PROVE  FoldsAt(f, g, s)
  BY Zenon DEF IsFold, FoldsAt

\* Two such functions agree wherever both are defined.
LEMMA FoldsAgree ==
  ASSUME NEW f, NEW g, NEW h, NEW S, NEW R, IsFiniteSet(S),
         IsFold(f, g, S), IsFold(f, h, R)
  PROVE  \A s \in SUBSET (S \cap R) : g[s] = h[s]
<1> DEFINE Bad == {s \in SUBSET (S \cap R) : g[s] # h[s]}
<1>1. ASSUME NEW t \in Bad PROVE \E u \in Bad : u \subseteq t /\ u # t
  <2>1. t \in SUBSET S /\ t \in SUBSET R /\ t \ {Pick(t)} \in SUBSET (S \cap R)
    OBVIOUS
  <2>0. FoldsAt(f, g, t) /\ FoldsAt(f, h, t)
    BY <2>1, FoldAt
  <2>2. g[t] = IF t = {} THEN 0 ELSE f[Pick(t)] + g[t \ {Pick(t)}]
    BY <2>0, Zenon DEF FoldsAt
  <2>3. h[t] = IF t = {} THEN 0 ELSE f[Pick(t)] + h[t \ {Pick(t)}]
    BY <2>0, Zenon DEF FoldsAt
  <2>4. t # {} /\ g[t \ {Pick(t)}] # h[t \ {Pick(t)}]
    BY <2>2, <2>3
  <2>5. Pick(t) \in t
    BY <2>4, PickIn
  <2>6. QED
    BY <2>1, <2>4, <2>5
<1>2. Bad \subseteq SUBSET S
  OBVIOUS
<1> HIDE DEF Bad
<1>3. Bad = {}
  BY <1>1, <1>2, NoSmallest
<1>4. QED
  BY <1>3 DEF Bad

LEMMA FoldExists ==
  ASSUME NEW f, NEW S, IsFiniteSet(S)
  PROVE  \E g : IsFold(f, g, S)
<1> DEFINE Fold(s) == CHOOSE g : IsFold(f, g, s)
           Bad == {s \in SUBSET S : ~\E g : IsFold(f, g, s)}
<1>1. ASSUME NEW t \in Bad, \A u \in Bad : u \subseteq t => u = t PROVE FALSE
  <2>1. \A u \in SUBSET t : u # t => IsFold(f, Fold(u), u)
    BY <1>1
  <2>2. IsFiniteSet(t)
    BY FS_Subset
  <2> DEFINE below(s) == IF s = {} THEN 0
                         ELSE f[Pick(s)] + Fold(s \ {Pick(s)})[s \ {Pick(s)}]
             h == [s \in SUBSET t |-> below(s)]
  <2>3. ASSUME NEW s \in SUBSET t, s # t PROVE h[s] = Fold(s)[s]
    <3> DEFINE r == s \ {Pick(s)}
    <3>1. IsFold(f, Fold(s), s) /\ r \in SUBSET s /\ r \in SUBSET t
      BY <2>1, <2>3
    <3> HIDE DEF Fold
    <3>2. Fold(s)[s] = IF s = {} THEN 0 ELSE f[Pick(s)] + Fold(s)[r]
      BY <3>1, FoldAt DEF FoldsAt
    <3>3. CASE s = {}
      BY <3>2, <3>3
    <3>4. CASE s # {}
      <4>1. r # t
        BY <3>4, PickIn
      <4>2. IsFold(f, Fold(r), r)
        BY <2>1, <3>1, <4>1
      <4>3. IsFiniteSet(r) /\ r \in SUBSET (r \cap s)
        BY <2>2, <3>1, FS_Subset
      <4> HIDE DEF r
      <4>4. Fold(r)[r] = Fold(s)[r]
        BY <3>1, <4>2, <4>3, FoldsAgree
      <4>5. h[s] = f[Pick(s)] + Fold(r)[r]
        BY <3>4 DEF r
      <4>6. QED
        BY <3>2, <3>4, <4>4, <4>5
    <3>5. QED
      BY <3>3, <3>4
  <2>4. ASSUME NEW s \in SUBSET t
        PROVE  h[s] = IF s = {} THEN 0 ELSE f[Pick(s)] + h[s \ {Pick(s)}]
    <3>1. CASE s = {}
      BY <3>1
    <3>2. CASE s # {}
      <4>1. s \ {Pick(s)} \in SUBSET t /\ s \ {Pick(s)} # t
        BY <3>2, PickIn
      <4>2. h[s] = f[Pick(s)] + Fold(s \ {Pick(s)})[s \ {Pick(s)}]
        BY <3>2
      <4> HIDE DEF h, Fold
      <4>3. h[s \ {Pick(s)}] = Fold(s \ {Pick(s)})[s \ {Pick(s)}]
        BY <2>3, <4>1
      <4>4. QED
        BY <3>2, <4>2, <4>3
    <3>3. QED
      BY <3>1, <3>2
  <2>5. h = [s \in SUBSET t |-> h[s]]
    OBVIOUS
  <2> HIDE DEF h
  <2>6. h = [s \in SUBSET t |-> IF s = {} THEN 0 ELSE f[Pick(s)] + h[s \ {Pick(s)}]]
    BY <2>4, <2>5
  <2>7. IsFold(f, h, t)
    BY <2>6, Zenon DEF IsFold
  <2>8. QED
    BY <2>7
<1>2. Bad \subseteq SUBSET S
  OBVIOUS
<1> HIDE DEF Bad
<1>3. Bad = {}
  BY <1>1, <1>2, SmallestSubset
<1>4. QED
  BY <1>3 DEF Bad

LEMMA SumOverFold ==
  ASSUME NEW f, NEW S
  PROVE  SumOver(f, S) = (CHOOSE g : IsFold(f, g, S))[S]
  BY DEF SumOver, MapThenSumSet, MapThenFoldSet, Pick, IsFold

\* Any fold over a set that includes S sums it.
LEMMA SumOverIsFold ==
  ASSUME NEW f, NEW g, NEW S, NEW R, IsFiniteSet(S), S \subseteq R, IsFold(f, g, R)
  PROVE  SumOver(f, S) = g[S]
<1> DEFINE h == CHOOSE e : IsFold(f, e, S)
<1>1. IsFold(f, h, S)
  BY FoldExists
<1> HIDE DEF h
<1>2. h[S] = g[S]
  BY <1>1, FoldsAgree
<1>3. QED
  BY <1>2, SumOverFold DEF h
--------------------------------------------------------------------------------
LEMMA SumOverEmpty == ASSUME NEW f PROVE SumOver(f, {}) = 0
<1>1. IsFiniteSet({})
  BY FS_EmptySet
<1>2. PICK g : IsFold(f, g, {})
  BY <1>1, FoldExists
<1>3. QED
  BY <1>1, <1>2, SumOverIsFold, FoldAt DEF FoldsAt

LEMMA SumOverPick ==
  ASSUME NEW f, NEW S, IsFiniteSet(S), S # {}
  PROVE  SumOver(f, S) = f[Pick(S)] + SumOver(f, S \ {Pick(S)})
<1>1. PICK g : IsFold(f, g, S)
  BY FoldExists
<1>2. SumOver(f, S) = g[S]
  BY <1>1, SumOverIsFold
<1>3. IsFiniteSet(S \ {Pick(S)})
  BY FS_Subset
<1>4. SumOver(f, S \ {Pick(S)}) = g[S \ {Pick(S)}]
  BY <1>1, <1>3, SumOverIsFold
<1>5. g[S] = f[Pick(S)] + g[S \ {Pick(S)}]
  BY <1>1, FoldAt DEF FoldsAt
<1>6. QED
  BY <1>2, <1>4, <1>5

\* A sum of integers is one.
LEMMA SumOverInt ==
  ASSUME NEW f, NEW S, IsFiniteSet(S), \A x \in S : f[x] \in Int
  PROVE  SumOver(f, S) \in Int
<1> DEFINE Bad == {s \in SUBSET S : SumOver(f, s) \notin Int}
<1>1. ASSUME NEW t \in Bad PROVE \E u \in Bad : u \subseteq t /\ u # t
  <2>1. IsFiniteSet(t)
    BY FS_Subset
  <2>2. t # {}
    BY SumOverEmpty
  <2>3. Pick(t) \in t
    BY <2>2, PickIn
  <2>4. SumOver(f, t) = f[Pick(t)] + SumOver(f, t \ {Pick(t)})
    BY <2>1, <2>2, SumOverPick
  <2>5. SumOver(f, t \ {Pick(t)}) \notin Int
    BY <2>3, <2>4
  <2>6. QED
    BY <2>3, <2>5
<1>2. Bad \subseteq SUBSET S
  OBVIOUS
<1> HIDE DEF Bad
<1>3. Bad = {}
  BY <1>1, <1>2, NoSmallest
<1>4. QED
  BY <1>3 DEF Bad

\* The order in which the elements are taken does not matter.
LEMMA SumOverRemove ==
  ASSUME NEW f, NEW S, IsFiniteSet(S), \A x \in S : f[x] \in Int, NEW x \in S
  PROVE  SumOver(f, S) = f[x] + SumOver(f, S \ {x})
<1> DEFINE Splits(s) == \A y \in s : SumOver(f, s) = f[y] + SumOver(f, s \ {y})
           Bad == {s \in SUBSET S : ~Splits(s)}
<1>1. ASSUME NEW t \in Bad, \A u \in Bad : u \subseteq t => u = t PROVE FALSE
  <2>1. PICK y \in t : SumOver(f, t) # f[y] + SumOver(f, t \ {y})
    OBVIOUS
  <2> DEFINE c == Pick(t)
  <2>2. IsFiniteSet(t) /\ c \in t
    BY <2>1, FS_Subset, PickIn
  <2> HIDE DEF c
  <2>3. SumOver(f, t) = f[c] + SumOver(f, t \ {c})
    BY <2>1, <2>2, SumOverPick DEF c
  <2>4. y # c
    BY <2>1, <2>3
  <2>5. t \ {c} \in SUBSET S /\ t \ {y} \in SUBSET S /\ t \ {c} # t /\ t \ {y} # t
    BY <2>2
  <2>6. Splits(t \ {c}) /\ Splits(t \ {y})
    BY <1>1, <2>5
  <2>7. (t \ {c}) \ {y} = (t \ {y}) \ {c}
    OBVIOUS
  <2>8. SumOver(f, t \ {c}) = f[y] + SumOver(f, (t \ {c}) \ {y})
    BY <2>1, <2>4, <2>6
  <2>9. SumOver(f, t \ {y}) = f[c] + SumOver(f, (t \ {c}) \ {y})
    BY <2>2, <2>4, <2>6, <2>7
  <2>10. IsFiniteSet((t \ {c}) \ {y})
    BY <2>2, FS_Subset
  <2>11. SumOver(f, (t \ {c}) \ {y}) \in Int
    BY <2>10, SumOverInt
  <2>12. f[y] \in Int /\ f[c] \in Int
    BY <2>2
  <2>13. QED
    BY <2>1, <2>3, <2>8, <2>9, <2>11, <2>12
<1>2. Bad \subseteq SUBSET S
  OBVIOUS
<1> HIDE DEF Bad
<1>3. Bad = {}
  BY <1>1, <1>2, SmallestSubset
<1>4. S \notin Bad
  BY <1>3
<1>5. QED
  BY <1>4 DEF Bad

LEMMA SumOverInsert ==
  ASSUME NEW f, NEW S, IsFiniteSet(S), NEW x, x \notin S,
         \A y \in S \cup {x} : f[y] \in Int
  PROVE  SumOver(f, S \cup {x}) = SumOver(f, S) + f[x]
<1>1. IsFiniteSet(S \cup {x}) /\ (S \cup {x}) \ {x} = S
  BY FS_AddElement
<1>2. SumOver(f, S \cup {x}) = f[x] + SumOver(f, S)
  BY <1>1, SumOverRemove
<1>3. SumOver(f, S) \in Int /\ f[x] \in Int
  BY SumOverInt
<1>4. QED
  BY <1>2, <1>3

\* Only the summands count.
LEMMA SumOverEqual ==
  ASSUME NEW f, NEW g, NEW S, IsFiniteSet(S), \A x \in S : f[x] = g[x]
  PROVE  SumOver(f, S) = SumOver(g, S)
<1> DEFINE Bad == {s \in SUBSET S : SumOver(f, s) # SumOver(g, s)}
<1>1. ASSUME NEW t \in Bad PROVE \E u \in Bad : u \subseteq t /\ u # t
  <2>1. IsFiniteSet(t)
    BY FS_Subset
  <2>2. t # {}
    BY SumOverEmpty
  <2>3. Pick(t) \in t
    BY <2>2, PickIn
  <2>4. /\ SumOver(f, t) = f[Pick(t)] + SumOver(f, t \ {Pick(t)})
        /\ SumOver(g, t) = g[Pick(t)] + SumOver(g, t \ {Pick(t)})
    BY <2>1, <2>2, SumOverPick
  <2>5. SumOver(f, t \ {Pick(t)}) # SumOver(g, t \ {Pick(t)})
    BY <2>3, <2>4
  <2>6. QED
    BY <2>3, <2>5
<1>2. Bad \subseteq SUBSET S
  OBVIOUS
<1> HIDE DEF Bad
<1>3. Bad = {}
  BY <1>1, <1>2, NoSmallest
<1>4. QED
  BY <1>3 DEF Bad

LEMMA SumOverZero ==
  ASSUME NEW f, NEW S, IsFiniteSet(S), \A x \in S : f[x] = 0
  PROVE  SumOver(f, S) = 0
<1> DEFINE Bad == {s \in SUBSET S : SumOver(f, s) # 0}
<1>1. ASSUME NEW t \in Bad PROVE \E u \in Bad : u \subseteq t /\ u # t
  <2>1. IsFiniteSet(t) /\ t # {}
    BY FS_Subset, SumOverEmpty
  <2>2. Pick(t) \in t
    BY <2>1, PickIn
  <2>3. SumOver(f, t) = f[Pick(t)] + SumOver(f, t \ {Pick(t)})
    BY <2>1, SumOverPick
  <2>4. SumOver(f, t \ {Pick(t)}) # 0
    BY <2>2, <2>3
  <2> QED BY <2>2, <2>4
<1>2. Bad \subseteq SUBSET S
  OBVIOUS
<1> HIDE DEF Bad
<1>3. Bad = {}
  BY <1>1, <1>2, NoSmallest
<1> QED BY <1>3 DEF Bad

\* One summand changes, and the sum changes by as much.
LEMMA SumOverChange ==
  ASSUME NEW f, NEW g, NEW S, IsFiniteSet(S), NEW x \in S,
         \A y \in S : f[y] \in Int /\ g[y] \in Int,
         \A y \in S \ {x} : f[y] = g[y]
  PROVE  SumOver(g, S) = SumOver(f, S) + (g[x] - f[x])
<1>1. IsFiniteSet(S \ {x})
  BY FS_Subset
<1>2. SumOver(f, S \ {x}) = SumOver(g, S \ {x})
  BY <1>1, SumOverEqual
<1>3. /\ SumOver(f, S) = f[x] + SumOver(f, S \ {x})
      /\ SumOver(g, S) = g[x] + SumOver(g, S \ {x})
  BY SumOverRemove
<1>4. SumOver(f, S \ {x}) \in Int
  BY <1>1, SumOverInt
<1>5. QED
  BY <1>2, <1>3, <1>4

\* A sum is at least each smaller one, summand by summand.
LEMMA SumOverMonotone ==
  ASSUME NEW f, NEW g, NEW S, IsFiniteSet(S),
         \A y \in S : f[y] \in Int /\ g[y] \in Int /\ f[y] <= g[y]
  PROVE  SumOver(f, S) <= SumOver(g, S)
<1> DEFINE Bad == {s \in SUBSET S : ~(SumOver(f, s) <= SumOver(g, s))}
<1>1. ASSUME NEW t \in Bad PROVE \E u \in Bad : u \subseteq t /\ u # t
  <2>1. IsFiniteSet(t)
    BY FS_Subset
  <2>2. t # {}
    BY SumOverEmpty
  <2>3. Pick(t) \in t
    BY <2>2, PickIn
  <2>4. /\ SumOver(f, t) = f[Pick(t)] + SumOver(f, t \ {Pick(t)})
        /\ SumOver(g, t) = g[Pick(t)] + SumOver(g, t \ {Pick(t)})
    BY <2>1, <2>2, SumOverPick
  <2>5. IsFiniteSet(t \ {Pick(t)})
    BY <2>1, FS_Subset
  <2>6. SumOver(f, t \ {Pick(t)}) \in Int /\ SumOver(g, t \ {Pick(t)}) \in Int
    BY <2>5, SumOverInt
  <2>7. f[Pick(t)] \in Int /\ g[Pick(t)] \in Int /\ f[Pick(t)] <= g[Pick(t)]
    BY <2>3
  <2>8. ~(SumOver(f, t \ {Pick(t)}) <= SumOver(g, t \ {Pick(t)}))
    BY <2>4, <2>6, <2>7
  <2>9. QED
    BY <2>3, <2>8
<1>2. Bad \subseteq SUBSET S
  OBVIOUS
<1> HIDE DEF Bad
<1>3. Bad = {}
  BY <1>1, <1>2, NoSmallest
<1>4. S \notin Bad
  BY <1>3
<1>5. QED
  BY <1>4 DEF Bad

\* A sum of naturals is at least each of its summands.
LEMMA SumOverNat ==
  ASSUME NEW f, NEW S, IsFiniteSet(S), \A y \in S : f[y] \in Nat
  PROVE  SumOver(f, S) \in Nat /\ \A x \in S : f[x] <= SumOver(f, S)
<1>1. ASSUME NEW T \in SUBSET S PROVE SumOver(f, T) \in Nat
  <2> DEFINE z == [y \in S |-> 0]
             Bad == {s \in SUBSET T : SumOver(f, s) \notin Nat}
  <2>1. IsFiniteSet(T)
    BY FS_Subset
  <2>2. ASSUME NEW t \in Bad PROVE \E u \in Bad : u \subseteq t /\ u # t
    <3>1. IsFiniteSet(t)
      BY <2>1, FS_Subset
    <3>2. t # {}
      BY SumOverEmpty
    <3>3. Pick(t) \in t
      BY <3>2, PickIn
    <3>4. SumOver(f, t) = f[Pick(t)] + SumOver(f, t \ {Pick(t)})
      BY <3>1, <3>2, SumOverPick
    <3>5. SumOver(f, t \ {Pick(t)}) \notin Nat
      BY <3>3, <3>4
    <3>6. QED
      BY <3>3, <3>5
  <2>3. Bad \subseteq SUBSET T
    OBVIOUS
  <2> HIDE DEF Bad
  <2>4. Bad = {}
    BY <2>1, <2>2, <2>3, NoSmallest
  <2>5. QED
    BY <2>4 DEF Bad
<1>2. ASSUME NEW x \in S PROVE f[x] <= SumOver(f, S)
  <2>1. SumOver(f, S) = f[x] + SumOver(f, S \ {x})
    BY SumOverRemove
  <2>2. SumOver(f, S \ {x}) \in Nat
    BY <1>1
  <2>3. QED
    BY <2>1, <2>2
<1>3. QED
  BY <1>1, <1>2
--------------------------------------------------------------------------------
(* Lists *)

\* Sorted lists every number of a finite set once, each behind the smaller ones.
LEMMA SortedLists ==
  ASSUME NEW S \in SUBSET Int, IsFiniteSet(S)
  PROVE  /\ Sorted(S) \in Seq(S)
         /\ Len(Sorted(S)) = Cardinality(S)
         /\ Range(Sorted(S)) = S
         /\ IsInjective(Sorted(S))
         /\ \A i \in 1..Cardinality(S) :
              Cardinality({j \in S : j < Sorted(S)[i]}) = i - 1
<1> DEFINE below(k) == {j \in S : j < k}
           f == [k \in S |-> Cardinality(below(k))]
           n == Cardinality(S)
           a == Sorted(S)
<1>0. n \in Nat
  BY FS_CardinalityType
<1>1. \A k \in S : IsFiniteSet(below(k)) /\ f[k] \in Nat /\ f[k] < n
  <2> TAKE k \in S
  <2>1. below(k) \in SUBSET S /\ k \notin below(k)
    <3>1. k \in Int
      OBVIOUS
    <3>2. ~(k < k)
      BY <3>1
    <3> QED BY <3>2
  <2>2. /\ IsFiniteSet(below(k)) /\ Cardinality(below(k)) <= n
        /\ n = Cardinality(below(k)) => S = below(k)
    BY <2>1, FS_Subset
  <2>3. Cardinality(below(k)) \in Nat
    BY <2>2, FS_CardinalityType
  <2> QED BY <1>0, <2>1, <2>2, <2>3
<1>2. \A k, m \in S : k < m => f[k] < f[m]
  <2> SUFFICES ASSUME NEW k \in S, NEW m \in S, k < m PROVE f[k] < f[m]
    OBVIOUS
  <2>1. k \notin below(k) /\ below(k) \cup {k} \in SUBSET below(m)
    <3>1. k \in Int /\ m \in Int /\ \A j \in S : j \in Int
      OBVIOUS
    <3>2. ~(k < k) /\ \A j \in S : j < k => j < m
      BY <3>1
    <3> QED BY <3>2
  <2>2. Cardinality(below(k) \cup {k}) = f[k] + 1
    BY <1>1, <2>1, FS_AddElement
  <2>3. Cardinality(below(k) \cup {k}) <= f[m]
    BY <1>1, <2>1, FS_Subset
  <2> QED BY <1>1, <2>2, <2>3
<1>3. f \in Injection(S, 0..(n - 1))
  <2>1. f \in [S -> 0..(n - 1)]
    BY <1>0, <1>1
  <2>2. \A k, m \in S : f[k] = f[m] => k = m
    BY <1>1, <1>2
  <2> HIDE DEF f
  <2> QED BY <2>1, <2>2 DEF Injection, IsInjective
<1>4. IsFiniteSet(0..(n - 1)) /\ Cardinality(0..(n - 1)) = n
  BY <1>0, FS_Interval
<1>5. f \in Surjection(S, 0..(n - 1))
  <2> HIDE DEF f, n
  <2> QED BY <1>3, <1>4, FS_Injection DEF n
<1>6. \A i \in 1..n : a[i] \in S /\ f[a[i]] = i - 1
  <2> TAKE i \in 1..n
  <2>1. i - 1 \in 0..(n - 1)
    BY <1>0
  <2>2. \E k \in S : f[k] = i - 1
    <3> HIDE DEF f, n
    <3> QED BY <1>5, <2>1 DEF Surjection
  <2>3. \E k \in S : Cardinality(below(k)) = i - 1
    BY <2>2
  <2>4. a[i] = CHOOSE k \in S : Cardinality(below(k)) = i - 1
    BY DEF Sorted
  <2> QED BY <2>3, <2>4
<1>7. a \in [1..n -> S] /\ DOMAIN a = 1..n
  <2>1. a = [i \in 1..n |-> CHOOSE k \in S : Cardinality(below(k)) = i - 1]
    BY DEF Sorted
  <2> QED BY <1>6, <2>1
<1>8. a \in Seq(S) /\ Len(a) = n
  <2> HIDE DEF a, n
  <2> QED BY <1>0, <1>7, IsASeq, LenProperties
<1>9. \A k \in S : f[k] + 1 \in 1..n /\ a[f[k] + 1] = k
  <2> TAKE k \in S
  <2>1. f[k] + 1 \in 1..n
    BY <1>0, <1>1
  <2>2. a[f[k] + 1] \in S /\ f[a[f[k] + 1]] = f[k]
    BY <1>1, <1>6, <2>1
  <2> HIDE DEF f, a
  <2> QED BY <1>3, <2>1, <2>2 DEF Injection, IsInjective
<1>10. Range(a) = S
  <2> HIDE DEF f, a, n
  <2> QED BY <1>7, <1>9 DEF Range
<1>11. IsInjective(a)
  <2> SUFFICES ASSUME NEW i \in 1..n, NEW j \in 1..n, a[i] = a[j] PROVE i = j
    BY <1>7 DEF IsInjective
  <2> HIDE DEF f, a
  <2> QED BY <1>0, <1>6
<1>12. \A i \in 1..n : Cardinality(below(a[i])) = i - 1
  BY <1>6
<1> QED BY <1>8, <1>10, <1>11, <1>12

\* Picking places of a list keeps what is there, once each if it was there once.
LEMMA PickedLists ==
  ASSUME NEW X, NEW t \in Seq(X), NEW S \in SUBSET DOMAIN t
  PROVE  /\ Picked(t, S) \in Seq(X)
         /\ Range(Picked(t, S)) = {t[i] : i \in S}
         /\ IsInjective(t) => IsInjective(Picked(t, S))
<1> DEFINE len == Len(t)
           at == Sorted(S)
           p == Picked(t, S)
<1>1. len \in Nat /\ DOMAIN t = 1..len /\ \A i \in 1..len : t[i] \in X
  BY LenProperties, ElementOfSeq
<1>2. S \in SUBSET (1..len) /\ S \in SUBSET Int
  BY <1>1
<1>3. IsFiniteSet(S)
  <2>1. IsFiniteSet(1..len)
    BY <1>1, FS_Interval
  <2> HIDE DEF len
  <2> QED BY <1>2, <2>1, FS_Subset
<1>4. /\ at \in Seq(S) /\ Range(at) = S /\ IsInjective(at)
  BY <1>2, <1>3, SortedLists
<1>5. Len(at) \in Nat /\ DOMAIN at = 1..Len(at) /\ \A j \in 1..Len(at) : at[j] \in S
  <2> HIDE DEF at
  <2> QED BY <1>4, LenProperties, ElementOfSeq
<1>6. p = [j \in 1..Len(at) |-> t[at[j]]]
  BY <1>5 DEF Picked
<1>7. \A j \in 1..Len(at) : t[at[j]] \in X
  BY <1>1, <1>2, <1>5
<1> HIDE DEF at, p
<1>8. p \in Seq(X) /\ DOMAIN p = 1..Len(at)
  BY <1>5, <1>6, <1>7, IsASeq
<1>9. \A j \in 1..Len(at) : p[j] = t[at[j]]
  BY <1>6
<1>10. ASSUME IsInjective(t) PROVE IsInjective(p)
  <2> SUFFICES ASSUME NEW i \in 1..Len(at), NEW j \in 1..Len(at), p[i] = p[j] PROVE i = j
    BY <1>8 DEF IsInjective
  <2>1. at[i] \in DOMAIN t /\ at[j] \in DOMAIN t
    BY <1>5
  <2>2. at[i] = at[j]
    BY <1>9, <1>10, <2>1 DEF IsInjective
  <2> QED BY <1>4, <1>5, <2>2 DEF IsInjective
<1>11. Range(p) = {t[i] : i \in S}
  <2>1. ASSUME NEW x \in Range(p) PROVE x \in {t[i] : i \in S}
    BY <1>5, <1>8, <1>9, <2>1 DEF Range
  <2>2. ASSUME NEW i \in S PROVE t[i] \in Range(p)
    <3>1. PICK j \in 1..Len(at) : at[j] = i
      BY <1>4, <1>5 DEF Range
    <3> QED BY <1>8, <1>9, <3>1 DEF Range
  <2> QED BY <2>1, <2>2
<1> QED BY <1>8, <1>10, <1>11 DEF p
\* Two lists one behind the other have the elements of both, once each if they share none.
LEMMA ConcatLists ==
  ASSUME NEW X, NEW u \in Seq(X), NEW a \in Seq(X)
  PROVE  /\ u \o a \in Seq(X) /\ Range(u \o a) = Range(u) \cup Range(a)
         /\ IsInjective(u) /\ IsInjective(a) /\ Range(u) \cap Range(a) = {} => IsInjective(u \o a)
<1> DEFINE t == u \o a
           m == Len(u)
           n == Len(a)
<1>1. m \in Nat /\ n \in Nat /\ DOMAIN u = 1..m /\ DOMAIN a = 1..n
  BY LenProperties
<1>2. t \in Seq(X) /\ Len(t) = m + n /\ DOMAIN t = 1..(m + n)
  BY ConcatProperties, LenProperties
<1>3. \A i \in 1..m : t[i] = u[i]
  OBVIOUS
<1>4. \A j \in 1..n : t[m + j] = a[j]
  OBVIOUS
<1> HIDE DEF t, m, n
<1>5. ASSUME NEW i \in 1..(m + n)
      PROVE  \/ i \in 1..m /\ t[i] = u[i]
             \/ \E j \in 1..n : i = m + j /\ t[i] = a[j]
  <2>1. CASE i <= m
    <3>1. i \in 1..m
      BY <1>1, <2>1
    <3> QED BY <1>3, <3>1
  <2>2. CASE ~(i <= m)
    <3>1. i - m \in 1..n /\ i = m + (i - m)
      BY <1>1, <2>2
    <3> QED BY <1>4, <3>1
  <2> QED BY <2>1, <2>2
<1>6. Range(t) = Range(u) \cup Range(a)
  <2>1. ASSUME NEW x \in Range(t) PROVE x \in Range(u) \cup Range(a)
    BY <1>1, <1>2, <1>5, <2>1 DEF Range
  <2>2. ASSUME NEW i \in 1..m PROVE u[i] \in Range(t)
    <3>1. i \in 1..(m + n)
      BY <1>1
    <3> QED BY <1>2, <1>3, <3>1 DEF Range
  <2>3. ASSUME NEW j \in 1..n PROVE a[j] \in Range(t)
    <3>1. m + j \in 1..(m + n)
      BY <1>1
    <3> QED BY <1>2, <1>4, <3>1 DEF Range
  <2> QED BY <1>1, <2>1, <2>2, <2>3 DEF Range
<1>7. ASSUME IsInjective(u), IsInjective(a), Range(u) \cap Range(a) = {} PROVE IsInjective(t)
  <2> SUFFICES ASSUME NEW i \in 1..(m + n), NEW j \in 1..(m + n), t[i] = t[j] PROVE i = j
    BY <1>2 DEF IsInjective
  <2>1. \A k \in 1..m, l \in 1..n : u[k] # a[l]
    BY <1>1, <1>7 DEF Range
  <2>2. CASE i \in 1..m /\ t[i] = u[i]
    BY <1>1, <1>5, <1>7, <2>1, <2>2 DEF IsInjective
  <2>3. CASE \E k \in 1..n : i = m + k /\ t[i] = a[k]
    BY <1>1, <1>5, <1>7, <2>1, <2>3 DEF IsInjective
  <2> QED BY <1>5, <2>2, <2>3
<1> QED BY <1>2, <1>6, <1>7 DEF t
=============================================================================

-------------------------- MODULE SpecDecode_proofs --------------------------
(***************************************************************************)
(* Theorems about SpecDecode for every vocabulary, every pair of models,   *)
(* every prompt, budget, window and EOS id.                                *)
(***************************************************************************)
EXTENDS SpecDecode, FiniteSetTheorems, TLAPS

-----------------------------------------------------------------------------
(* Induction over numbers and over the subsets of a finite set, stated of  *)
(* sets: what a recursive definition computes is proved with these.        *)

(* A set of naturals has a least element: the intervals below its elements *)
(* are finite sets, well-founded by inclusion.                             *)
LEMMA LeastNatural ==
    ASSUME NEW T \in SUBSET Nat, T # {}
    PROVE  \E n \in T : \A m \in T : n <= m
<1>1. PICK n \in T : TRUE
  OBVIOUS
<1> DEFINE U == 0 .. n
           D == {0 .. m : m \in T \cap U}
<1>2. IsFiniteSet(U)
  BY <1>1, FS_Interval
<1>3. FiniteSubsetsOf(U) = SUBSET U
  BY <1>2, FS_FiniteSubsetsOfFinite
<1>4. IsWellFoundedOn(StrictSubsetOrdering(U), SUBSET U)
  BY <1>3, FS_StrictSubsetOrderingWellFounded
<1>5. D \subseteq SUBSET U /\ D # {}
  <2>1. \A m \in T \cap U : 0 .. m \subseteq U
    OBVIOUS
  <2>2. n \in T \cap U
    OBVIOUS
  <2> QED BY <2>1, <2>2
<1>6. PICK d \in D : \A e \in D : ~ (<<e, d>> \in StrictSubsetOrdering(U))
  <2> HIDE DEF D, U
  <2> QED BY <1>4, <1>5, WFMin
<1>7. PICK m \in T \cap U : d = 0 .. m
  OBVIOUS
<1>8. ASSUME NEW k \in T, k < m PROVE FALSE
  <2>1. k \in T \cap U
    BY <1>8
  <2>2. 0 .. k \in D /\ 0 .. k \subseteq 0 .. m /\ 0 .. k # 0 .. m
    <3>1. 0 .. k \subseteq 0 .. m
      BY <1>8
    <3>2. m \in 0 .. m /\ m \notin 0 .. k
      BY <1>8
    <3> QED BY <2>1, <3>1, <3>2
  <2>3. 0 .. k \in SUBSET U /\ 0 .. m \in SUBSET U
    BY <1>5, <1>7, <2>2
  <2>4. <<0 .. k, d>> \in StrictSubsetOrdering(U)
    BY <1>7, <2>2, <2>3 DEF StrictSubsetOrdering
  <2> QED BY <1>6, <2>2, <2>4
<1> QED BY <1>7, <1>8

(* Induction over a set of naturals.                                       *)
LEMMA InductiveSet ==
    ASSUME NEW S, 0 \in S, \A n \in Nat : n \in S => n + 1 \in S
    PROVE  \A n \in Nat : n \in S
<1> SUFFICES ASSUME NEW k \in Nat, k \notin S PROVE FALSE
  OBVIOUS
<1>1. PICK n \in Nat \ S : \A m \in Nat \ S : n <= m
  <2>1. Nat \ S \in SUBSET Nat /\ Nat \ S # {}
    OBVIOUS
  <2> QED BY <2>1, LeastNatural
<1>2. n # 0 /\ n - 1 \in Nat
  OBVIOUS
<1>3. n - 1 \in S
  BY <1>1, <1>2
<1>4. n \in S
  BY <1>2, <1>3
<1> QED BY <1>4

\* f sums up a over the subsets of D, taking elements in the order CHOOSE does.
Sums(f, a, D) ==
    f = [t \in SUBSET D |->
           IF t = {} THEN 0 ELSE a[CHOOSE x \in t : TRUE] + f[t \ {CHOOSE x \in t : TRUE}]]

LEMMA TotalIs ==
    ASSUME NEW s
    PROVE  Total(s) = (CHOOSE f : Sums(f, s, DOMAIN s))[DOMAIN s]
BY DEF Total, FoldSeq, FoldFunction, FoldFunctionOnSet, MapThenFoldSet, Sums

\* The element taken from t, and the cardinality of what it leaves.
Taken(t) == CHOOSE x \in t : TRUE

LEMMA TakenLeaves ==
    ASSUME NEW D, IsFiniteSet(D), NEW t \in SUBSET D, t # {}
    PROVE  /\ Taken(t) \in t /\ t \ {Taken(t)} \in SUBSET D
           /\ \A x \in t : Cardinality(t \ {x}) = Cardinality(t) - 1
           /\ Cardinality(t) \in Nat \ {0}
<1>1. Taken(t) \in t
  BY DEF Taken
<1>2. IsFiniteSet(t)
  BY FS_Subset
<1>3. Cardinality(t) \in Nat /\ Cardinality(t) # 0
  BY <1>2, FS_CardinalityType, FS_EmptySet
<1>4. \A x \in t : Cardinality(t \ {x}) = Cardinality(t) - 1
  BY <1>2, FS_RemoveElement
<1> QED BY <1>1, <1>3, <1>4

LEMMA SumsMean ==
    ASSUME NEW f, NEW a, NEW D
    PROVE  Sums(f, a, D) <=>
             f = [t \in SUBSET D |-> IF t = {} THEN 0 ELSE a[Taken(t)] + f[t \ {Taken(t)}]]
BY DEF Sums, Taken

(* A property of the subsets of a finite set that follows from the same of *)
(* all smaller ones, the property being given by the set it defines.       *)
LEMMA SubsetInduction ==
    ASSUME NEW D, IsFiniteSet(D), NEW P,
           \A t \in SUBSET D :
             (\A u \in SUBSET D : Cardinality(u) < Cardinality(t) => u \in P) => t \in P
    PROVE  SUBSET D \subseteq P
<1> DEFINE Q == {m \in Nat : \A t \in SUBSET D : Cardinality(t) < m => t \in P}
<1>1. \A t \in SUBSET D : Cardinality(t) \in Nat
  BY FS_Subset, FS_CardinalityType
<1>2. 0 \in Q
  BY <1>1
<1>3. ASSUME NEW m \in Nat, m \in Q PROVE m + 1 \in Q
  <2>1. ASSUME NEW t \in SUBSET D, Cardinality(t) < m + 1 PROVE t \in P
    <3>1. \A u \in SUBSET D : Cardinality(u) < Cardinality(t) => Cardinality(u) < m
      BY <1>1, <2>1
    <3> QED BY <1>3, <3>1
  <2> QED BY <2>1
<1>4. \A m \in Nat : m \in Q
  <2> HIDE DEF Q
  <2> QED BY <1>2, <1>3, InductiveSet
<1> SUFFICES ASSUME NEW t \in SUBSET D PROVE t \in P
  OBVIOUS
<1>5. Cardinality(t) + 1 \in Q /\ Cardinality(t) < Cardinality(t) + 1
  BY <1>1, <1>4
<1> QED BY <1>5

LEMMA SumsExist ==
    ASSUME NEW D, IsFiniteSet(D), NEW a \in [D -> Int]
    PROVE  \E f : Sums(f, a, D)
<1> DEFINE Good(f, m) ==
             \A t \in SUBSET D : Cardinality(t) <= m =>
               f[t] = IF t = {} THEN 0 ELSE a[Taken(t)] + f[t \ {Taken(t)}]
           Q == {m \in Nat : \E f : Good(f, m)}
<1>1. \A t \in SUBSET D : Cardinality(t) \in Nat /\ (Cardinality(t) = 0 <=> t = {})
  BY FS_Subset, FS_CardinalityType, FS_EmptySet
<1>2. 0 \in Q
  <2> DEFINE f == [t \in SUBSET D |-> 0]
  <2>1. Good(f, 0)
    BY <1>1
  <2> QED BY <2>1
<1>3. ASSUME NEW m \in Nat, m \in Q PROVE m + 1 \in Q
  <2>1. PICK f : Good(f, m)
    BY <1>3
  <2> DEFINE g == [t \in SUBSET D |->
                     IF t = {} THEN 0 ELSE a[Taken(t)] + f[t \ {Taken(t)}]]
  <2>2. \A t \in SUBSET D : Cardinality(t) <= m => g[t] = f[t]
    BY <2>1
  <2>3. ASSUME NEW t \in SUBSET D, Cardinality(t) <= m + 1
        PROVE  g[t] = IF t = {} THEN 0 ELSE a[Taken(t)] + g[t \ {Taken(t)}]
    <3>1. CASE t = {}
      BY <3>1
    <3>2. CASE t # {}
      <4>1. t \ {Taken(t)} \in SUBSET D /\ Cardinality(t \ {Taken(t)}) <= m
        BY <1>1, <2>3, <3>2, TakenLeaves
      <4>2. g[t \ {Taken(t)}] = f[t \ {Taken(t)}]
        BY <2>2, <4>1
      <4> QED BY <3>2, <4>2
    <3> QED BY <3>1, <3>2
  <2>4. Good(g, m + 1)
    <3> HIDE DEF g
    <3> QED BY <2>3
  <2>5. \E h : Good(h, m + 1)
    <3> HIDE DEF g, Good
    <3> QED BY <2>4
  <2>6. m + 1 \in Nat
    OBVIOUS
  <2> HIDE DEF Good
  <2> QED BY <2>5, <2>6
<1>4. PICK f : Good(f, Cardinality(D))
  <2>1. \A m \in Nat : m \in Q
    <3> HIDE DEF Q
    <3> QED BY <1>2, <1>3, InductiveSet
  <2> QED BY <2>1, FS_CardinalityType
<1>5. \A t \in SUBSET D : Cardinality(t) <= Cardinality(D)
  BY FS_Subset
<1> DEFINE g == [t \in SUBSET D |-> f[t]]
<1>6. g = [t \in SUBSET D |-> IF t = {} THEN 0 ELSE a[Taken(t)] + g[t \ {Taken(t)}]]
  <2>1. ASSUME NEW t \in SUBSET D
        PROVE  f[t] = IF t = {} THEN 0 ELSE a[Taken(t)] + g[t \ {Taken(t)}]
    <3>1. CASE t = {}
      BY <1>4, <1>5, <3>1
    <3>2. CASE t # {}
      <4>1. t \ {Taken(t)} \in SUBSET D
        BY <3>2, TakenLeaves
      <4> QED BY <1>4, <1>5, <3>2, <4>1
    <3> QED BY <3>1, <3>2
  <2> QED BY <2>1
<1>7. Sums(g, a, D)
  <2> HIDE DEF g
  <2> QED BY <1>6, SumsMean
<1> QED BY <1>7

(* Whatever order the elements are taken in, the sum is the same: any one  *)
(* of them can be taken first.                                             *)
Peels(f, a, D) ==
    /\ f[{}] = 0
    /\ \A t \in SUBSET D : f[t] \in Int /\ \A x \in t : f[t] = a[x] + f[t \ {x}]

LEMMA SumsPeel ==
    ASSUME NEW D, IsFiniteSet(D), NEW a \in [D -> Int], NEW f, Sums(f, a, D)
    PROVE  Peels(f, a, D)
<1>1. /\ f[{}] = 0
      /\ \A t \in SUBSET D : t # {} => f[t] = a[Taken(t)] + f[t \ {Taken(t)}]
  <2>1. f = [t \in SUBSET D |-> IF t = {} THEN 0 ELSE a[Taken(t)] + f[t \ {Taken(t)}]]
    BY SumsMean
  <2>2. {} \in SUBSET D
    OBVIOUS
  <2> QED BY <2>1, <2>2
<1> DEFINE P == {t \in SUBSET D : f[t] \in Int /\ \A x \in t : f[t] = a[x] + f[t \ {x}]}
<1>2. ASSUME NEW t \in SUBSET D,
             \A u \in SUBSET D : Cardinality(u) < Cardinality(t) => u \in P
      PROVE  t \in P
  <2>1. CASE t = {}
    BY <1>1, <2>1
  <2>2. CASE t # {}
    <3>1. PICK c : c = Taken(t)
      OBVIOUS
    <3>2. /\ c \in t /\ Cardinality(t) \in Nat \ {0}
          /\ \A x \in t : t \ {x} \in SUBSET D /\ Cardinality(t \ {x}) < Cardinality(t)
      BY <2>2, <3>1, TakenLeaves
    <3>3. f[t] = a[c] + f[t \ {c}] /\ f[t \ {c}] \in Int
      BY <1>1, <1>2, <2>2, <3>1, <3>2
    <3>4. f[t] \in Int
      BY <3>2, <3>3
    <3>5. ASSUME NEW x \in t, x # c PROVE f[t] = a[x] + f[t \ {x}]
      <4>1. x \in t \ {c} /\ c \in t \ {x} /\ (t \ {c}) \ {x} = (t \ {x}) \ {c}
        BY <3>2, <3>5
      <4>2. f[t \ {c}] = a[x] + f[(t \ {c}) \ {x}]
        BY <1>2, <3>2, <4>1
      <4>3. f[t \ {x}] = a[c] + f[(t \ {x}) \ {c}] /\ f[t \ {x}] \in Int
        BY <1>2, <3>2, <4>1
      <4>4. a[x] \in Int /\ a[c] \in Int
        BY <3>2
      <4>5. PICK r : r = f[(t \ {c}) \ {x}]
        OBVIOUS
      <4>6. f[t] = a[c] + (a[x] + r) /\ f[t \ {x}] = a[c] + r
        BY <3>3, <4>1, <4>2, <4>3, <4>5
      <4>7. r \in Int
        <5>1. (t \ {c}) \ {x} \in SUBSET D
          OBVIOUS
        <5>2. Cardinality((t \ {c}) \ {x}) < Cardinality(t)
          <6>1. t \ {c} \in SUBSET D /\ t \ {c} # {}
            BY <4>1
          <6>2. Cardinality((t \ {c}) \ {x}) = Cardinality(t \ {c}) - 1
                /\ Cardinality(t \ {c}) \in Nat
            BY <4>1, <6>1, TakenLeaves
          <6> QED BY <3>2, <6>2
        <5> QED BY <1>2, <4>5, <5>1, <5>2
      <4> QED BY <4>4, <4>6, <4>7
    <3> QED BY <3>3, <3>4, <3>5
  <2> QED BY <2>1, <2>2
<1>3. SUBSET D \subseteq P
  <2> HIDE DEF P
  <2> QED BY <1>2, SubsetInduction
<1> QED BY <1>1, <1>3 DEF Peels

LEMMA TotalOfAppend ==
    ASSUME NEW s \in Seq(Int), NEW x \in Int
    PROVE  Total(Append(s, x)) = Total(s) + x /\ Total(s) \in Int /\ Total(<< >>) = 0
<1> DEFINE D == 1 .. Len(s)
           E == 1 .. Len(s) + 1
           s1 == Append(s, x)
<1>1. /\ s \in [D -> Int] /\ DOMAIN s = D /\ Len(s) \in Nat
      /\ s1 \in [E -> Int] /\ DOMAIN s1 = E
      /\ (\A j \in D : s1[j] = s[j]) /\ s1[Len(s) + 1] = x
  <2>1. s \in [D -> Int] /\ DOMAIN s = D /\ Len(s) \in Nat
    OBVIOUS
  <2>2. s1 \in Seq(Int) /\ Len(s1) = Len(s) + 1
    OBVIOUS
  <2>3. s1 \in [E -> Int] /\ DOMAIN s1 = E
    <3> HIDE DEF s1
    <3> QED BY <2>1, <2>2
  <2>4. (\A j \in D : s1[j] = s[j]) /\ s1[Len(s) + 1] = x
    OBVIOUS
  <2> QED BY <2>1, <2>3, <2>4
<1>2. IsFiniteSet(D) /\ IsFiniteSet(E)
  BY <1>1, FS_Interval
<1>3. PICK f : f = CHOOSE g : Sums(g, s, D)
  OBVIOUS
<1>4. PICK f1 : f1 = CHOOSE g : Sums(g, s1, E)
  OBVIOUS
<1>5. Sums(f, s, D) /\ Sums(f1, s1, E)
  <2> HIDE DEF D, E, s1
  <2> QED BY <1>1, <1>2, <1>3, <1>4, SumsExist
<1>6. Total(s) = f[D] /\ Total(s1) = f1[E]
  <2> HIDE DEF D, E, s1
  <2> QED BY <1>1, <1>3, <1>4, TotalIs
<1>7. /\ f[{}] = 0 /\ f1[{}] = 0
      /\ \A t \in SUBSET D : f[t] \in Int /\ \A j \in t : f[t] = s[j] + f[t \ {j}]
      /\ \A t \in SUBSET E : f1[t] \in Int /\ \A j \in t : f1[t] = s1[j] + f1[t \ {j}]
  <2> HIDE DEF D, E, s1
  <2>3. s \in [D -> Int] /\ IsFiniteSet(D) /\ Sums(f, s, D)
    BY <1>1, <1>2, <1>5
  <2>4. s1 \in [E -> Int] /\ IsFiniteSet(E) /\ Sums(f1, s1, E)
    BY <1>1, <1>2, <1>5
  <2>1. Peels(f, s, D) /\ Peels(f1, s1, E)
    BY <2>3, <2>4, SumsPeel
  <2> QED BY <2>1 DEF Peels
<1> DEFINE P == {t \in SUBSET D : f1[t] = f[t]}
<1>8. ASSUME NEW t \in SUBSET D,
             \A u \in SUBSET D : Cardinality(u) < Cardinality(t) => u \in P
      PROVE  t \in P
  <2>1. CASE t = {}
    BY <1>7, <2>1
  <2>2. CASE t # {}
    <3>1. PICK j \in t : TRUE
      BY <2>2
    <3>2. t \ {j} \in SUBSET D /\ Cardinality(t \ {j}) < Cardinality(t)
      <4> HIDE DEF D
      <4> QED BY <1>2, <2>2, TakenLeaves
    <3>3. f1[t \ {j}] = f[t \ {j}]
      BY <1>8, <3>2
    <3>4. t \in SUBSET E /\ j \in D
      OBVIOUS
    <3>5. f1[t] = s1[j] + f1[t \ {j}] /\ f[t] = s[j] + f[t \ {j}] /\ s1[j] = s[j]
      <4> HIDE DEF D, E, s1
      <4> QED BY <1>1, <1>7, <3>4
    <3> QED BY <3>3, <3>5
  <2> QED BY <2>1, <2>2
<1>9. f1[D] = f[D]
  <2>1. SUBSET D \subseteq P
    <3> HIDE DEF P, D
    <3> QED BY <1>2, <1>8, SubsetInduction
  <2>2. D \in SUBSET D
    OBVIOUS
  <2> QED BY <2>1, <2>2
<1>10. E \in SUBSET E /\ Len(s) + 1 \in E /\ E \ {Len(s) + 1} = D /\ D \in SUBSET D
  BY <1>1
<1>11. f1[E] = s1[Len(s) + 1] + f1[D] /\ f[D] \in Int
  <2> HIDE DEF D, E, s1
  <2> QED BY <1>7, <1>10
<1>12. Total(s1) = Total(s) + x /\ Total(s) \in Int
  <2> HIDE DEF D, E
  <2> QED BY <1>1, <1>6, <1>9, <1>11
<1>13. Total(<< >>) = 0
  <2> DEFINE none == CHOOSE g : Sums(g, << >>, {})
  <2>1. Sums(none, << >>, {}) /\ << >> \in [{} -> Int]
    <3>1. << >> \in [{} -> Int] /\ IsFiniteSet({})
      BY FS_EmptySet
    <3> QED BY <3>1, SumsExist
  <2>2. none[{}] = 0
    <3> HIDE DEF none
    <3> QED BY <2>1, FS_EmptySet, SumsPeel DEF Peels
  <2>3. DOMAIN << >> = {}
    OBVIOUS
  <2> QED BY <2>2, <2>3, TotalIs
<1> QED BY <1>12, <1>13

\* f starts at s0 and goes from each number up to n to the next by next.
Iterates(f, n, s0, next) == f[0] = s0 /\ \A i \in 1 .. n : f[i] = next[i][f[i - 1]]

(* A sequence defined by recursion over 0 .. n exists.                     *)
LEMMA RecursionOver ==
    ASSUME NEW n \in Nat, NEW S, NEW s0 \in S, NEW next \in [1 .. n -> [S -> S]]
    PROVE  \E f \in [0 .. n -> S] : Iterates(f, n, s0, next)
<1> DEFINE Good(f, m) == f[0] = s0 /\ \A i \in 1 .. m : f[i] = next[i][f[i - 1]]
           Q == {m \in Nat : m <= n => \E f \in [0 .. m -> S] : Good(f, m)}
<1>1. 0 \in Q
  <2>1. [i \in 0 .. 0 |-> s0] \in [0 .. 0 -> S] /\ Good([i \in 0 .. 0 |-> s0], 0)
    OBVIOUS
  <2> QED BY <2>1
<1>2. ASSUME NEW m \in Nat, m \in Q PROVE m + 1 \in Q
  <2> SUFFICES ASSUME m + 1 <= n PROVE \E f \in [0 .. m + 1 -> S] : Good(f, m + 1)
    <3>1. m + 1 \in Nat
      OBVIOUS
    <3> HIDE DEF Good
    <3> QED BY <3>1
  <2>1. PICK f \in [0 .. m -> S] : Good(f, m)
    <3>1. m <= n
      OBVIOUS
    <3> HIDE DEF Good
    <3> QED BY <1>2, <3>1
  <2>2. PICK g : g = [i \in 0 .. m + 1 |-> IF i = m + 1 THEN next[m + 1][f[m]] ELSE f[i]]
    OBVIOUS
  <2>3. f[m] \in S /\ next[m + 1][f[m]] \in S
    <3>1. m + 1 \in 1 .. n /\ m \in 0 .. m
      OBVIOUS
    <3>2. next[m + 1] \in [S -> S] /\ f[m] \in S
      BY <3>1
    <3> QED BY <3>2
  <2>4. g \in [0 .. m + 1 -> S] /\ (\A i \in 0 .. m : g[i] = f[i])
        /\ g[m + 1] = next[m + 1][f[m]]
    BY <2>2, <2>3
  <2>5. ASSUME NEW i \in 1 .. m + 1 PROVE g[i] = next[i][g[i - 1]]
    <3>1. CASE i = m + 1
      BY <2>4, <3>1
    <3>2. CASE i # m + 1
      <4>1. i \in 1 .. m /\ i - 1 \in 0 .. m /\ i \in 0 .. m
        BY <3>2
      <4> QED BY <2>1, <2>4, <4>1
    <3> QED BY <3>1, <3>2
  <2>6. Good(g, m + 1)
    BY <2>1, <2>4, <2>5
  <2>7. \E h \in [0 .. m + 1 -> S] : Good(h, m + 1)
    <3> HIDE DEF Good
    <3> QED BY <2>4, <2>6
  <2> QED BY <2>7
<1>3. \A m \in Nat : m \in Q
  <2> HIDE DEF Q
  <2> QED BY <1>1, <1>2, InductiveSet
<1>4. PICK f \in [0 .. n -> S] : Good(f, n)
  BY <1>3
<1> QED BY <1>4 DEF Iterates

-----------------------------------------------------------------------------
(* Sequences.                                                              *)

LEMMA TakeProps ==
    ASSUME NEW S, NEW s \in Seq(S), NEW n \in Nat
    PROVE  /\ Take(s, n) \in Seq(S)
           /\ Len(Take(s, n)) = IF Len(s) <= n THEN Len(s) ELSE n
           /\ \A i \in 1 .. Len(Take(s, n)) : Take(s, n)[i] = s[i]
BY DEF Take

LEMMA InContexts ==
    ASSUME NEW S, NEW n \in Nat, NEW s \in Seq(S), Len(s) <= n
    PROVE  s \in BoundedSeq(S, n)
<1>1. s \in [1 .. Len(s) -> S] /\ Len(s) \in 0 .. n
  OBVIOUS
<1> QED BY <1>1 DEF BoundedSeq, SeqOf

LEMMA SeqExt ==
    ASSUME NEW S, NEW s \in Seq(S), NEW t \in Seq(S), Len(s) = Len(t),
           \A i \in 1 .. Len(s) : s[i] = t[i]
    PROVE  s = t
OBVIOUS

LEMMA DraftSafeProps ==
    ASSUME NEW s \in Seq(TargetToken)
    PROVE  /\ DraftSafe(s) \in Seq(DraftToken)
           /\ Len(DraftSafe(s)) = Len(s)
           /\ \A i \in 1 .. Len(s) :
                DraftSafe(s)[i] = IF s[i] < DraftVocab THEN s[i] ELSE 0
<1>1. \A i \in 1 .. Len(s) :
        (IF s[i] < DraftVocab THEN s[i] ELSE 0) \in DraftToken
  BY VocabAssumption DEF TargetToken, DraftToken
<1>2. DOMAIN s = 1 .. Len(s) /\ Len(s) \in Nat
  OBVIOUS
<1>3. DraftSafe(s) = [i \in 1 .. Len(s) |-> IF s[i] < DraftVocab THEN s[i] ELSE 0]
  BY <1>2 DEF DraftSafe
<1> QED BY <1>1, <1>2, <1>3

LEMMA DraftIsTarget == \A s \in Seq(DraftToken) : s \in Seq(TargetToken)
BY VocabAssumption DEF TargetToken, DraftToken

LEMMA DraftSafeIdentity ==
    ASSUME NEW s \in Seq(DraftToken)
    PROVE  DraftSafe(s) = s
<1>1. /\ s \in Seq(TargetToken)
      /\ \A i \in 1 .. Len(s) : s[i] < DraftVocab
  BY DraftIsTarget, VocabAssumption DEF DraftToken
<1>2. /\ DraftSafe(s) \in Seq(DraftToken)
      /\ Len(DraftSafe(s)) = Len(s)
      /\ \A i \in 1 .. Len(s) : DraftSafe(s)[i] = s[i]
  BY <1>1, DraftSafeProps
<1> QED BY <1>2, SeqExt

LEMMA DraftSafeConcat ==
    ASSUME NEW s \in Seq(TargetToken), NEW t \in Seq(TargetToken)
    PROVE  DraftSafe(s \o t) = DraftSafe(s) \o DraftSafe(t)
<1> DEFINE l == DraftSafe(s \o t)
           r == DraftSafe(s) \o DraftSafe(t)
<1>1. s \o t \in Seq(TargetToken) /\ Len(s \o t) = Len(s) + Len(t)
  OBVIOUS
<1>2. /\ l \in Seq(DraftToken) /\ Len(l) = Len(s) + Len(t)
      /\ \A i \in 1 .. Len(l) :
           l[i] = IF (s \o t)[i] < DraftVocab THEN (s \o t)[i] ELSE 0
  BY <1>1, DraftSafeProps
<1>3. /\ DraftSafe(s) \in Seq(DraftToken) /\ Len(DraftSafe(s)) = Len(s)
      /\ DraftSafe(t) \in Seq(DraftToken) /\ Len(DraftSafe(t)) = Len(t)
  BY DraftSafeProps
<1>4. r \in Seq(DraftToken) /\ Len(r) = Len(s) + Len(t)
  BY <1>3, SMTT(40)
<1>5. ASSUME NEW i \in 1 .. Len(l) PROVE l[i] = r[i]
  <2>1. CASE i <= Len(s)
    <3>1. (s \o t)[i] = s[i] /\ r[i] = DraftSafe(s)[i]
      BY <1>2, <1>3, <2>1
    <3> QED BY <1>2, <2>1, <3>1, DraftSafeProps
  <2>2. CASE i > Len(s)
    <3>1. (s \o t)[i] = t[i - Len(s)] /\ r[i] = DraftSafe(t)[i - Len(s)]
      BY <1>2, <1>3, <2>2
    <3>2. i - Len(s) \in 1 .. Len(t)
      BY <1>2, <2>2
    <3> QED BY <1>2, <3>1, <3>2, DraftSafeProps
  <2>3. i \in Nat /\ Len(s) \in Nat
    BY <1>2
  <2> HIDE DEF l, r
  <2> QED BY <2>1, <2>2, <2>3
<1> QED BY <1>2, <1>4, <1>5, SeqExt

LEMMA PrefixOfConcat ==
    ASSUME NEW S, NEW s \in Seq(S), NEW t \in Seq(S), NEW n \in 0 .. Len(t)
    PROVE  /\ SubSeq(s \o t, 1, Len(s) + n) = s \o SubSeq(t, 1, n)
           /\ SubSeq(t, 1, n) \in Seq(S) /\ Len(SubSeq(t, 1, n)) = n
OBVIOUS

LEMMA PrefixOfPrefix ==
    ASSUME NEW S, NEW s \in Seq(S), NEW n \in 0 .. Len(s), NEW i \in 0 .. n
    PROVE  SubSeq(SubSeq(s, 1, n), 1, i) = SubSeq(s, 1, i)
OBVIOUS

LEMMA PrefixWhole ==
    ASSUME NEW S, NEW s \in Seq(S)
    PROVE  SubSeq(s, 1, Len(s)) = s
OBVIOUS

LEMMA PrefixOfAppend ==
    ASSUME NEW S, NEW s \in Seq(S), NEW x \in S, NEW n \in 0 .. Len(s)
    PROVE  SubSeq(Append(s, x), 1, n) = SubSeq(s, 1, n)
OBVIOUS

-----------------------------------------------------------------------------
(* Models asked within their window answer with a token of their own.      *)

LEMMA TargetAnswers ==
    ASSUME call \in Calls, NEW c \in Seq(TargetToken), Len(c) <= MaxContext
    PROVE  TargetArgmax(c) \in TargetToken
BY InContexts, PickAssumption, CallAssumption, VocabAssumption
   DEF TargetArgmax, TargetContext, CallType

LEMMA DraftAnswers ==
    ASSUME call \in Calls, NEW c \in Seq(DraftToken), Len(c) <= MaxContext
    PROVE  DraftArgmax(c) \in DraftToken
BY InContexts, PickAssumption, CallAssumption, VocabAssumption
   DEF DraftArgmax, DraftContext, CallType

LEMMA CallFacts ==
    ASSUME call \in Calls
    PROVE  /\ call.input_ids \in Seq(TargetToken)
           /\ prompt_len \in Nat \ {0}
           /\ call.max_new_tokens \in Nat /\ call.k \in Nat
           /\ call.eos_token_id \in TargetToken \cup {NoEos}
           /\ prompt_len + call.max_new_tokens <= MaxContext
           /\ MaxContext \in Nat /\ 0 \in TargetToken /\ 0 \in DraftToken
BY CallAssumption, VocabAssumption
   DEF CallType, prompt_len, TargetToken, DraftToken

-----------------------------------------------------------------------------
(* The inductive invariant, action by action.                              *)

LEMMA InitIndInv == Init => IndInv
<1> SUFFICES ASSUME Init PROVE IndInv
  OBVIOUS
<1>1. call \in Calls /\ prompt_len \in Nat \ {0} /\ 0 \in TargetToken /\ 0 \in DraftToken
  BY CallFacts DEF Init
<1>2. TypeOK
  <2>1. stats \in StatsType
    BY DEF Init, NoStats, StatsType
  <2>2. /\ generated \in Seq(TargetToken) /\ target_cache \in Seq(TargetToken)
        /\ predictions \in Seq(TargetToken)
        /\ draft_cache \in Seq(DraftToken) /\ drafted \in Seq(DraftToken)
    BY DEF Init
  <2> QED BY <1>1, <2>1, <2>2 DEF Init, TypeOK
<1>3. OutputIsGreedy /\ AcceptanceIsAgreement
  BY <1>1 DEF Init, OutputIsGreedy, AcceptanceIsAgreement, prompt_len
<1>4. OutputShape /\ EosShape /\ AtHead /\ AtDraft /\ AtAccept /\ AtFold
  BY <1>1 DEF Init, OutputShape, EosShape, AtHead, AtDraft, AtAccept, AtFold
<1> QED BY <1>2, <1>3, <1>4 DEF IndInv

LEMMA PrefillStep == IndInv /\ Prefill => IndInv'
<1> SUFFICES ASSUME IndInv, Prefill PROVE IndInv'
  OBVIOUS
<1> USE DEF Prefill, output, caches, round
<1>1. /\ call \in Calls /\ call' = call
      /\ call.input_ids \in Seq(TargetToken) /\ Len(call.input_ids) <= MaxContext
      /\ prompt_len = Len(call.input_ids) /\ prompt_len' = prompt_len
      /\ prompt_len \in Nat \ {0}
      /\ call.max_new_tokens \in Nat
  BY CallFacts DEF IndInv, TypeOK, prompt_len
<1>2. /\ DraftSafe(call.input_ids) \in Seq(DraftToken)
      /\ Len(DraftSafe(call.input_ids)) = Len(call.input_ids)
  BY <1>1, DraftSafeProps
<1>3. /\ TargetArgmax(call.input_ids) \in TargetToken
      /\ DraftArgmax(DraftSafe(call.input_ids)) \in DraftToken
  BY <1>1, <1>2, TargetAnswers, DraftAnswers
<1>4. target_next' = TargetArgmax(call.input_ids)
      /\ draft_next' = DraftArgmax(DraftSafe(call.input_ids))
  BY DEF TargetArgmax, DraftArgmax
<1>5. TypeOK'
  BY <1>1, <1>2, <1>3, <1>4 DEF IndInv, TypeOK
<1>6. n_new' = 0 /\ hit_eos' = FALSE
  BY DEF IndInv, OutputShape, EosShape
<1>7. OutputIsGreedy' /\ AcceptanceIsAgreement'
  BY <1>1 DEF OutputIsGreedy, AcceptanceIsAgreement
<1>8. OutputShape' /\ EosShape'
  BY <1>1, <1>6 DEF OutputShape, EosShape
<1>9. AtHead' /\ AtDraft' /\ AtAccept' /\ AtFold'
  BY <1>1, <1>4 DEF AtHead, AtDraft, AtAccept, AtFold, TargetArgmax, DraftArgmax, DraftSafe
<1> QED BY <1>5, <1>7, <1>8, <1>9 DEF IndInv

LEMMA StartRoundStep == IndInv /\ StartRound => IndInv'
<1> SUFFICES ASSUME IndInv, StartRound PROVE IndInv'
  OBVIOUS
<1> USE DEF StartRound, output, caches, round
<1>1. /\ call.max_new_tokens \in Nat /\ call.k \in Nat /\ n_new \in Nat
      /\ remaining \in Nat \ {0}
      /\ Window \in Nat /\ Window <= remaining /\ Window <= call.k /\ (Window = 0 => call.k = 0)
  BY CallFacts, SMTT(40) DEF IndInv, TypeOK, remaining, Window
<1>2. TypeOK'
  BY <1>1 DEF IndInv, TypeOK
<1>3. OutputIsGreedy' /\ AcceptanceIsAgreement'
  BY DEF IndInv, OutputIsGreedy, AcceptanceIsAgreement, TargetArgmax
<1>4. OutputShape' /\ EosShape'
  BY DEF IndInv, OutputShape, EosShape, prompt_len
<1>5. draft_cache = DraftSafe(generated) /\ DraftSafe(generated) \in Seq(DraftToken)
  BY DraftSafeProps DEF IndInv, TypeOK, AtHead
<1>6. DraftSafe(generated) \o << >> = DraftSafe(generated)
  BY <1>5
<1>7. RoundOpen'
  BY <1>1 DEF RoundOpen, remaining
<1>8. DraftAhead'
  BY <1>5, <1>6 DEF DraftAhead, DraftSafe
<1>9. AtDraft'
  BY <1>5, <1>7, <1>8 DEF IndInv, AtHead, AtDraft, TargetArgmax, DraftArgmax
<1>10. AtHead' /\ AtAccept' /\ AtFold'
  BY DEF AtHead, AtAccept, AtFold
<1> QED BY <1>2, <1>3, <1>4, <1>9, <1>10 DEF IndInv

LEMMA ExitLoopStep == IndInv /\ ExitLoop => IndInv'
<1> SUFFICES ASSUME IndInv, ExitLoop PROVE IndInv'
  OBVIOUS
<1> USE DEF ExitLoop, output, caches, round
<1>1. TypeOK'
  BY DEF IndInv, TypeOK
<1>2. OutputIsGreedy' /\ AcceptanceIsAgreement'
  BY DEF IndInv, OutputIsGreedy, AcceptanceIsAgreement, TargetArgmax
<1>3. OutputShape'
  BY DEF IndInv, OutputShape, prompt_len
<1>4. ~ hit_eos /\ n_new = call.max_new_tokens
  BY CallFacts DEF IndInv, OutputShape, EosShape, TypeOK
<1>5. EosShape'
  BY <1>4 DEF IndInv, EosShape
<1>6. AtHead' /\ AtDraft' /\ AtAccept' /\ AtFold'
  BY DEF AtHead, AtDraft, AtAccept, AtFold
<1> QED BY <1>1, <1>2, <1>3, <1>5, <1>6 DEF IndInv

\* No context reaches past the prompt and the budget while a round is open.
LEMMA RoundFits ==
    ASSUME IndInv, pc \in {"draft", "accept"}
    PROVE  /\ Len(generated) + this_k <= MaxContext
           /\ Len(drafted) <= this_k
           /\ call \in Calls /\ MaxContext \in Nat
<1>1. RoundOpen /\ OutputShape /\ pc # "prefill"
  BY DEF IndInv, AtDraft, AtAccept
<1>2. /\ prompt_len \in Nat /\ call.max_new_tokens \in Nat
      /\ prompt_len + call.max_new_tokens <= MaxContext
      /\ MaxContext \in Nat
  BY CallFacts DEF IndInv, TypeOK
<1>3. n_new \in Nat /\ this_k \in Nat
  BY DEF IndInv, TypeOK
<1> QED BY <1>1, <1>2, <1>3 DEF RoundOpen, OutputShape, remaining, IndInv, TypeOK

LEMMA DraftOneStep == IndInv /\ DraftOne => IndInv'
<1> SUFFICES ASSUME IndInv, DraftOne PROVE IndInv'
  OBVIOUS
<1> DEFINE safe == DraftSafe(generated)
           next == Append(drafted, draft_next)
<1>1. /\ generated \in Seq(TargetToken) /\ drafted \in Seq(DraftToken)
      /\ safe \in Seq(DraftToken) /\ Len(safe) = Len(generated)
      /\ draft_next \in DraftToken /\ this_k \in Nat
      /\ Len(drafted) < this_k
  BY DraftSafeProps DEF IndInv, TypeOK, DraftOne
<1>2. /\ RoundOpen /\ DraftAhead
      /\ target_cache = generated /\ target_next = TargetArgmax(generated)
      /\ draft_next = DraftArgmax(draft_cache)
      /\ draft_cache = safe \o drafted
      /\ \A j \in 1 .. Len(drafted) :
           drafted[j] = DraftArgmax(safe \o SubSeq(drafted, 1, j - 1))
  BY DEF IndInv, AtDraft, DraftAhead, DraftOne
<1>3. /\ drafted' = next /\ draft_cache' = Append(draft_cache, draft_next)
      /\ draft_next' = DraftArgmax(draft_cache')
      /\ UNCHANGED <<call, pc, generated, n_new, hit_eos, target_cache,
                     target_next, this_k, predictions, accepted, stats>>
      /\ pc = "draft"
  BY DEF DraftOne, output
<1> HIDE DEF safe
<1>4. draft_cache' = safe \o next
  <2>1. Append(safe \o drafted, draft_next) = safe \o next
    BY <1>1, SMTT(40)
  <2> QED BY <1>2, <1>3, <2>1
<1>5. next \in Seq(DraftToken) /\ Len(next) = Len(drafted) + 1
  BY <1>1
<1>6. safe \o next \in Seq(DraftToken) /\ Len(safe \o next) <= MaxContext
  <2>1. safe \o next \in Seq(DraftToken)
        /\ Len(safe \o next) = Len(safe) + (Len(drafted) + 1)
    BY <1>1, <1>5
  <2> QED BY <1>1, <1>3, <2>1, RoundFits
<1>7. draft_next' = DraftArgmax(safe \o next) /\ draft_next' \in DraftToken
  BY <1>3, <1>4, <1>6, DraftAnswers DEF IndInv, TypeOK, DraftArgmax
<1>8. TypeOK'
  BY <1>3, <1>4, <1>5, <1>6, <1>7 DEF IndInv, TypeOK
<1>9. ASSUME NEW j \in 1 .. Len(next)
      PROVE  next[j] = DraftArgmax(safe \o SubSeq(next, 1, j - 1))
  <2>1. CASE j <= Len(drafted)
    <3>1. SubSeq(next, 1, j - 1) = SubSeq(drafted, 1, j - 1) /\ next[j] = drafted[j]
      BY <1>1, <2>1
    <3>2. drafted[j] = DraftArgmax(safe \o SubSeq(drafted, 1, j - 1))
      BY <1>1, <1>2, <1>5, <2>1
    <3> HIDE DEF next
    <3> QED BY <3>1, <3>2
  <2>2. CASE j = Len(drafted) + 1
    <3>1. SubSeq(next, 1, j - 1) = drafted /\ next[j] = draft_next
      BY <1>1, <2>2
    <3> QED BY <1>2, <3>1
  <2> QED BY <1>1, <1>5, <2>1, <2>2
<1>10. DraftAhead'
  BY <1>3, <1>4, <1>9 DEF DraftAhead, DraftArgmax, DraftSafe, safe
<1>11. RoundOpen'
  BY <1>1, <1>2, <1>3, <1>5 DEF RoundOpen, remaining
<1>12. AtDraft'
  BY <1>2, <1>3, <1>4, <1>7, <1>10, <1>11 DEF AtDraft, TargetArgmax, DraftArgmax
<1>13. OutputIsGreedy' /\ AcceptanceIsAgreement'
  BY <1>3 DEF IndInv, OutputIsGreedy, AcceptanceIsAgreement, TargetArgmax
<1>14. OutputShape' /\ EosShape'
  BY <1>3 DEF IndInv, OutputShape, EosShape, prompt_len
<1>15. AtHead' /\ AtAccept' /\ AtFold'
  BY <1>3 DEF AtHead, AtAccept, AtFold
<1> QED BY <1>8, <1>12, <1>13, <1>14, <1>15 DEF IndInv

LEMMA CatOfNothingStep == IndInv /\ CatOfNothing => IndInv'
<1> SUFFICES ASSUME IndInv, CatOfNothing PROVE IndInv'
  OBVIOUS
<1> USE DEF CatOfNothing, output, caches, round
<1>1. TypeOK'
  BY DEF IndInv, TypeOK
<1>2. OutputIsGreedy' /\ AcceptanceIsAgreement'
  BY DEF IndInv, OutputIsGreedy, AcceptanceIsAgreement, TargetArgmax
<1>3. OutputShape' /\ EosShape'
  BY DEF IndInv, OutputShape, EosShape, prompt_len
<1>4. AtHead' /\ AtDraft' /\ AtAccept' /\ AtFold'
  BY DEF AtHead, AtDraft, AtAccept, AtFold
<1> QED BY <1>1, <1>2, <1>3, <1>4 DEF IndInv

LEMMA VerifyStep == IndInv /\ Verify => IndInv'
<1> SUFFICES ASSUME IndInv, Verify PROVE IndInv'
  OBVIOUS
<1> DEFINE asked(j) == generated \o SubSeq(drafted, 1, j - 1)
<1>1. /\ generated \in Seq(TargetToken) /\ drafted \in Seq(DraftToken)
      /\ drafted \in Seq(TargetToken)
      /\ this_k \in Nat \ {0} /\ Len(drafted) = this_k
      /\ target_next \in TargetToken
  BY DraftIsTarget DEF IndInv, TypeOK, Verify
<1>2. /\ RoundOpen /\ DraftAhead /\ pc = "draft"
      /\ target_cache = generated /\ target_next = TargetArgmax(generated)
  BY DEF IndInv, AtDraft, Verify
<1>3. /\ target_cache' = generated \o drafted /\ accepted' = 0 /\ pc' = "accept"
      /\ UNCHANGED <<call, generated, n_new, hit_eos, target_next, draft_cache,
                     draft_next, this_k, drafted, stats>>
      /\ predictions' = <<target_next>> \o
           [j \in 1 .. this_k |->
              TargetArgmax(target_cache \o SubSeq(drafted, 1, j))]
  BY <1>2 DEF Verify, output
<1>4. /\ target_cache' \in Seq(TargetToken)
      /\ Len(generated \o drafted) = Len(generated) + this_k
  BY <1>1, <1>3
<1>5. ASSUME NEW j \in 1 .. this_k + 1
      PROVE  TargetArgmax(asked(j)) \in TargetToken
  <2>1. asked(j) \in Seq(TargetToken) /\ Len(asked(j)) = Len(generated) + (j - 1)
    BY <1>1
  <2>2. Len(asked(j)) <= MaxContext
    BY <1>1, <1>2, <2>1, RoundFits
  <2> HIDE DEF asked
  <2> QED BY <1>2, <2>1, <2>2, TargetAnswers, RoundFits
<1> DEFINE tail == [j \in 1 .. this_k |-> TargetArgmax(asked(j + 1))]
<1>6. predictions' = <<target_next>> \o tail
  BY <1>1, <1>2, <1>3
<1>7. tail \in Seq(TargetToken) /\ Len(tail) = this_k
      /\ \A j \in 1 .. this_k : tail[j] = TargetArgmax(asked(j + 1))
  <2> HIDE DEF asked
  <2> QED BY <1>1, <1>5
<1>8. TargetArgmax(asked(1)) = target_next
  <2>1. asked(1) = generated
    BY <1>1
  <2> HIDE DEF asked
  <2> QED BY <1>2, <2>1
<1> HIDE DEF tail, asked
<1>9. /\ predictions' \in Seq(TargetToken) /\ Len(predictions') = this_k + 1
      /\ predictions'[1] = target_next
      /\ \A j \in 2 .. this_k + 1 : predictions'[j] = tail[j - 1]
  BY <1>1, <1>6, <1>7
<1>10. ASSUME NEW j \in 1 .. this_k + 1
       PROVE  predictions'[j] = TargetArgmax(asked(j))
  <2>1. CASE j = 1
    BY <1>8, <1>9, <2>1
  <2>2. CASE j \in 2 .. this_k + 1
    <3>1. j - 1 \in 1 .. this_k /\ (j - 1) + 1 = j
      BY <1>1, <2>2
    <3>2. tail[j - 1] = TargetArgmax(asked((j - 1) + 1))
      BY <1>7, <3>1
    <3> QED BY <1>9, <2>2, <3>1, <3>2
  <2> QED BY <1>1, <2>1, <2>2
<1>11. TypeOK'
  BY <1>3, <1>4, <1>9 DEF IndInv, TypeOK
<1>12. DraftAhead'
  BY <1>2, <1>3 DEF DraftAhead, DraftArgmax, DraftSafe
<1>13. RoundOpen'
  BY <1>2, <1>3 DEF RoundOpen, remaining
<1>14. AtAccept'
  BY <1>1, <1>3, <1>9, <1>10, <1>12, <1>13 DEF AtAccept, TargetArgmax, asked
<1>15. OutputIsGreedy' /\ AcceptanceIsAgreement'
  BY <1>2, <1>3 DEF IndInv, OutputIsGreedy, AcceptanceIsAgreement, TargetArgmax
<1>16. OutputShape' /\ EosShape'
  BY <1>2, <1>3 DEF IndInv, OutputShape, EosShape, prompt_len
<1>17. AtHead' /\ AtDraft' /\ AtFold'
  BY <1>3 DEF AtHead, AtDraft, AtFold
<1> QED BY <1>11, <1>14, <1>15, <1>16, <1>17 DEF IndInv

LEMMA AcceptOneStep == IndInv /\ AcceptOne => IndInv'
<1> SUFFICES ASSUME IndInv, AcceptOne PROVE IndInv'
  OBVIOUS
<1>1. /\ accepted \in Nat /\ this_k \in Nat /\ accepted < this_k
      /\ predictions[accepted + 1] = drafted[accepted + 1]
      /\ accepted' = accepted + 1 /\ pc = "accept"
      /\ UNCHANGED <<call, pc, generated, n_new, hit_eos, target_cache,
                     target_next, draft_cache, draft_next, this_k, drafted,
                     predictions, stats>>
  BY DEF IndInv, TypeOK, AcceptOne, DraftConfirmed, output, caches
<1>2. TypeOK'
  BY <1>1 DEF IndInv, TypeOK
<1>3. RoundOpen' /\ DraftAhead'
  BY <1>1 DEF IndInv, AtAccept, RoundOpen, DraftAhead, remaining, DraftArgmax, DraftSafe
<1>4. \A j \in 1 .. accepted' : predictions[j] = drafted[j]
  <2>1. \A j \in 1 .. accepted : predictions[j] = drafted[j]
    BY <1>1 DEF IndInv, AtAccept
  <2>2. \A j \in 1 .. accepted' : j \in 1 .. accepted \/ j = accepted + 1
    BY <1>1
  <2> QED BY <1>1, <2>1, <2>2
<1>5. AtAccept'
  BY <1>1, <1>3, <1>4 DEF IndInv, AtAccept, TargetArgmax
<1>6. OutputIsGreedy' /\ AcceptanceIsAgreement'
  BY <1>1 DEF IndInv, OutputIsGreedy, AcceptanceIsAgreement, TargetArgmax
<1>7. OutputShape' /\ EosShape'
  BY <1>1 DEF IndInv, OutputShape, EosShape, prompt_len
<1>8. AtHead' /\ AtDraft' /\ AtFold'
  BY <1>1 DEF AtHead, AtDraft, AtFold
<1> QED BY <1>2, <1>5, <1>6, <1>7, <1>8 DEF IndInv

LEMMA FoldStep == IndInv /\ Fold => IndInv'
<1> SUFFICES ASSUME IndInv, Fold PROVE IndInv'
  OBVIOUS
<1> DEFINE fed == SubSeq(generated, 1, Len(generated) - 1)
<1>1. /\ generated \in Seq(TargetToken) /\ predictions \in Seq(TargetToken)
      /\ accepted \in Nat /\ accepted < Len(predictions)
      /\ generated = Append(fed, ExtraToken) /\ Len(generated) > 0
      /\ target_cache = fed /\ draft_cache = DraftSafe(fed)
      /\ n_new < call.max_new_tokens /\ pc = "fold" /\ n_new \in Nat
      /\ call \in Calls
  BY CallFacts, SMTT(40) DEF IndInv, TypeOK, AtFold, Fold
<1>2. ExtraToken \in TargetToken /\ fed \in Seq(TargetToken)
      /\ <<ExtraToken>> \in Seq(TargetToken)
  BY <1>1 DEF ExtraToken
<1>3. /\ target_cache' = Append(target_cache, ExtraToken)
      /\ target_next' = TargetArgmax(target_cache')
      /\ draft_cache' = draft_cache \o DraftSafe(<<ExtraToken>>)
      /\ draft_next' = DraftArgmax(draft_cache')
      /\ pc' = "head"
      /\ UNCHANGED <<call, generated, n_new, hit_eos, this_k, drafted,
                     predictions, accepted, stats>>
  BY DEF Fold, output, round
<1>4. target_cache' = generated
  BY <1>1, <1>3
<1>5. draft_cache' = DraftSafe(generated)
  <2>1. Append(fed, ExtraToken) = fed \o <<ExtraToken>>
    BY <1>2
  <2>2. DraftSafe(fed \o <<ExtraToken>>) = DraftSafe(fed) \o DraftSafe(<<ExtraToken>>)
    BY <1>2, DraftSafeConcat
  <2> QED BY <1>1, <1>3, <2>1, <2>2
<1>6. Len(generated) <= MaxContext
  BY <1>1, CallFacts DEF IndInv, OutputShape
<1>7. /\ DraftSafe(generated) \in Seq(DraftToken)
      /\ Len(DraftSafe(generated)) = Len(generated)
  BY <1>1, DraftSafeProps
<1>8. /\ TargetArgmax(generated) \in TargetToken
      /\ DraftArgmax(DraftSafe(generated)) \in DraftToken
  BY <1>1, <1>6, <1>7, TargetAnswers, DraftAnswers
<1>9. /\ target_next' = TargetArgmax(generated)
      /\ draft_next' = DraftArgmax(DraftSafe(generated))
  BY <1>3, <1>4, <1>5 DEF TargetArgmax, DraftArgmax
<1>10. TypeOK'
  BY <1>1, <1>3, <1>4, <1>5, <1>7, <1>8, <1>9 DEF IndInv, TypeOK
<1>11. AtHead'
  BY <1>3, <1>4, <1>5, <1>9 DEF AtHead, TargetArgmax, DraftArgmax, DraftSafe
<1>12. OutputIsGreedy' /\ AcceptanceIsAgreement'
  BY <1>3 DEF IndInv, OutputIsGreedy, AcceptanceIsAgreement, TargetArgmax
<1>13. OutputShape' /\ EosShape'
  BY <1>1, <1>3 DEF IndInv, OutputShape, EosShape, prompt_len
<1>14. AtDraft' /\ AtAccept' /\ AtFold'
  BY <1>3 DEF AtDraft, AtAccept, AtFold
<1> QED BY <1>10, <1>11, <1>12, <1>13, <1>14 DEF IndInv

-----------------------------------------------------------------------------
(* The tokens of a round: the confirmed guesses and one pick, trimmed.     *)

LEMMA RoundTokens ==
    ASSUME IndInv, pc = "accept", ~ DraftConfirmed
    PROVE  /\ NewTokens \in Seq(TargetToken)
           /\ Len(NewTokens) = IF accepted < remaining THEN accepted + 1
                               ELSE remaining
           /\ Len(NewTokens) \in 1 .. remaining
           /\ accepted <= Len(NewTokens)
           /\ \A i \in 1 .. Len(NewTokens) : NewTokens[i] = predictions[i]
           /\ \A i \in 1 .. accepted : NewTokens[i] = drafted[i]
           /\ \A n \in 0 .. accepted :
                SubSeq(NewTokens, 1, n) = SubSeq(drafted, 1, n)
<1> DEFINE kept == Take(drafted, accepted)
           found == Append(kept, ExtraToken)
<1>1. /\ drafted \in Seq(DraftToken) /\ drafted \in Seq(TargetToken)
      /\ predictions \in Seq(TargetToken)
      /\ accepted \in Nat /\ this_k \in Nat /\ Len(drafted) = this_k
      /\ accepted <= this_k /\ Len(predictions) = this_k + 1
      /\ \A j \in 1 .. accepted : predictions[j] = drafted[j]
  BY DraftIsTarget DEF IndInv, TypeOK, AtAccept
<1>2. /\ n_new \in Nat /\ call.max_new_tokens \in Nat
      /\ remaining \in Nat \ {0} /\ this_k <= remaining
  <2>1. n_new \in Nat /\ call \in Calls /\ RoundOpen
    BY DEF IndInv, TypeOK, AtAccept
  <2>2. call.max_new_tokens \in Nat
    BY <2>1, CallFacts
  <2> QED BY <2>1, <2>2 DEF RoundOpen, remaining
<1>3. ExtraToken = predictions[accepted + 1] /\ ExtraToken \in TargetToken
  BY <1>1 DEF ExtraToken
<1>4. /\ kept \in Seq(TargetToken) /\ Len(kept) = accepted
      /\ \A i \in 1 .. accepted : kept[i] = drafted[i]
  BY <1>1, TakeProps
<1> HIDE DEF kept
<1>5. /\ found \in Seq(TargetToken) /\ Len(found) = accepted + 1
      /\ \A i \in 1 .. accepted : found[i] = kept[i]
      /\ found[accepted + 1] = ExtraToken
  BY <1>1, <1>3, <1>4
<1>6. NewTokens = Take(found, remaining)
  BY DEF NewTokens, kept
<1> HIDE DEF found
<1>7. /\ NewTokens \in Seq(TargetToken)
      /\ Len(NewTokens) = IF accepted < remaining THEN accepted + 1 ELSE remaining
      /\ \A i \in 1 .. Len(NewTokens) : NewTokens[i] = found[i]
  <2> DEFINE taken == Take(found, remaining)
  <2>1. /\ taken \in Seq(TargetToken)
        /\ Len(taken) = IF accepted + 1 <= remaining THEN accepted + 1 ELSE remaining
        /\ \A i \in 1 .. Len(taken) : taken[i] = found[i]
    BY <1>2, <1>5, TakeProps
  <2> HIDE DEF taken
  <2>2. accepted + 1 <= remaining <=> accepted < remaining
    BY <1>1, <1>2
  <2>3. NewTokens = taken
    BY <1>6 DEF taken
  <2> QED BY <2>1, <2>2, <2>3
<1>8. Len(NewTokens) \in 1 .. remaining /\ accepted <= Len(NewTokens)
  BY <1>1, <1>2, <1>7
<1>9. \A i \in 1 .. accepted : NewTokens[i] = drafted[i]
  BY <1>1, <1>4, <1>5, <1>7, <1>8
<1>10. \A i \in 1 .. Len(NewTokens) : NewTokens[i] = predictions[i]
  <2>1. \A i \in 1 .. Len(NewTokens) : i \in 1 .. accepted \/ i = accepted + 1
    BY <1>1, <1>2, <1>7
  <2> QED BY <1>1, <1>3, <1>5, <1>7, <1>9, <2>1
<1>11. ASSUME NEW n \in 0 .. accepted
       PROVE  SubSeq(NewTokens, 1, n) = SubSeq(drafted, 1, n)
  <2>1. /\ SubSeq(NewTokens, 1, n) \in Seq(TargetToken)
        /\ Len(SubSeq(NewTokens, 1, n)) = n
        /\ \A i \in 1 .. n : SubSeq(NewTokens, 1, n)[i] = NewTokens[i]
    BY <1>1, <1>7, <1>8
  <2>2. /\ SubSeq(drafted, 1, n) \in Seq(TargetToken)
        /\ Len(SubSeq(drafted, 1, n)) = n
        /\ \A i \in 1 .. n : SubSeq(drafted, 1, n)[i] = drafted[i]
    BY <1>1
  <2>3. \A i \in 1 .. n : NewTokens[i] = drafted[i]
    BY <1>1, <1>9
  <2> QED BY <2>1, <2>2, <2>3, SeqExt
<1> QED BY <1>7, <1>8, <1>9, <1>10, <1>11

\* Each of them is the target's pick after what precedes it.
LEMMA RoundIsGreedy ==
    ASSUME IndInv, pc = "accept", ~ DraftConfirmed, NEW i \in 1 .. Len(NewTokens)
    PROVE  NewTokens[i] =
             TargetArgmax(generated \o SubSeq(NewTokens, 1, i - 1))
<1>1. /\ accepted \in Nat /\ this_k \in Nat /\ accepted <= this_k
      /\ \A j \in 1 .. this_k + 1 :
           predictions[j] = TargetArgmax(generated \o SubSeq(drafted, 1, j - 1))
  BY DEF IndInv, TypeOK, AtAccept
<1>2. /\ i \in 1 .. this_k + 1 /\ i - 1 \in 0 .. accepted
      /\ NewTokens[i] = predictions[i]
  <2>1. Len(NewTokens) <= accepted + 1 /\ Len(NewTokens) \in Nat
    BY <1>1, RoundTokens DEF remaining
  <2> QED BY <1>1, <2>1, RoundTokens
<1>3. SubSeq(NewTokens, 1, i - 1) = SubSeq(drafted, 1, i - 1)
  BY <1>2, RoundTokens
<1>4. predictions[i] = TargetArgmax(generated \o SubSeq(drafted, 1, i - 1))
  BY <1>1, <1>2
<1> QED BY <1>2, <1>3, <1>4

LEMMA TakeIsPrefix ==
    ASSUME NEW S, NEW s \in Seq(S), NEW n \in 0 .. Len(s)
    PROVE  Take(s, n) = SubSeq(s, 1, n)
<1>1. CASE n = Len(s)
  BY <1>1, PrefixWhole DEF Take
<1>2. CASE n < Len(s)
  BY <1>2 DEF Take
<1> QED BY <1>1, <1>2

\* What both emitting actions do, with new the first n tokens of the round.
Emitting(n, eos) ==
    /\ pc = "accept" /\ ~ DraftConfirmed
    /\ n \in 1 .. Len(NewTokens) /\ eos \in BOOLEAN
    /\ Emit(SubSeq(NewTokens, 1, n), eos)
    /\ \A i \in 1 .. n - 1 : NewTokens[i] # call.eos_token_id
    /\ eos <=> NewTokens[n] = call.eos_token_id
    /\ eos \/ n = Len(NewTokens)

LEMMA EmitIsEmitting ==
    ASSUME IndInv, EmitAll \/ EmitThroughEos
    PROVE  \E n, eos : Emitting(n, eos)
<1>1. CASE EmitAll
  <2>1. /\ pc = "accept" /\ ~ DraftConfirmed /\ Emit(NewTokens, FALSE)
        /\ \A i \in 1 .. Len(NewTokens) : NewTokens[i] # call.eos_token_id
    BY <1>1 DEF EmitAll
  <2>2. /\ NewTokens \in Seq(TargetToken) /\ Len(NewTokens) \in 1 .. Len(NewTokens)
        /\ SubSeq(NewTokens, 1, Len(NewTokens)) = NewTokens
    <3>1. NewTokens \in Seq(TargetToken) /\ Len(NewTokens) \in 1 .. remaining
      BY <2>1, RoundTokens
    <3>2. Len(NewTokens) \in Nat /\ Len(NewTokens) > 0
      BY <3>1
    <3> QED BY <3>1, <3>2
  <2>3. /\ NewTokens[Len(NewTokens)] # call.eos_token_id
        /\ \A i \in 1 .. Len(NewTokens) - 1 : NewTokens[i] # call.eos_token_id
    BY <2>1, <2>2
  <2>4. Emit(SubSeq(NewTokens, 1, Len(NewTokens)), FALSE)
    BY <2>1, <2>2
  <2>5. Emitting(Len(NewTokens), FALSE)
    BY <2>1, <2>2, <2>3, <2>4, Zenon DEF Emitting
  <2> QED BY <2>5
<1>2. CASE EmitThroughEos
  <2>1. pc = "accept" /\ ~ DraftConfirmed
    BY <1>2 DEF EmitThroughEos
  <2>2. PICK n \in 1 .. Len(NewTokens) :
          /\ NewTokens[n] = call.eos_token_id
          /\ \A j \in 1 .. n - 1 : NewTokens[j] # call.eos_token_id
          /\ Emit(SubSeq(NewTokens, 1, n), TRUE)
    BY <1>2 DEF EmitThroughEos
  <2>3. Emitting(n, TRUE)
    BY <2>1, <2>2 DEF Emitting
  <2> QED BY <2>3
<1> QED BY <1>1, <1>2

LEMMA EmittingStep ==
    ASSUME IndInv, NEW n, NEW eos, Emitting(n, eos)
    PROVE  IndInv'
<1> DEFINE new == SubSeq(NewTokens, 1, n)
           safe == DraftSafe(generated)
           kept == SubSeq(drafted, 1, accepted)
           len == Len(generated)
(* What holds before the step. *)
<1>1. /\ generated \in Seq(TargetToken) /\ n_new \in Nat
      /\ drafted \in Seq(DraftToken) /\ drafted \in Seq(TargetToken)
      /\ accepted \in Nat /\ this_k \in Nat
      /\ call \in Calls /\ stats \in StatsType
      /\ safe \in Seq(DraftToken) /\ Len(safe) = len
  BY DraftIsTarget, DraftSafeProps DEF IndInv, TypeOK
<1>2. /\ pc = "accept" /\ ~ DraftConfirmed
      /\ RoundOpen /\ DraftAhead
      /\ Len(drafted) = this_k /\ accepted \in 0 .. this_k
      /\ target_cache = generated \o drafted
      /\ draft_cache = safe \o drafted
      /\ Len(predictions) = this_k + 1
  <2>1. pc = "accept" /\ ~ DraftConfirmed
    BY DEF Emitting
  <2>2. /\ RoundOpen /\ DraftAhead /\ Len(drafted) = this_k /\ accepted <= this_k
        /\ target_cache = generated \o drafted
        /\ Len(predictions) = this_k + 1
    BY <2>1 DEF IndInv, AtAccept
  <2>3. draft_cache = safe \o drafted
    BY <2>2 DEF DraftAhead
  <2> QED BY <1>1, <2>1, <2>2, <2>3
<1>3. /\ prompt_len \in Nat \ {0} /\ call.max_new_tokens \in Nat
      /\ call.input_ids \in Seq(TargetToken)
  BY <1>1, CallFacts
<1>4. /\ len = prompt_len + n_new
      /\ \A i \in 1 .. prompt_len : generated[i] = call.input_ids[i]
      /\ \A i \in prompt_len + 1 .. len - 1 : generated[i] # call.eos_token_id
      /\ n_new > 0 => Last(generated) # call.eos_token_id
  BY <1>2 DEF IndInv, OutputShape, EosShape
(* The tokens that are emitted. *)
<1>5. /\ NewTokens \in Seq(TargetToken) /\ n \in 1 .. Len(NewTokens)
      /\ Len(NewTokens) \in 1 .. remaining /\ remaining \in Nat
      /\ Len(NewTokens) = IF accepted < remaining THEN accepted + 1 ELSE remaining
      /\ \A i \in 1 .. n - 1 : NewTokens[i] # call.eos_token_id
      /\ eos \in BOOLEAN /\ (eos <=> NewTokens[n] = call.eos_token_id)
      /\ eos \/ n = Len(NewTokens)
  BY <1>1, <1>2, <1>3, RoundTokens, SMTT(40) DEF Emitting, remaining
<1>6. /\ new \in Seq(TargetToken) /\ Len(new) = n /\ n \in Nat \ {0}
      /\ \A i \in 1 .. n : new[i] = NewTokens[i]
  BY <1>5
<1>7. /\ stats' = CountRound(new) /\ RollBack
      /\ generated' = generated \o new /\ n_new' = n_new + n /\ hit_eos' = eos
      /\ pc' = IF eos \/ n_new + n >= call.max_new_tokens
               THEN "returned" ELSE "fold"
      /\ UNCHANGED <<call, target_next, draft_next, this_k, drafted,
                     predictions, accepted>>
  BY <1>6 DEF Emitting, Emit, round
<1>8. n_new + n <= call.max_new_tokens
  BY <1>1, <1>3, <1>5 DEF remaining
<1> DEFINE longer == generated \o new
<1>9. /\ longer \in Seq(TargetToken) /\ Len(longer) = len + n
      /\ \A i \in 1 .. len : longer[i] = generated[i]
      /\ \A i \in 1 .. n : longer[len + i] = new[i]
  BY <1>1, <1>6
<1>10. kept \in Seq(DraftToken) /\ kept \in Seq(TargetToken) /\ Len(kept) = accepted
  BY <1>1, <1>2
<1> HIDE DEF new, safe
(* The caches are rolled back to the output before the round and what was  *)
(* accepted of it.                                                         *)
<1>11. target_cache' = generated \o kept
  <2>1. generated \o drafted \in Seq(TargetToken) /\ len + accepted \in 0 .. Len(generated \o drafted)
    BY <1>1, <1>2
  <2>2. target_cache' = Take(generated \o drafted, len + accepted)
    BY <1>2, <1>7 DEF RollBack
  <2>3. Take(generated \o drafted, len + accepted)
          = SubSeq(generated \o drafted, 1, len + accepted)
    BY <2>1, TakeIsPrefix
  <2>4. SubSeq(generated \o drafted, 1, len + accepted) = generated \o kept
    BY <1>1, <1>2, SMTT(40)
  <2> QED BY <2>2, <2>3, <2>4
<1>12. draft_cache' = safe \o kept
  <2>1. safe \o drafted \in Seq(DraftToken) /\ Len(safe) + accepted \in 0 .. Len(safe \o drafted)
    BY <1>1, <1>2
  <2>2. draft_cache' = Take(safe \o drafted, Len(safe) + accepted)
    BY <1>1, <1>2, <1>7 DEF RollBack
  <2>3. Take(safe \o drafted, Len(safe) + accepted)
          = SubSeq(safe \o drafted, 1, Len(safe) + accepted)
    BY <2>1, TakeIsPrefix
  <2>4. SubSeq(safe \o drafted, 1, Len(safe) + accepted) = safe \o kept
    <3>1. /\ safe \in Seq(DraftToken) /\ drafted \in Seq(DraftToken)
          /\ accepted \in 0 .. Len(drafted)
      BY <1>1, <1>2
    <3> QED BY <3>1
  <2> QED BY <2>2, <2>3, <2>4
<1>13. TypeOK'
  <2>1. CountRound(new) \in StatsType
    BY <1>1, <1>6, SMTT(40) DEF CountRound, StatsType
  <2>2. generated \o kept \in Seq(TargetToken) /\ safe \o kept \in Seq(DraftToken)
    BY <1>1, <1>10
  <2> HIDE DEF kept
  <2> QED BY <1>1, <1>5, <1>6, <1>7, <1>9, <1>11, <1>12, <2>1, <2>2, SMTT(40) DEF IndInv, TypeOK
(* Every token of the longer output is the target's pick. *)
<1>14. ASSUME NEW i \in prompt_len + 1 .. len + n
       PROVE  longer[i] = TargetArgmax(SubSeq(longer, 1, i - 1))
  <2>1. CASE i <= len
    <3>1. longer[i] = generated[i]
      BY <1>3, <1>9, <2>1
    <3>2. SubSeq(longer, 1, i - 1) = SubSeq(generated, 1, i - 1)
      BY <1>1, <1>3, <1>6, <2>1
    <3>3. generated[i] = TargetArgmax(SubSeq(generated, 1, i - 1))
      BY <1>1, <1>3, <2>1 DEF IndInv, OutputIsGreedy, prompt_len
    <3> HIDE DEF longer
    <3> QED BY <3>1, <3>2, <3>3
  <2>2. CASE i > len
    <3> DEFINE j == i - len
    <3>1. j \in 1 .. n /\ j \in 1 .. Len(NewTokens) /\ len + j = i
      BY <1>1, <1>3, <1>5, <2>2
    <3>2. longer[i] = NewTokens[j]
      BY <1>6, <1>9, <3>1
    <3>3. NewTokens[j] = TargetArgmax(generated \o SubSeq(NewTokens, 1, j - 1))
      BY <1>2, <3>1, RoundIsGreedy
    <3>4. SubSeq(new, 1, j - 1) = SubSeq(NewTokens, 1, j - 1)
      BY <1>5, <3>1, PrefixOfPrefix DEF new
    <3>5. SubSeq(longer, 1, len + (j - 1)) = generated \o SubSeq(new, 1, j - 1)
      BY <1>1, <1>6, <3>1, PrefixOfConcat, SMTT(40)
    <3>6. len + (j - 1) = i - 1
      BY <1>1, <3>1
    <3> HIDE DEF longer, j
    <3> QED BY <3>2, <3>3, <3>4, <3>5, <3>6
  <2>3. i \in Nat /\ len \in Nat
    BY <1>1, <1>3, <1>6
  <2> HIDE DEF longer
  <2> QED BY <2>1, <2>2, <2>3
<1>15. OutputIsGreedy'
  <2> HIDE DEF longer
  <2> QED BY <1>7, <1>9, <1>14 DEF OutputIsGreedy, TargetArgmax, prompt_len, longer
<1>16. OutputShape'
  <2>1. Len(longer) = prompt_len + (n_new + n)
    BY <1>1, <1>3, <1>4, <1>6, <1>9
  <2>2. \A i \in 1 .. prompt_len : longer[i] = call.input_ids[i]
    BY <1>1, <1>3, <1>4, <1>9
  <2>3. ASSUME NEW i \in prompt_len + 1 .. len + n - 1
        PROVE  longer[i] # call.eos_token_id
    <3>1. CASE i <= len - 1
      BY <1>1, <1>3, <1>4, <1>9, <3>1
    <3>2. CASE i = len
      <4>1. n_new > 0 /\ Last(generated) = generated[len]
        BY <1>1, <1>3, <1>4, <3>2 DEF Last
      <4>2. longer[i] = generated[len]
        BY <1>1, <1>3, <1>9, <3>2
      <4> QED BY <1>4, <4>1, <4>2
    <3>3. CASE i > len
      <4>1. i - len \in 1 .. n - 1 /\ len + (i - len) = i
        BY <1>1, <1>3, <1>6, <3>3
      <4>2. longer[i] = NewTokens[i - len]
        BY <1>6, <1>9, <4>1
      <4> QED BY <1>5, <4>1, <4>2
    <3> QED BY <1>1, <1>3, <1>6, <3>1, <3>2, <3>3
  <2> HIDE DEF longer
  <2>4. generated' = longer /\ pc' # "prefill" /\ prompt_len' = prompt_len
    BY <1>7 DEF longer, prompt_len
  <2>5. Len(generated') = len + n
    BY <1>9, <2>4
  <2>6. call' = call /\ n_new' = n_new + n
    BY <1>7
  <2>7. /\ Len(generated') = prompt_len' + n_new'
        /\ n_new' <= call'.max_new_tokens
    BY <1>8, <2>1, <2>4, <2>6
  <2>8. \A i \in 1 .. prompt_len' : generated'[i] = call'.input_ids[i]
    BY <2>2, <2>4, <2>6
  <2>9. \A i \in prompt_len' + 1 .. Len(generated') - 1 :
          generated'[i] # call'.eos_token_id
    <3>1. \A i \in prompt_len + 1 .. len + n - 1 : longer[i] # call.eos_token_id
      BY <2>3
    <3>2. /\ prompt_len' = prompt_len /\ Len(generated') = len + n
          /\ generated' = longer /\ call' = call
      BY <2>4, <2>5, <2>6
    <3> SUFFICES ASSUME NEW i \in prompt_len' + 1 .. Len(generated') - 1
                 PROVE  generated'[i] # call'.eos_token_id
      OBVIOUS
    <3>3. i \in prompt_len + 1 .. len + n - 1
      BY <1>1, <1>3, <1>6, <3>2
    <3>4. longer[i] # call.eos_token_id
      BY <3>1, <3>3
    <3> QED BY <3>2, <3>4
  <2> QED BY <2>4, <2>7, <2>8, <2>9 DEF OutputShape
<1>17. EosShape'
  <2>1. Last(longer) = NewTokens[n]
    <3>1. longer[len + n] = new[n] /\ new[n] = NewTokens[n]
      BY <1>6, <1>9
    <3> HIDE DEF longer
    <3> QED BY <1>9, <3>1 DEF Last
  <2>2. n_new' > 0
    BY <1>1, <1>6, <1>7
  <2>3. hit_eos' = eos /\ generated' = longer /\ call' = call
    BY <1>7
  <2>4. pc' = "returned" => eos \/ n_new' = call.max_new_tokens
    BY <1>1, <1>3, <1>6, <1>7, <1>8
  <2> HIDE DEF longer
  <2> QED BY <1>5, <1>7, <2>1, <2>2, <2>3, <2>4 DEF EosShape
(* When another round follows, nothing was trimmed or cut off. *)
<1>18. ASSUME pc' = "fold"
       PROVE  /\ n = accepted + 1 /\ n_new + n < call.max_new_tokens
              /\ new = Append(kept, ExtraToken) /\ ExtraToken \in TargetToken
  <2>1. ~ eos /\ ~ (n_new + n >= call.max_new_tokens)
    BY <1>7, <1>18
  <2>2. n = Len(NewTokens) /\ n_new + n < call.max_new_tokens
    BY <1>1, <1>3, <1>5, <1>6, <2>1
  <2>3. n < remaining
    BY <1>1, <1>3, <1>6, <2>2 DEF remaining
  <2>4. n = accepted + 1
    BY <1>1, <1>5, <2>2, <2>3
  <2>5. kept = SubSeq(NewTokens, 1, accepted)
    BY <1>1, <1>2, RoundTokens, SMTT(40)
  <2>6. NewTokens[accepted + 1] = ExtraToken
    BY <1>2, <1>5, <2>2, <2>4, RoundTokens DEF ExtraToken
  <2>7. SubSeq(NewTokens, 1, n) = Append(SubSeq(NewTokens, 1, accepted), NewTokens[n])
    <3>1. NewTokens \in Seq(TargetToken) /\ n \in 1 .. Len(NewTokens) /\ accepted = n - 1
      BY <1>1, <1>5, <2>4
    <3>2. SubSeq(NewTokens, 1, n) = Append(SubSeq(NewTokens, 1, n - 1), NewTokens[n])
      BY <3>1
    <3> QED BY <3>1, <3>2
  <2>8. NewTokens[n] \in TargetToken
    BY <1>5
  <2> HIDE DEF kept
  <2> QED BY <2>2, <2>4, <2>5, <2>6, <2>7, <2>8 DEF new
<1>19. AtFold'
  <2> SUFFICES ASSUME pc' = "fold" PROVE AtFold'
    BY DEF AtFold
  <2>1. n = accepted + 1 /\ n_new + n < call.max_new_tokens
        /\ new = Append(kept, ExtraToken) /\ ExtraToken \in TargetToken
    BY <1>18
  <2> DEFINE fed == generated \o kept
  <2>2. /\ fed \in Seq(TargetToken) /\ Len(fed) = len + accepted
        /\ generated \o Append(kept, ExtraToken) = Append(fed, ExtraToken)
    BY <1>1, <1>10, <2>1
  <2>3. SubSeq(Append(fed, ExtraToken), 1, len + accepted) = fed
    <3> HIDE DEF fed
    <3>1. SubSeq(Append(fed, ExtraToken), 1, Len(fed)) = fed
      BY <2>1, <2>2, PrefixOfAppend, PrefixWhole
    <3> QED BY <2>2, <3>1
  <2>4. DraftSafe(fed) = safe \o kept
    BY <1>1, <1>10, DraftSafeConcat, DraftSafeIdentity DEF safe
  <2> HIDE DEF fed, kept
  <2>5. /\ generated' = Append(fed, ExtraToken) /\ Len(generated') - 1 = len + accepted
        /\ Len(generated') = len + accepted + 1
    BY <1>1, <1>7, <1>9, <2>1, <2>2
  <2>6. SubSeq(generated', 1, Len(generated') - 1) = fed
    BY <2>3, <2>5
  <2>7. target_cache' = fed /\ draft_cache' = DraftSafe(fed)
    BY <1>11, <1>12, <2>4 DEF fed
  <2>8. /\ n_new' < call.max_new_tokens /\ accepted < Len(predictions)
        /\ prompt_len + accepted + 1 <= Len(generated')
    BY <1>1, <1>2, <1>3, <1>4, <1>7, <2>1, <2>5, SMTT(40)
  <2>9. ExtraToken' = ExtraToken /\ prompt_len' = prompt_len
    BY <1>7 DEF ExtraToken, prompt_len
  <2> QED BY <1>7, <2>5, <2>6, <2>7, <2>8, <2>9 DEF AtFold, DraftSafe
(* Accepted are the guesses the draft would make again after the output. *)
<1>20. AcceptanceIsAgreement'
  <2> SUFFICES ASSUME pc' = "fold" PROVE AcceptanceIsAgreement'
    BY DEF AcceptanceIsAgreement
  <2>1. n = accepted + 1 /\ new = Append(kept, ExtraToken)
    BY <1>18
  <2>2. Len(longer) - accepted - 1 = len
    BY <1>1, <1>9, <2>1
  <2>3. ASSUME NEW j \in 1 .. accepted + 1, j <= this_k
        PROVE  drafted[j] = DraftArgmax(DraftSafe(SubSeq(longer, 1, len + j - 1)))
    <3> DEFINE g == SubSeq(drafted, 1, j - 1)
    <3>1. drafted[j] = DraftArgmax(safe \o g)
      BY <1>1, <1>2, <2>3 DEF DraftAhead, safe
    <3>2. /\ SubSeq(longer, 1, len + (j - 1)) = generated \o SubSeq(new, 1, j - 1)
          /\ len + (j - 1) = len + j - 1
      <4>1. j - 1 \in 0 .. Len(new) /\ len + (j - 1) = len + j - 1
        BY <1>1, <1>6, <2>1
      <4>2. SubSeq(longer, 1, len + (j - 1)) = generated \o SubSeq(new, 1, j - 1)
        <5>1. new \in Seq(TargetToken) /\ generated \in Seq(TargetToken)
          BY <1>1, <1>6
        <5> QED BY <4>1, <5>1, PrefixOfConcat
      <4> QED BY <4>1, <4>2
    <3>3. SubSeq(new, 1, j - 1) = g
      <4>1. SubSeq(new, 1, j - 1) = SubSeq(NewTokens, 1, j - 1)
        BY <1>1, <1>5, <2>1, PrefixOfPrefix DEF new
      <4>2. SubSeq(NewTokens, 1, j - 1) = g
        BY <1>1, <1>2, <2>1, RoundTokens
      <4> QED BY <4>1, <4>2
    <3>4. g \in Seq(DraftToken) /\ g \in Seq(TargetToken)
      BY <1>1, <1>2, <2>3
    <3> HIDE DEF g, longer
    <3>5. DraftSafe(generated \o g) = safe \o g
      <4>1. generated \in Seq(TargetToken)
        BY <1>1
      <4>2. DraftSafe(generated \o g) = DraftSafe(generated) \o DraftSafe(g)
        BY <4>1, <3>4, DraftSafeConcat
      <4>3. DraftSafe(g) = g
        BY <3>4, DraftSafeIdentity
      <4> QED BY <4>2, <4>3 DEF safe
    <3> QED BY <3>1, <3>2, <3>3, <3>5
  <2>4. ASSUME NEW j \in 1 .. accepted
        PROVE  longer[len + j] = drafted[j]
    <3>1. longer[len + j] = NewTokens[j]
      BY <1>1, <1>6, <1>9, <2>1
    <3> QED BY <1>2, <3>1, RoundTokens
  <2>5. accepted < this_k => longer[len + (accepted + 1)] # drafted[accepted + 1]
    <3>1. longer[len + (accepted + 1)] = predictions[accepted + 1]
      BY <1>1, <1>2, <1>5, <1>6, <1>9, <2>1, RoundTokens
    <3> QED BY <1>2, <3>1 DEF DraftConfirmed
  <2> HIDE DEF longer
  <2>6. generated' = longer /\ accepted' = accepted /\ this_k' = this_k
    BY <1>7 DEF longer
  <2>7. \A j \in 1 .. accepted :
          longer[len + j] = DraftArgmax(DraftSafe(SubSeq(longer, 1, len + j - 1)))
    <3> SUFFICES ASSUME NEW j \in 1 .. accepted
                 PROVE  longer[len + j] = DraftArgmax(DraftSafe(SubSeq(longer, 1, len + j - 1)))
      OBVIOUS
    <3>1. j \in 1 .. accepted + 1 /\ j <= this_k
      BY <1>1, <1>2
    <3> QED BY <2>3, <2>4, <3>1
  <2>8. accepted < this_k =>
          longer[len + (accepted + 1)]
            # DraftArgmax(DraftSafe(SubSeq(longer, 1, len + (accepted + 1) - 1)))
    <3> SUFFICES ASSUME accepted < this_k
                 PROVE  longer[len + (accepted + 1)]
                          # DraftArgmax(DraftSafe(SubSeq(longer, 1, len + (accepted + 1) - 1)))
      OBVIOUS
    <3>1. accepted + 1 \in 1 .. accepted + 1 /\ accepted + 1 <= this_k
      BY <1>1
    <3> QED BY <2>3, <2>5, <3>1
  <2> QED BY <1>7, <2>2, <2>6, <2>7, <2>8 DEF AcceptanceIsAgreement, DraftArgmax, DraftSafe
<1>21. AtHead' /\ AtDraft' /\ AtAccept'
  BY <1>7 DEF AtHead, AtDraft, AtAccept
<1> QED BY <1>13, <1>15, <1>16, <1>17, <1>19, <1>20, <1>21 DEF IndInv

LEMMA StutterStep == IndInv /\ UNCHANGED vars => IndInv'
<1> SUFFICES ASSUME IndInv, UNCHANGED vars PROVE IndInv'
  OBVIOUS
<1> USE DEF vars, output, caches, round
<1>1. TypeOK'
  BY DEF IndInv, TypeOK
<1>2. OutputIsGreedy' /\ AcceptanceIsAgreement'
  BY DEF IndInv, OutputIsGreedy, AcceptanceIsAgreement, TargetArgmax, DraftArgmax, DraftSafe
<1>3. OutputShape' /\ EosShape'
  BY DEF IndInv, OutputShape, EosShape, prompt_len
<1>4. AtHead' /\ AtFold'
  BY DEF IndInv, AtHead, AtFold, TargetArgmax, DraftArgmax, DraftSafe, ExtraToken, prompt_len
<1>5. RoundOpen' <=> RoundOpen
  BY DEF RoundOpen, remaining
<1>6. DraftAhead' <=> DraftAhead
  BY DEF DraftAhead, DraftArgmax, DraftSafe
<1>7. AtDraft' /\ AtAccept'
  BY <1>5, <1>6 DEF IndInv, AtDraft, AtAccept, TargetArgmax, DraftArgmax
<1> QED BY <1>1, <1>2, <1>3, <1>4, <1>7 DEF IndInv

LEMMA NextIndInv == IndInv /\ [Next]_vars => IndInv'
<1> SUFFICES ASSUME IndInv, [Next]_vars PROVE IndInv'
  OBVIOUS
<1>1. CASE Prefill  BY <1>1, PrefillStep
<1>2. CASE StartRound  BY <1>2, StartRoundStep
<1>3. CASE ExitLoop  BY <1>3, ExitLoopStep
<1>4. CASE DraftOne  BY <1>4, DraftOneStep
<1>5. CASE CatOfNothing  BY <1>5, CatOfNothingStep
<1>6. CASE Verify  BY <1>6, VerifyStep
<1>7. CASE AcceptOne  BY <1>7, AcceptOneStep
<1>8. CASE EmitAll \/ EmitThroughEos
  BY <1>8, EmitIsEmitting, EmittingStep
<1>9. CASE Fold  BY <1>9, FoldStep
<1>10. CASE UNCHANGED vars  BY <1>10, StutterStep
<1> QED
  BY <1>1, <1>2, <1>3, <1>4, <1>5, <1>6, <1>7, <1>8, <1>9, <1>10
  DEF Next, Finished

(* The inductive invariant holds for every vocabulary, pair of models,     *)
(* prompt, budget, window and EOS id: at every label of                    *)
(* speculative_generate caches, carried logits, predictions and output are *)
(* aligned the way the code after the label relies on.                     *)
THEOREM IndInvHolds == Spec => []IndInv
<1>1. Init => IndInv
  BY InitIndInv
<1>2. IndInv /\ [Next]_vars => IndInv'
  BY NextIndInv
<1> QED BY <1>1, <1>2, PTL DEF Spec

-----------------------------------------------------------------------------
(* Types: in particular no id outside the draft's vocabulary ever reaches  *)
(* the draft (_draft_safe).                                                *)
THEOREM TypeCorrect == Spec => []TypeOK
<1>1. IndInv => TypeOK
  BY DEF IndInv
<1> QED BY <1>1, IndInvHolds, PTL

(* speculative_generate only ever emits the target's own greedy picks: the *)
(* module docstring's correctness property.                                *)
THEOREM OutputGreedy == Spec => []OutputIsGreedy
<1>1. IndInv => OutputIsGreedy
  BY DEF IndInv
<1> QED BY <1>1, IndInvHolds, PTL

(* Both caches are the output, no more and no less, whenever a round       *)
(* begins, and the carried logits are those after it.                      *)
THEOREM CachesExact == Spec => []CachesTrackOutput
<1>1. IndInv => CachesTrackOutput
  BY DEF IndInv, AtHead, CachesTrackOutput
<1> QED BY <1>1, IndInvHolds, PTL

(* A drafted token is accepted exactly when the draft, asked afresh after  *)
(* the same output, agrees with the target: the acceptance rate of         *)
(* benchmark.py measures the models and not the state of their caches.     *)
THEOREM AcceptanceMeasuresAgreement == Spec => []AcceptanceIsAgreement
<1>1. IndInv => AcceptanceIsAgreement
  BY DEF IndInv
<1> QED BY <1>1, IndInvHolds, PTL

(* The docstring's contract of the returned sequence.                      *)
THEOREM ReturnsAsPromised == Spec => []ReturnContract
<1>1. IndInv => ReturnContract
  <2> SUFFICES ASSUME IndInv, pc = "returned" PROVE ReturnContract
    BY DEF ReturnContract
  <2> DEFINE new == SubSeq(generated, prompt_len + 1, Len(generated))
  <2>1. /\ generated \in Seq(TargetToken) /\ n_new \in Nat
        /\ call.input_ids \in Seq(TargetToken) /\ prompt_len \in Nat \ {0}
        /\ call.max_new_tokens \in Nat
    BY CallFacts DEF IndInv, TypeOK
  <2>2. /\ Len(generated) = prompt_len + n_new
        /\ n_new <= call.max_new_tokens
        /\ \A i \in 1 .. prompt_len : generated[i] = call.input_ids[i]
        /\ \A i \in prompt_len + 1 .. Len(generated) - 1 :
             generated[i] # call.eos_token_id
    BY DEF IndInv, OutputShape
  <2>3. /\ Len(new) = n_new
        /\ \A i \in 1 .. n_new : new[i] = generated[prompt_len + i]
    BY <2>1, <2>2
  <2>4. IsPrefix(call.input_ids, generated)
    <3> DEFINE head == SubSeq(generated, 1, prompt_len)
    <3>1. /\ head \in Seq(TargetToken) /\ Len(head) = prompt_len
          /\ \A i \in 1 .. prompt_len : head[i] = generated[i]
      BY <2>1, <2>2
    <3> HIDE DEF head
    <3>2. head = call.input_ids
      BY <2>1, <2>2, <3>1, SeqExt DEF prompt_len
    <3> QED BY <2>1, <2>2, <3>2 DEF IsPrefix, head, prompt_len
  <2>5. \A i \in 1 .. Len(new) - 1 : new[i] # call.eos_token_id
    <3> HIDE DEF new
    <3> SUFFICES ASSUME NEW i \in 1 .. n_new - 1
                 PROVE  new[i] # call.eos_token_id
      BY <2>3
    <3>1. prompt_len + i \in prompt_len + 1 .. Len(generated) - 1 /\ i \in 1 .. n_new
      BY <2>1, <2>2
    <3> QED BY <2>2, <2>3, <3>1
  <2>6. ASSUME n_new < call.max_new_tokens
        PROVE  n_new > 0 /\ Last(new) = call.eos_token_id
    <3>1. n_new > 0 /\ Last(generated) = call.eos_token_id
      BY <2>1, <2>6 DEF IndInv, EosShape
    <3> HIDE DEF new
    <3>2. new[n_new] = generated[prompt_len + n_new]
      <4>1. n_new \in 1 .. n_new
        BY <2>1, <3>1
      <4> QED BY <2>3, <4>1
    <3> QED BY <2>1, <2>2, <2>3, <3>1, <3>2 DEF Last
  <2> HIDE DEF new
  <2>7. /\ IsPrefix(call.input_ids, generated)
        /\ Len(new) = n_new /\ n_new <= call.max_new_tokens
        /\ \A i \in 1 .. Len(new) - 1 : new[i] # call.eos_token_id
        /\ n_new < call.max_new_tokens => n_new > 0 /\ Last(new) = call.eos_token_id
    BY <2>2, <2>3, <2>4, <2>5, <2>6
  <2> QED BY <2>7, Zenon DEF ReturnContract, new, prompt_len
<1> QED BY <1>1, IndInvHolds, PTL

-----------------------------------------------------------------------------
(* No forward pass leaves prompt + max_new_tokens positions: the window is *)
(* cut to the budget before anything is drafted.                           *)
CachesFit ==
    /\ Len(DraftSafe(generated)) = Len(generated)
    /\ pc # "prefill" => Len(generated) <= prompt_len + call.max_new_tokens
    /\ pc \in {"draft", "accept"} =>
         /\ Len(draft_cache) <= prompt_len + call.max_new_tokens
         /\ Len(generated \o drafted) <= prompt_len + call.max_new_tokens

LEMMA CacheLengths == IndInv => CachesFit
<1> SUFFICES ASSUME IndInv PROVE CachesFit
  OBVIOUS
<1>1. /\ generated \in Seq(TargetToken) /\ drafted \in Seq(DraftToken)
      /\ drafted \in Seq(TargetToken)
      /\ n_new \in Nat /\ this_k \in Nat /\ call \in Calls
      /\ prompt_len \in Nat /\ call.max_new_tokens \in Nat
  BY DraftIsTarget, CallFacts DEF IndInv, TypeOK
<1>2. DraftSafe(generated) \in Seq(DraftToken)
      /\ Len(DraftSafe(generated)) = Len(generated)
  BY <1>1, DraftSafeProps
<1>3. pc # "prefill" => /\ Len(generated) = prompt_len + n_new
                        /\ n_new <= call.max_new_tokens
  BY DEF IndInv, OutputShape
<1>4. ASSUME pc \in {"draft", "accept"}
      PROVE  /\ Len(draft_cache) <= prompt_len + call.max_new_tokens
             /\ Len(generated \o drafted) <= prompt_len + call.max_new_tokens
  <2>1. RoundOpen /\ DraftAhead
    BY <1>4 DEF IndInv, AtDraft, AtAccept
  <2>2. Len(drafted) <= call.max_new_tokens - n_new
    BY <1>1, <2>1 DEF RoundOpen, remaining
  <2>3. draft_cache = DraftSafe(generated) \o drafted
    BY <2>1 DEF DraftAhead
  <2>4. /\ Len(DraftSafe(generated) \o drafted) = Len(generated) + Len(drafted)
        /\ Len(generated \o drafted) = Len(generated) + Len(drafted)
    BY <1>1, <1>2
  <2> QED BY <1>1, <1>3, <1>4, <2>2, <2>3, <2>4
<1> QED BY <1>1, <1>2, <1>3, <1>4 DEF CachesFit

LEMMA TakeShortens ==
    ASSUME NEW S, NEW s \in Seq(S), NEW n \in Nat
    PROVE  Len(Take(s, n)) <= Len(s)
BY TakeProps

(* No forward pass of either model reaches past the positions of the       *)
(* prompt and max_new_tokens (this_k of speculative_generate).             *)
THEOREM NeverPastBudget == Spec => []WithinBudget
<1>1. Init => WithinBudget
  BY CallFacts DEF Init, WithinBudget, prompt_len
<1>2. IndInv /\ IndInv' /\ WithinBudget /\ [Next]_vars => WithinBudget'
  <2> SUFFICES ASSUME IndInv, IndInv', WithinBudget, [Next]_vars
               PROVE  WithinBudget'
    OBVIOUS
  <2> CachesFit /\ CachesFit'
    BY CacheLengths, PTL
  <2>1. /\ prompt_len \in Nat /\ call.max_new_tokens \in Nat
        /\ generated \in Seq(TargetToken) /\ drafted \in Seq(TargetToken)
        /\ target_cache \in Seq(TargetToken) /\ draft_cache \in Seq(DraftToken)
        /\ accepted \in Nat /\ call.input_ids \in Seq(TargetToken)
    BY CallFacts, DraftIsTarget DEF IndInv, TypeOK
  <2>2. CASE Prefill
    <3>1. /\ Len(target_cache') = prompt_len /\ Len(draft_cache') = prompt_len
          /\ call' = call
      BY <2>1, <2>2, DraftSafeProps DEF Prefill, prompt_len
    <3> QED BY <2>1, <3>1 DEF WithinBudget, prompt_len
  <2>3. CASE StartRound \/ ExitLoop \/ CatOfNothing \/ AcceptOne \/ UNCHANGED vars
    <3>1. UNCHANGED <<call, target_cache, draft_cache>>
      BY <2>3 DEF StartRound, ExitLoop, CatOfNothing, AcceptOne, vars, caches
    <3> QED BY <3>1 DEF WithinBudget
  <2>4. CASE DraftOne
    <3>1. UNCHANGED <<call, target_cache>> /\ pc' = "draft"
      BY <2>4 DEF DraftOne
    <3>2. Len(draft_cache') <= prompt_len' + call'.max_new_tokens
      BY <3>1 DEF CachesFit
    <3> QED BY <3>1, <3>2 DEF WithinBudget, prompt_len
  <2>5. CASE Verify
    <3>1. UNCHANGED <<call, draft_cache>> /\ pc = "draft"
          /\ target_cache' = generated \o drafted
      BY <2>5 DEF Verify, IndInv, AtDraft
    <3>2. Len(generated \o drafted) <= prompt_len + call.max_new_tokens
      BY <3>1 DEF CachesFit
    <3> QED BY <3>1, <3>2 DEF WithinBudget, prompt_len
  <2>6. CASE EmitAll \/ EmitThroughEos
    <3>1. UNCHANGED call /\ RollBack
      BY <2>6 DEF EmitAll, EmitThroughEos, Emit
    <3>2. /\ Len(target_cache') <= Len(target_cache)
          /\ Len(draft_cache') <= Len(draft_cache)
      <4>1. Len(generated) + accepted \in Nat
        BY <2>1
      <4> QED BY <2>1, <3>1, <4>1, TakeShortens DEF RollBack
    <3>3. /\ target_cache' \in Seq(TargetToken) /\ draft_cache' \in Seq(DraftToken)
      BY DEF IndInv, TypeOK
    <3> QED BY <2>1, <3>1, <3>2, <3>3 DEF WithinBudget, prompt_len
  <2>7. CASE Fold
    <3>1. UNCHANGED call /\ pc' = "head"
      BY <2>7 DEF Fold
    <3>2. target_cache' = generated' /\ draft_cache' = DraftSafe(generated)'
      BY <3>1 DEF IndInv, AtHead
    <3>3. /\ Len(DraftSafe(generated)') = Len(generated')
          /\ Len(generated') <= prompt_len' + call'.max_new_tokens
      BY <3>1 DEF CachesFit
    <3> QED BY <3>1, <3>2, <3>3 DEF WithinBudget, prompt_len
  <2> QED BY <2>2, <2>3, <2>4, <2>5, <2>6, <2>7 DEF Next, Finished
<1> QED BY <1>1, <1>2, IndInvHolds, PTL DEF Spec

-----------------------------------------------------------------------------
(* SpecDecodeStats.  A round counts what it accepted and one token more;   *)
(* only the round that returns may emit fewer than it counts.              *)

LEMMA EmittingCounts ==
    ASSUME IndInv, StatsAddUp, NEW n, NEW eos, Emitting(n, eos)
    PROVE  StatsAddUp'
<1>1. /\ stats \in StatsType /\ n_new \in Nat /\ accepted \in Nat /\ this_k \in Nat
      /\ call.max_new_tokens \in Nat
  BY CallFacts DEF IndInv, TypeOK
<1>2. /\ pc = "accept" /\ ~ DraftConfirmed /\ n \in 1 .. Len(NewTokens)
      /\ eos \in BOOLEAN /\ (eos \/ n = Len(NewTokens))
  BY DEF Emitting
<1>3. accepted <= this_k /\ this_k <= remaining /\ remaining \in Nat
  BY <1>1, <1>2 DEF IndInv, AtAccept, RoundOpen, remaining
<1>4. /\ NewTokens \in Seq(TargetToken) /\ Len(NewTokens) \in 1 .. remaining
      /\ Len(NewTokens) = IF accepted < remaining THEN accepted + 1 ELSE remaining
  BY <1>2, RoundTokens
<1>5. Len(SubSeq(NewTokens, 1, n)) = n /\ n \in Nat
  BY <1>2, <1>4
<1>6. /\ stats' = [rounds |-> stats.rounds + 1,
                   tokens_generated |-> n_new + n,
                   tokens_proposed |-> stats.tokens_proposed + this_k,
                   tokens_accepted_from_draft |->
                     stats.tokens_accepted_from_draft + accepted,
                   accepted_per_round |-> Append(stats.accepted_per_round, accepted)]
      /\ n_new' = n_new + n /\ hit_eos' = eos
      /\ pc' = IF eos \/ n_new + n >= call.max_new_tokens THEN "returned" ELSE "fold"
      /\ UNCHANGED <<accepted, this_k>>
  BY <1>5 DEF Emitting, Emit, CountRound, round
<1>7. PICK found \in Nat : found = stats.tokens_accepted_from_draft + stats.rounds
  BY <1>1 DEF StatsType
<1>8. /\ stats.rounds \in Nat /\ stats.tokens_proposed \in Nat
      /\ stats.tokens_accepted_from_draft \in Nat
      /\ stats.accepted_per_round \in Seq(Nat)
  BY <1>1 DEF StatsType
<1>9. /\ Len(stats.accepted_per_round) = stats.rounds
      /\ stats.tokens_accepted_from_draft <= stats.tokens_proposed
      /\ stats.tokens_accepted_from_draft = Total(stats.accepted_per_round)
      /\ n_new = found
  BY <1>2, <1>7 DEF StatsAddUp
<1>10. Total(stats'.accepted_per_round) = Total(stats.accepted_per_round) + accepted
  <2>1. stats.accepted_per_round \in Seq(Int) /\ accepted \in Int
    BY <1>1, <1>8
  <2>2. stats'.accepted_per_round = Append(stats.accepted_per_round, accepted)
    BY <1>6
  <2> QED BY <2>1, <2>2, TotalOfAppend
<1>11. Len(stats'.accepted_per_round) = stats'.rounds
  BY <1>6, <1>8, <1>9
<1>12. /\ stats'.tokens_generated = n_new'
       /\ stats'.tokens_accepted_from_draft <= stats'.tokens_proposed
       /\ stats'.tokens_accepted_from_draft = Total(stats'.accepted_per_round)
       /\ stats'.tokens_accepted_from_draft + stats'.rounds = found + accepted + 1
  <2>1. /\ stats'.tokens_generated = n_new'
        /\ stats'.tokens_proposed = stats.tokens_proposed + this_k
        /\ stats'.tokens_accepted_from_draft = stats.tokens_accepted_from_draft + accepted
        /\ stats'.rounds = stats.rounds + 1
    BY <1>6
  <2>2. stats'.tokens_accepted_from_draft = Total(stats'.accepted_per_round)
    BY <1>9, <1>10, <2>1
  <2>3. /\ stats'.tokens_accepted_from_draft <= stats'.tokens_proposed
        /\ stats'.tokens_accepted_from_draft + stats'.rounds = found + accepted + 1
    <3>1. PICK a, p, r \in Nat : /\ a = stats.tokens_accepted_from_draft
                                 /\ p = stats.tokens_proposed /\ r = stats.rounds
      BY <1>8
    <3>2. found = a + r /\ a <= p
      BY <1>7, <1>9, <3>1
    <3>3. /\ stats'.tokens_accepted_from_draft = a + accepted
          /\ stats'.tokens_proposed = p + this_k
          /\ stats'.rounds = r + 1
      BY <2>1, <3>1
    <3>4. accepted <= this_k /\ accepted \in Nat /\ this_k \in Nat
      BY <1>1, <1>3
    <3>5. a + accepted <= p + this_k /\ (a + accepted) + (r + 1) = found + accepted + 1
      BY <3>2, <3>4
    <3> QED BY <3>3, <3>5
  <2> QED BY <2>1, <2>2, <2>3
<1>13. n <= accepted + 1
  BY <1>1, <1>2, <1>3, <1>4, <1>5
<1>14. n_new' <= found + accepted + 1
  <2>1. n_new' = n_new + n /\ n_new = found
    BY <1>6, <1>9
  <2> QED BY <1>1, <1>5, <1>13, <2>1
<1>15. ASSUME pc' # "returned" PROVE n_new' = found + accepted + 1
  <2>1. ~ eos /\ n_new + n < call.max_new_tokens
    BY <1>1, <1>5, <1>6, <1>15
  <2>2. n = Len(NewTokens) /\ n < remaining
    BY <1>1, <1>2, <1>5, <2>1 DEF remaining
  <2> QED BY <1>1, <1>3, <1>4, <1>6, <1>9, <2>2
<1>16. ASSUME ~ hit_eos'
       PROVE  \/ n_new' = found + accepted + 1
              \/ n_new' = found + accepted /\ accepted = this_k
  <2>1. n = Len(NewTokens)
    BY <1>2, <1>6, <1>16
  <2> QED BY <1>1, <1>3, <1>4, <1>6, <1>9, <2>1
<1> QED BY <1>1, <1>6, <1>7, <1>11, <1>12, <1>14, <1>15, <1>16 DEF StatsAddUp

LEMMA StatsStep == IndInv /\ StatsAddUp /\ [Next]_vars => StatsAddUp'
<1> SUFFICES ASSUME IndInv, StatsAddUp, [Next]_vars PROVE StatsAddUp'
  OBVIOUS
<1>1. CASE EmitAll \/ EmitThroughEos
  BY <1>1, EmitIsEmitting, EmittingCounts
<1>2. CASE Prefill \/ StartRound \/ DraftOne \/ CatOfNothing \/ Verify
             \/ AcceptOne \/ Fold
  <2>1. UNCHANGED <<n_new, hit_eos, stats>> /\ pc # "returned" /\ pc' # "returned"
    BY <1>2
    DEF Prefill, StartRound, DraftOne, CatOfNothing, Verify, AcceptOne, Fold, output
  <2> QED BY <2>1 DEF StatsAddUp
<1>3. CASE ExitLoop
  <2>1. UNCHANGED <<n_new, hit_eos, stats>> /\ pc # "returned"
    BY <1>3 DEF ExitLoop, output
  <2> QED BY <2>1 DEF StatsAddUp
<1>4. CASE UNCHANGED vars
  BY <1>4 DEF StatsAddUp, vars, output, round
<1> QED BY <1>1, <1>2, <1>3, <1>4 DEF Next, Finished

LEMMA StatsStart == Init => StatsAddUp
<1>1. << >> \in Seq(Int) /\ 0 \in Int /\ Len(<< >>) = 0
  OBVIOUS
<1>2. Total(<< >>) = 0
  BY <1>1, TotalOfAppend
<1> QED BY <1>1, <1>2 DEF Init, NoStats, StatsAddUp

(* The statistics benchmark.py reports add up: tokens_generated is what    *)
(* was returned, the rounds' acceptances sum to the total, and all emitted *)
(* tokens but those the last round loses to the budget or to EOS are       *)
(* accounted for, one per round and one per accepted guess.                *)
THEOREM StatsExact == Spec => []StatsAddUp
BY StatsStart, StatsStep, IndInvHolds, PTL DEF Spec

-----------------------------------------------------------------------------
(* Refinement: every step is a step of GreedyDecode or leaves its          *)
(* variables alone.                                                        *)

LEMMA EmittingRefines ==
    ASSUME IndInv, NEW n, NEW eos, Emitting(n, eos)
    PROVE  Decode!Extend
<1> DEFINE new == SubSeq(NewTokens, 1, n)
<1>1. /\ pc = "accept" /\ ~ DraftConfirmed
      /\ n \in 1 .. Len(NewTokens) /\ eos \in BOOLEAN
      /\ \A i \in 1 .. n - 1 : NewTokens[i] # call.eos_token_id
      /\ (eos <=> NewTokens[n] = call.eos_token_id)
      /\ eos \/ n = Len(NewTokens)
  BY DEF Emitting
<1>2. /\ generated \in Seq(TargetToken) /\ n_new \in Nat
      /\ prompt_len \in Nat /\ call.max_new_tokens \in Nat /\ call.k \in Nat
      /\ this_k \in Nat /\ accepted \in Nat
  BY CallFacts DEF IndInv, TypeOK
<1>3. /\ Len(generated) = prompt_len + n_new
      /\ this_k > 0 /\ this_k <= call.k /\ accepted <= this_k
      /\ this_k <= call.max_new_tokens - n_new
  BY <1>1 DEF IndInv, OutputShape, AtAccept, RoundOpen, remaining
<1>4. /\ NewTokens \in Seq(TargetToken) /\ Len(NewTokens) \in 1 .. remaining
      /\ Len(NewTokens) = IF accepted < remaining THEN accepted + 1 ELSE remaining
  BY <1>1, RoundTokens
<1>5. /\ new \in Seq(TargetToken) /\ Len(new) = n /\ n \in Nat \ {0}
      /\ \A i \in 1 .. n : new[i] = NewTokens[i]
  BY <1>1, <1>4
<1>6. /\ remaining = call.max_new_tokens - (Len(generated) - Len(call.input_ids))
      /\ remaining \in Nat /\ n <= remaining
  <2>1. n <= remaining
    <3> HIDE DEF new
    <3> QED BY <1>1, <1>2, <1>4, <1>5 DEF remaining
  <2> HIDE DEF new
  <2> QED BY <1>2, <1>3, <2>1 DEF remaining, prompt_len
<1>7. ASSUME NEW i \in 1 .. n
      PROVE  new[i] = TargetArgmax(generated \o SubSeq(new, 1, i - 1))
  <2>1. i \in 1 .. Len(NewTokens) /\ i - 1 \in 0 .. n /\ n \in 0 .. Len(NewTokens)
    BY <1>1, <1>4, <1>5
  <2>2. SubSeq(new, 1, i - 1) = SubSeq(NewTokens, 1, i - 1)
    BY <1>4, <2>1, PrefixOfPrefix
  <2>3. NewTokens[i] = TargetArgmax(generated \o SubSeq(NewTokens, 1, i - 1))
    BY <1>1, <2>1, RoundIsGreedy
  <2>4. new[i] = NewTokens[i]
    BY <1>5
  <2> HIDE DEF new
  <2> QED BY <2>2, <2>3, <2>4
<1>8. /\ generated' = generated \o new /\ call' = call
      /\ pc' = IF eos \/ n_new + n >= call.max_new_tokens
               THEN "returned" ELSE "fold"
  BY <1>5 DEF Emitting, Emit
<1> HIDE DEF new
<1>9. new # << >> /\ Last(new) = NewTokens[n]
  BY <1>5 DEF Last
<1>10. n_new + n >= call.max_new_tokens <=> n = remaining
  BY <1>2, <1>5, <1>6 DEF remaining
<1>11. new \in BoundedSeq(TargetToken, remaining)
  BY <1>5, <1>6, InContexts
<1>12. \A i \in 1 .. Len(new) - 1 : new[i] # call.eos_token_id
  BY <1>1, <1>5
<1>13. Decode!Greedy(new)
  BY <1>1, <1>5, <1>7 DEF Decode!Greedy, TargetArgmax
<1>14. Decode!StopsAtEos(new)
  BY <1>12 DEF Decode!StopsAtEos
<1>15. Decode!Budget = remaining
  BY <1>1, <1>6 DEF Decode!Budget
<1>16. ~ Decode!Unanswerable
  BY <1>2, <1>3 DEF Decode!Unanswerable
<1>17. IF Last(new) = call.eos_token_id \/ Len(new) = remaining
       THEN pc' = "returned" ELSE pc' = "fold"
  BY <1>1, <1>5, <1>8, <1>9, <1>10
<1>18. pc' # "prefill"
  BY <1>8
<1>19. (IF pc' \in {"returned", "raised"} THEN pc' ELSE "running")
         = IF Last(new) = call.eos_token_id \/ Len(new) = remaining
           THEN "returned" ELSE "running"
  BY <1>17
<1>20. (IF pc \in {"returned", "raised"} THEN pc ELSE "running") = "running"
  BY <1>1
<1>21. /\ (IF pc = "prefill" THEN call.input_ids ELSE generated) = generated
       /\ (IF pc' = "prefill" THEN call'.input_ids ELSE generated') = generated \o new
  BY <1>1, <1>8, <1>18
<1>22. /\ Decode!Last(new) = Last(new)
       /\ Decode!BoundedSeq(Decode!TargetToken, remaining)
            = BoundedSeq(TargetToken, remaining)
  BY DEF Decode!Last, Last, Decode!TargetToken, TargetToken,
         Decode!BoundedSeq, BoundedSeq, Decode!SeqOf, SeqOf
<1> QED
  BY <1>8, <1>9, <1>11, <1>13, <1>14, <1>15, <1>16, <1>19, <1>20, <1>21, <1>22
  DEF Decode!Extend

LEMMA StepRefines ==
    IndInv /\ [Next]_vars => [Decode!Next]_(Decode!vars)
<1> SUFFICES ASSUME IndInv, [Next]_vars PROVE [Decode!Next]_(Decode!vars)
  OBVIOUS
<1>1. /\ call.max_new_tokens \in Nat /\ n_new \in Nat /\ prompt_len \in Nat
      /\ call.k \in Nat
  BY CallFacts DEF IndInv, TypeOK
<1>2. CASE Prefill
  BY <1>2 DEF Prefill, Decode!vars
<1>3. CASE StartRound \/ DraftOne \/ Verify \/ AcceptOne \/ Fold
  BY <1>3 DEF StartRound, DraftOne, Verify, AcceptOne, Fold, Decode!vars, output
<1>4. CASE ExitLoop
  <2>1. /\ pc = "head" /\ pc' = "returned" /\ UNCHANGED <<call, generated>>
        /\ ~ (n_new < call.max_new_tokens /\ ~ hit_eos)
    BY <1>4 DEF ExitLoop, output
  <2>2. /\ Len(generated) = prompt_len + n_new /\ n_new <= call.max_new_tokens
        /\ ~ hit_eos
    BY <2>1 DEF IndInv, OutputShape, EosShape
  <2>3. Decode!Budget = 0
    BY <1>1, <2>1, <2>2 DEF Decode!Budget, prompt_len
  <2>4. Decode!ReturnPrompt
    BY <2>1, <2>3 DEF Decode!ReturnPrompt
  <2> QED BY <2>4 DEF Decode!Next
<1>5. CASE CatOfNothing
  <2>1. /\ pc = "draft" /\ pc' = "raised" /\ UNCHANGED <<call, generated>>
        /\ this_k = 0
    BY <1>5 DEF CatOfNothing, output
  <2>2. call.k = 0 /\ call.max_new_tokens > 0
    BY <1>1, <2>1 DEF IndInv, AtDraft, RoundOpen
  <2>3. Decode!Refuse
    BY <2>1, <2>2 DEF Decode!Refuse, Decode!Unanswerable
  <2> QED BY <2>3 DEF Decode!Next
<1>6. CASE EmitAll \/ EmitThroughEos
  <2>1. Decode!Extend
    BY <1>6, EmitIsEmitting, EmittingRefines
  <2> QED BY <2>1 DEF Decode!Next
<1>7. CASE UNCHANGED vars
  BY <1>7 DEF vars, output, Decode!vars
<1> QED
  BY <1>2, <1>3, <1>4, <1>5, <1>6, <1>7 DEF Next, Finished

(* speculative_generate implements greedy decoding (the safety part of     *)
(* ImplementsGreedyDecode): it starts as GreedyDecode does, and each of    *)
(* its steps extends the output by greedy tokens, returns or refuses as    *)
(* GreedyDecode may, or changes nothing a caller sees.                     *)
THEOREM RefinesGreedyDecode == Spec => Decode!Init /\ [][Decode!Next]_(Decode!vars)
<1>1. Init => Decode!Init
  BY DEF Init, Decode!Init
<1> QED BY <1>1, StepRefines, IndInvHolds, PTL DEF Spec
=============================================================================

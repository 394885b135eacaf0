----------------------------- MODULE SumLemmas -----------------------------
(***************************************************************************)
(* Induction over the natural numbers and over finite sets, stated for a   *)
(* set of the cases in which a fact holds, and what it yields for sums:    *)
(* SumFunctionOnSet of the community modules, by which the models add up   *)
(* contracts, collateral and prices.  And the sizes of images, and the     *)
(* earliest and the latest of finitely many dated things.                  *)
(***************************************************************************)
EXTENDS Integers, FiniteSets, Functions, FiniteSetTheorems, WellFoundedInduction, TLAPS

\* Every non-empty set of natural numbers has a smallest.
LEMMA LeastNatural ==
  ASSUME NEW S \in SUBSET Nat, S # {}
  PROVE  \E n \in S : \A m \in S : n <= m
<1>1. IsWellFoundedOn(OpToRel(<, Nat), Nat)
  BY NatLessThanWellFounded
<1>2. IsWellFoundedOn({ss \in Nat \X Nat : ss[1] < ss[2]}, Nat)
  BY <1>1 DEF OpToRel
<1>3. PICK n \in S : \A m \in S : <<m, n>> \notin {ss \in Nat \X Nat : ss[1] < ss[2]}
  BY <1>2, WFMin
<1>4. ASSUME NEW m \in S PROVE n <= m
  <2>1. n \in Nat /\ m \in Nat
    OBVIOUS
  <2>2. <<m, n>> \in Nat \X Nat /\ <<m, n>>[1] = m /\ <<m, n>>[2] = n
    BY <2>1
  <2>3. ~(m < n)
    BY <1>3, <2>2
  <2> QED
    BY <2>1, <2>3
<1> QED
  BY <1>4

\* Induction over the natural numbers, of the set of those a fact holds of.
LEMMA NaturalsByStep ==
  ASSUME NEW holds \in SUBSET Nat, 0 \in holds, \A n \in holds : n + 1 \in holds
  PROVE  holds = Nat
<1> SUFFICES ASSUME Nat \ holds # {} PROVE FALSE
  OBVIOUS
<1>1. PICK n \in Nat \ holds : \A m \in Nat \ holds : n <= m
  BY LeastNatural
<1>2. n # 0 /\ n - 1 \in Nat /\ n - 1 \in holds
  BY <1>1
<1> QED
  BY <1>1, <1>2

\* Induction over the subsets of a finite set: a subset may rest on those with one element less.
LEMMA SubsetsByStep ==
  ASSUME NEW S, IsFiniteSet(S), NEW holds \in SUBSET (SUBSET S), {} \in holds,
         \A T \in SUBSET S : (T # {} /\ \A x \in T : T \ {x} \in holds) => T \in holds
  PROVE  holds = SUBSET S
<1> DEFINE sizes == {n \in Nat : \A T \in SUBSET S : Cardinality(T) = n => T \in holds}
<1>1. \A T \in SUBSET S : IsFiniteSet(T) /\ Cardinality(T) \in Nat
  BY FS_Subset, FS_CardinalityType
<1>2. 0 \in sizes
  BY <1>1, FS_EmptySet
<1>3. ASSUME NEW n \in sizes PROVE n + 1 \in sizes
  <2>1. ASSUME NEW T \in SUBSET S, Cardinality(T) = n + 1 PROVE T \in holds
    <3>1. T # {}
      BY <2>1, FS_EmptySet
    <3>2. ASSUME NEW x \in T PROVE T \ {x} \in holds
      <4>1. Cardinality(T \ {x}) = n
        BY <1>1, <2>1, FS_RemoveElement
      <4> QED
        BY <4>1
    <3> QED
      BY <3>1, <3>2
  <2> QED
    BY <2>1
<1>4. sizes = Nat
  <2> HIDE DEF sizes
  <2>1. sizes \in SUBSET Nat
    BY DEF sizes
  <2> QED
    BY <1>2, <1>3, <2>1, NaturalsByStep
<1>5. ASSUME NEW T \in SUBSET S PROVE T \in holds
  <2>1. Cardinality(T) \in sizes
    BY <1>1, <1>4
  <2> QED
    BY <2>1
<1> QED
  BY <1>5

-----------------------------------------------------------------------------
(* The partial sums of a function, over the subsets of a finite set.       *)

AnyOf(s) == CHOOSE x \in s : TRUE
SumStep(f, s, g) == IF s = {} THEN 0 ELSE f[AnyOf(s)] + g[s \ {AnyOf(s)}]
PartialSums(f, S) == CHOOSE g : g = [s \in SUBSET S |-> SumStep(f, s, g)]

LEMMA SumIsPartial ==
  ASSUME NEW f, NEW S
  PROVE  SumFunctionOnSet(f, S) = PartialSums(f, S)[S]
BY DEF SumFunctionOnSet, FoldFunctionOnSet, MapThenFoldSet, PartialSums, SumStep, AnyOf

\* They exist: those of the subsets of n elements determine those of one element more.
LEMMA PartialSumsExist ==
  ASSUME NEW f, NEW S, IsFiniteSet(S)
  PROVE  PartialSums(f, S) = [s \in SUBSET S |-> SumStep(f, s, PartialSums(f, S))]
<1> DEFINE Good(g, n) == \A s \in SUBSET S : Cardinality(s) <= n => g[s] = SumStep(f, s, g)
           good == {n \in Nat : \E g : Good(g, n)}
<1>1. \A s \in SUBSET S : IsFiniteSet(s) /\ Cardinality(s) \in Nat
  BY FS_Subset, FS_CardinalityType
<1>2. \A s \in SUBSET S : s # {} => /\ AnyOf(s) \in s /\ s \ {AnyOf(s)} \in SUBSET S
                                    /\ Cardinality(s \ {AnyOf(s)}) = Cardinality(s) - 1
  <2>1. \A s \in SUBSET S : s # {} => AnyOf(s) \in s
    BY DEF AnyOf
  <2> QED
    BY <1>1, <2>1, FS_RemoveElement
<1>3. 0 \in good
  <2> DEFINE zero == [s \in SUBSET S |-> 0]
  <2>1. ASSUME NEW s \in SUBSET S, Cardinality(s) <= 0 PROVE zero[s] = SumStep(f, s, zero)
    <3>1. s = {}
      BY <1>1, <2>1, FS_EmptySet
    <3> QED
      BY <3>1 DEF SumStep
  <2> QED
    BY <2>1
<1>4. ASSUME NEW n \in good PROVE n + 1 \in good
  <2>1. PICK g : Good(g, n)
    OBVIOUS
  <2> DEFINE h == [s \in SUBSET S |-> IF Cardinality(s) <= n THEN g[s] ELSE SumStep(f, s, g)]
  <2>2. \A s \in SUBSET S : Cardinality(s) <= n => h[s] = g[s]
    OBVIOUS
  <2>3. ASSUME NEW s \in SUBSET S, Cardinality(s) <= n + 1 PROVE h[s] = SumStep(f, s, h)
    <3>1. h[s] = SumStep(f, s, g)
      BY <2>1
    <3>2. CASE s = {}
      BY <3>1, <3>2 DEF SumStep
    <3>3. CASE s # {}
      <4>1. g[s \ {AnyOf(s)}] = h[s \ {AnyOf(s)}]
        <5> HIDE DEF h
        <5> QED
          BY <1>1, <1>2, <2>2, <2>3, <3>3
      <4> QED
        BY <3>1, <3>3, <4>1 DEF SumStep
    <3> QED
      BY <3>2, <3>3
  <2>4. Good(h, n + 1)
    BY <2>3
  <2> HIDE DEF Good, h
  <2> QED
    BY <2>4
<1>5. good = Nat
  <2> HIDE DEF good
  <2>1. good \in SUBSET Nat
    BY DEF good
  <2> QED
    BY <1>3, <1>4, <2>1, NaturalsByStep
<1>6. PICK g : \A s \in SUBSET S : g[s] = SumStep(f, s, g)
  <2>1. Cardinality(S) \in good
    BY <1>1, <1>5
  <2>2. PICK g : Good(g, Cardinality(S))
    BY <2>1
  <2>3. \A s \in SUBSET S : Cardinality(s) <= Cardinality(S)
    BY FS_Subset
  <2> QED
    BY <2>2, <2>3
<1> DEFINE h == [s \in SUBSET S |-> g[s]]
<1>7. ASSUME NEW s \in SUBSET S PROVE h[s] = SumStep(f, s, h)
  <2>1. CASE s = {}
    BY <1>6, <2>1 DEF SumStep
  <2>2. CASE s # {}
    <3>1. h[s \ {AnyOf(s)}] = g[s \ {AnyOf(s)}]
      BY <1>2, <2>2
    <3> QED
      BY <1>6, <2>2, <3>1 DEF SumStep
  <2> QED
    BY <2>1, <2>2
<1>8. h = [s \in SUBSET S |-> SumStep(f, s, h)]
  <2>1. \A s \in SUBSET S : h[s] = SumStep(f, s, h)
    BY <1>7
  <2>2. h = [s \in SUBSET S |-> h[s]]
    OBVIOUS
  <2> HIDE DEF h
  <2> QED
    BY <2>1, <2>2
<1> HIDE DEF h
<1> QED
  BY <1>8 DEF PartialSums

\* A partial sum is that of any element more than that without it.
LEMMA PartialSumsAre ==
  ASSUME NEW f, NEW S, IsFiniteSet(S), \A x \in S : f[x] \in Int
  PROVE  /\ PartialSums(f, S)[{}] = 0
         /\ \A s \in SUBSET S : PartialSums(f, S)[s] \in Int
         /\ \A s \in SUBSET S : \A x \in s :
              PartialSums(f, S)[s] = f[x] + PartialSums(f, S)[s \ {x}]
<1> DEFINE g == PartialSums(f, S)
           ints == {s \in SUBSET S : g[s] \in Int}
           holds == {s \in SUBSET S : \A x \in s : g[s] = f[x] + g[s \ {x}]}
<1>1. \A s \in SUBSET S : g[s] = SumStep(f, s, g)
  <2>1. g = [s \in SUBSET S |-> SumStep(f, s, g)]
    BY PartialSumsExist
  <2> HIDE DEF g
  <2> QED
    BY <2>1
<1> HIDE DEF g
<1>2. g[{}] = 0
  BY <1>1 DEF SumStep
<1>3. \A s \in SUBSET S : s # {} => /\ AnyOf(s) \in s /\ s \ {AnyOf(s)} \in SUBSET S
                                    /\ f[AnyOf(s)] \in Int
                                    /\ g[s] = f[AnyOf(s)] + g[s \ {AnyOf(s)}]
  <2>1. \A s \in SUBSET S : s # {} => AnyOf(s) \in s
    BY DEF AnyOf
  <2> QED
    BY <1>1, <2>1 DEF SumStep
<1>4. ints = SUBSET S
  <2>1. {} \in ints
    BY <1>2
  <2>2. ASSUME NEW s \in SUBSET S, s # {}, \A x \in s : s \ {x} \in ints PROVE s \in ints
    <3>1. AnyOf(s) \in s /\ f[AnyOf(s)] \in Int /\ g[s] = f[AnyOf(s)] + g[s \ {AnyOf(s)}]
      BY <1>3, <2>2
    <3>2. g[s \ {AnyOf(s)}] \in Int
      BY <2>2, <3>1
    <3>3. g[s] \in Int
      BY <3>1, <3>2
    <3> QED
      BY <3>3
  <2>3. ints \in SUBSET (SUBSET S)
    OBVIOUS
  <2> HIDE DEF ints
  <2> QED
    BY <2>1, <2>2, <2>3, SubsetsByStep
<1>5. \A s \in SUBSET S : g[s] \in Int
  BY <1>4
<1>6. holds = SUBSET S
  <2>1. {} \in holds
    OBVIOUS
  <2>2. ASSUME NEW s \in SUBSET S, s # {}, \A x \in s : s \ {x} \in holds, NEW x \in s
        PROVE  g[s] = f[x] + g[s \ {x}]
    <3> DEFINE y == AnyOf(s)
    <3>1. y \in s /\ g[s] = f[y] + g[s \ {y}] /\ f[y] \in Int /\ f[x] \in Int
      BY <1>3, <2>2
    <3>2. CASE x = y
      BY <3>1, <3>2
    <3>3. CASE x # y
      <4>1. g[s \ {y}] = f[x] + g[(s \ {y}) \ {x}]
        BY <2>2, <3>1, <3>3
      <4>2. g[s \ {x}] = f[y] + g[(s \ {x}) \ {y}]
        BY <2>2, <3>1, <3>3
      <4>3. (s \ {y}) \ {x} = (s \ {x}) \ {y} /\ (s \ {x}) \ {y} \in SUBSET S
        OBVIOUS
      <4>4. g[(s \ {x}) \ {y}] \in Int
        BY <1>5, <4>3
      <4> HIDE DEF y
      <4>5. PICK rest \in Int : rest = g[(s \ {x}) \ {y}]
        BY <4>4
      <4>6. g[s] = f[y] + (f[x] + rest) /\ g[s \ {x}] = f[y] + rest
        BY <3>1, <4>1, <4>2, <4>3, <4>5
      <4> QED
        BY <3>1, <4>5, <4>6
    <3> QED
      BY <3>2, <3>3
  <2>3. \A s \in SUBSET S : (s # {} /\ \A x \in s : s \ {x} \in holds) => s \in holds
    BY <2>2
  <2>4. holds \in SUBSET (SUBSET S)
    OBVIOUS
  <2> HIDE DEF holds
  <2> QED
    BY <2>1, <2>3, <2>4, SubsetsByStep
<1>7. \A s \in SUBSET S : \A x \in s : g[s] = f[x] + g[s \ {x}]
  BY <1>6
<1> QED
  BY <1>2, <1>5, <1>7 DEF g

\* The partial sums of two functions that agree on a part of their sets agree there.
LEMMA PartialSumsAgree ==
  ASSUME NEW f, NEW S, IsFiniteSet(S), \A x \in S : f[x] \in Int,
         NEW h, NEW T \in SUBSET S, \A x \in T : h[x] = f[x]
  PROVE  \A s \in SUBSET T : PartialSums(h, T)[s] = PartialSums(f, S)[s]
<1> DEFINE g == PartialSums(f, S)
           k == PartialSums(h, T)
           holds == {s \in SUBSET T : k[s] = g[s]}
<1>1. IsFiniteSet(T)
  BY FS_Subset
<1>0. \A x \in T : h[x] \in Int
  OBVIOUS
<1>2. g[{}] = 0 /\ \A s \in SUBSET S : \A x \in s : g[s] = f[x] + g[s \ {x}]
  <2>1. g[{}] = 0
    BY PartialSumsAre
  <2>2. ASSUME NEW s \in SUBSET S, NEW x \in s PROVE g[s] = f[x] + g[s \ {x}]
    BY PartialSumsAre
  <2> QED
    BY <2>1, <2>2
<1>3. k[{}] = 0 /\ \A s \in SUBSET T : \A x \in s : k[s] = h[x] + k[s \ {x}]
  <2>1. k[{}] = 0
    BY <1>0, <1>1, PartialSumsAre
  <2>2. ASSUME NEW s \in SUBSET T, NEW x \in s PROVE k[s] = h[x] + k[s \ {x}]
    BY <1>0, <1>1, PartialSumsAre
  <2> QED
    BY <2>1, <2>2
<1> HIDE DEF g, k
<1>4. {} \in holds /\ holds \in SUBSET (SUBSET T)
  BY <1>2, <1>3
<1>5. ASSUME NEW s \in SUBSET T, s # {}, \A x \in s : s \ {x} \in holds PROVE s \in holds
  <2>1. PICK x \in s : TRUE
    BY <1>5
  <2>2. k[s] = h[x] + k[s \ {x}] /\ g[s] = f[x] + g[s \ {x}] /\ h[x] = f[x]
    BY <1>2, <1>3
  <2>3. k[s \ {x}] = g[s \ {x}]
    BY <1>5
  <2> QED
    BY <2>2, <2>3
<1>6. holds = SUBSET T
  <2> HIDE DEF holds
  <2> QED
    BY <1>1, <1>4, <1>5, SubsetsByStep
<1> QED
  BY <1>6 DEF g, k

-----------------------------------------------------------------------------
(* Sums.                                                                   *)

\* The sum of nothing; and a sum with any of its elements taken out.
LEMMA SumIs ==
  ASSUME NEW f, NEW S, IsFiniteSet(S), \A x \in S : f[x] \in Int
  PROVE  /\ SumFunctionOnSet(f, {}) = 0
         /\ SumFunctionOnSet(f, S) \in Int
         /\ \A x \in S : SumFunctionOnSet(f, S) = f[x] + SumFunctionOnSet(f, S \ {x})
<1>1. SumFunctionOnSet(f, S) = PartialSums(f, S)[S]
  BY SumIsPartial
<1>2. ASSUME NEW T \in SUBSET S PROVE SumFunctionOnSet(f, T) = PartialSums(f, S)[T]
  <2>1. SumFunctionOnSet(f, T) = PartialSums(f, T)[T]
    BY SumIsPartial
  <2> QED
    BY <2>1, PartialSumsAgree
<1>3. \A T \in SUBSET S : SumFunctionOnSet(f, T) = PartialSums(f, S)[T]
  BY <1>2
<1>4. PartialSums(f, S)[{}] = 0 /\ PartialSums(f, S)[S] \in Int
  BY PartialSumsAre
<1>5. \A x \in S : PartialSums(f, S)[S] = f[x] + PartialSums(f, S)[S \ {x}]
  BY PartialSumsAre
<1> QED
  BY <1>1, <1>3, <1>4, <1>5

\* A sum depends on the values added.
LEMMA SumSame ==
  ASSUME NEW f, NEW h, NEW S, IsFiniteSet(S), \A x \in S : f[x] \in Int,
         \A x \in S : h[x] = f[x]
  PROVE  SumFunctionOnSet(h, S) = SumFunctionOnSet(f, S)
<1>1. SumFunctionOnSet(f, S) = PartialSums(f, S)[S] /\ SumFunctionOnSet(h, S) = PartialSums(h, S)[S]
  BY SumIsPartial
<1> QED
  BY <1>1, PartialSumsAgree

\* A sum of larger values is not less.
LEMMA SumMonotonic ==
  ASSUME NEW f, NEW h, NEW S, IsFiniteSet(S), \A x \in S : f[x] \in Int /\ h[x] \in Int,
         \A x \in S : f[x] <= h[x]
  PROVE  SumFunctionOnSet(f, S) <= SumFunctionOnSet(h, S)
<1> DEFINE holds == {T \in SUBSET S : SumFunctionOnSet(f, T) <= SumFunctionOnSet(h, T)}
<1>1. \A T \in SUBSET S : IsFiniteSet(T)
  BY FS_Subset
<1>2. ASSUME NEW T \in SUBSET S
      PROVE  /\ SumFunctionOnSet(f, T) \in Int /\ SumFunctionOnSet(h, T) \in Int
             /\ SumFunctionOnSet(f, {}) = 0 /\ SumFunctionOnSet(h, {}) = 0
             /\ \A x \in T : SumFunctionOnSet(f, T) = f[x] + SumFunctionOnSet(f, T \ {x})
             /\ \A x \in T : SumFunctionOnSet(h, T) = h[x] + SumFunctionOnSet(h, T \ {x})
  <2>1. IsFiniteSet(T) /\ \A x \in T : f[x] \in Int /\ h[x] \in Int
    BY <1>1
  <2> QED
    BY <2>1, SumIs
<1>3. {} \in holds /\ holds \in SUBSET (SUBSET S)
  BY <1>2
<1>4. ASSUME NEW T \in SUBSET S, T # {}, \A x \in T : T \ {x} \in holds PROVE T \in holds
  <2>1. PICK x \in T : TRUE
    BY <1>4
  <2>2. SumFunctionOnSet(f, T \ {x}) <= SumFunctionOnSet(h, T \ {x})
        /\ SumFunctionOnSet(f, T \ {x}) \in Int /\ SumFunctionOnSet(h, T \ {x}) \in Int
    BY <1>2, <1>4
  <2>3. SumFunctionOnSet(f, T) = f[x] + SumFunctionOnSet(f, T \ {x})
        /\ SumFunctionOnSet(h, T) = h[x] + SumFunctionOnSet(h, T \ {x})
    BY <1>2
  <2>4. SumFunctionOnSet(f, T) <= SumFunctionOnSet(h, T)
    BY <2>2, <2>3
  <2> QED
    BY <2>4
<1>5. holds = SUBSET S
  <2> HIDE DEF holds
  <2> QED
    BY <1>3, <1>4, SubsetsByStep
<1> QED
  BY <1>5

\* A sum of nothing but zeros, and of natural numbers.
LEMMA SumOfZeros ==
  ASSUME NEW f, NEW S, IsFiniteSet(S), \A x \in S : f[x] = 0
  PROVE  SumFunctionOnSet(f, S) = 0
<1> DEFINE holds == {T \in SUBSET S : SumFunctionOnSet(f, T) = 0}
<1>1. \A x \in S : f[x] \in Int
  OBVIOUS
<1>2. {} \in holds /\ holds \in SUBSET (SUBSET S)
  BY <1>1, SumIs
<1>3. ASSUME NEW T \in SUBSET S, T # {}, \A x \in T : T \ {x} \in holds PROVE T \in holds
  <2>1. PICK x \in T : TRUE
    BY <1>3
  <2>2. IsFiniteSet(T) /\ \A y \in T : f[y] \in Int
    BY <1>1, FS_Subset
  <2>3. SumFunctionOnSet(f, T) = f[x] + SumFunctionOnSet(f, T \ {x})
    BY <2>2, SumIs
  <2>4. SumFunctionOnSet(f, T \ {x}) = 0 /\ f[x] = 0
    BY <1>3
  <2> QED
    BY <2>3, <2>4
<1>4. holds = SUBSET S
  <2> HIDE DEF holds
  <2> QED
    BY <1>2, <1>3, SubsetsByStep
<1> QED
  BY <1>4

LEMMA SumOfNaturals ==
  ASSUME NEW f, NEW S, IsFiniteSet(S), \A x \in S : f[x] \in Nat
  PROVE  /\ SumFunctionOnSet(f, S) \in Nat
         /\ \A x \in S : f[x] <= SumFunctionOnSet(f, S)
<1> DEFINE zero == [x \in S |-> 0]
<1>1. \A x \in S : f[x] \in Int /\ zero[x] \in Int /\ zero[x] <= f[x] /\ zero[x] = 0
  OBVIOUS
<1> HIDE DEF zero
<1>2. ASSUME NEW T \in SUBSET S PROVE SumFunctionOnSet(f, T) \in Nat
  <2>1. IsFiniteSet(T) /\ \A x \in T : f[x] \in Int /\ zero[x] \in Int /\ zero[x] <= f[x] /\ zero[x] = 0
    BY <1>1, FS_Subset
  <2>2. SumFunctionOnSet(zero, T) = 0
    BY <2>1, SumOfZeros
  <2>3. SumFunctionOnSet(zero, T) <= SumFunctionOnSet(f, T)
    BY <2>1, SumMonotonic
  <2>4. SumFunctionOnSet(f, T) \in Int
    BY <2>1, SumIs
  <2> QED
    BY <2>2, <2>3, <2>4
<1>3. ASSUME NEW x \in S PROVE f[x] <= SumFunctionOnSet(f, S)
  <2>1. SumFunctionOnSet(f, S) = f[x] + SumFunctionOnSet(f, S \ {x})
    BY <1>1, SumIs
  <2>2. SumFunctionOnSet(f, S \ {x}) \in Nat
    BY <1>2
  <2> QED
    BY <2>1, <2>2
<1> QED
  BY <1>2, <1>3

\* One value changes.
LEMMA SumChanges ==
  ASSUME NEW f, NEW h, NEW S, IsFiniteSet(S), \A x \in S : f[x] \in Int /\ h[x] \in Int,
         NEW y \in S, \A x \in S \ {y} : h[x] = f[x]
  PROVE  SumFunctionOnSet(h, S) = SumFunctionOnSet(f, S) + h[y] - f[y]
<1>1. SumFunctionOnSet(f, S) = f[y] + SumFunctionOnSet(f, S \ {y})
  BY SumIs
<1>2. SumFunctionOnSet(h, S) = h[y] + SumFunctionOnSet(h, S \ {y})
  BY SumIs
<1>3. IsFiniteSet(S \ {y}) /\ \A x \in S \ {y} : f[x] \in Int
  BY FS_Subset
<1>4. SumFunctionOnSet(h, S \ {y}) = SumFunctionOnSet(f, S \ {y})
  BY <1>3, SumSame
<1>5. SumFunctionOnSet(f, S \ {y}) \in Int
  BY <1>3, SumIs
<1> QED
  BY <1>1, <1>2, <1>4, <1>5

\* Sums over sets that do not meet.
LEMMA SumOfUnion ==
  ASSUME NEW f, NEW S, NEW T, IsFiniteSet(S), IsFiniteSet(T), S \cap T = {},
         \A x \in S \cup T : f[x] \in Int
  PROVE  SumFunctionOnSet(f, S \cup T) = SumFunctionOnSet(f, S) + SumFunctionOnSet(f, T)
<1> DEFINE holds == {U \in SUBSET T :
             SumFunctionOnSet(f, S \cup U) = SumFunctionOnSet(f, S) + SumFunctionOnSet(f, U)}
<1>1. \A U \in SUBSET T : IsFiniteSet(U) /\ IsFiniteSet(S \cup U)
  BY FS_Subset, FS_Union
<1>2. SumFunctionOnSet(f, {}) = 0 /\ SumFunctionOnSet(f, S) \in Int
  <2>1. \A x \in S : f[x] \in Int
    OBVIOUS
  <2> QED
    BY <2>1, SumIs
<1>3. {} \in holds /\ holds \in SUBSET (SUBSET T)
  <2>1. S \cup {} = S
    OBVIOUS
  <2> QED
    BY <1>2, <2>1
<1>4. ASSUME NEW U \in SUBSET T, U # {}, \A x \in U : U \ {x} \in holds PROVE U \in holds
  <2>1. PICK x \in U : TRUE
    BY <1>4
  <2>2. \A y \in S \cup U : f[y] \in Int
    OBVIOUS
  <2>3. SumFunctionOnSet(f, S \cup U) = f[x] + SumFunctionOnSet(f, (S \cup U) \ {x})
    BY <1>1, <2>2, SumIs
  <2>4. SumFunctionOnSet(f, U) = f[x] + SumFunctionOnSet(f, U \ {x})
    <3>1. IsFiniteSet(U) /\ \A y \in U : f[y] \in Int
      BY <1>1
    <3> QED
      BY <3>1, SumIs
  <2>5. (S \cup U) \ {x} = S \cup (U \ {x}) /\ f[x] \in Int
    OBVIOUS
  <2>6. SumFunctionOnSet(f, S \cup (U \ {x})) = SumFunctionOnSet(f, S) + SumFunctionOnSet(f, U \ {x})
    BY <1>4
  <2>7. SumFunctionOnSet(f, U \ {x}) \in Int
    <3>1. IsFiniteSet(U \ {x}) /\ \A y \in U \ {x} : f[y] \in Int
      BY <1>1
    <3> QED
      BY <3>1, SumIs
  <2>8. SumFunctionOnSet(f, S \cup U) = SumFunctionOnSet(f, S) + SumFunctionOnSet(f, U)
    <3>1. SumFunctionOnSet(f, S \cup U)
            = f[x] + (SumFunctionOnSet(f, S) + SumFunctionOnSet(f, U \ {x}))
      BY <2>3, <2>5, <2>6
    <3> QED
      BY <1>2, <2>4, <2>5, <2>7, <3>1
  <2> QED
    BY <2>8
<1>5. holds = SUBSET T
  <2> HIDE DEF holds
  <2> QED
    BY <1>3, <1>4, SubsetsByStep
<1> QED
  BY <1>5

\* Zeros may be left out.
LEMMA SumWithin ==
  ASSUME NEW f, NEW S, IsFiniteSet(S), \A x \in S : f[x] \in Int,
         NEW T \in SUBSET S, \A x \in S \ T : f[x] = 0
  PROVE  SumFunctionOnSet(f, S) = SumFunctionOnSet(f, T)
<1>1. IsFiniteSet(T) /\ IsFiniteSet(S \ T) /\ T \cap (S \ T) = {} /\ T \cup (S \ T) = S
  BY FS_Subset
<1>2. SumFunctionOnSet(f, S \ T) = 0
  BY <1>1, SumOfZeros
<1>3. SumFunctionOnSet(f, T) \in Int
  BY <1>1, SumIs
<1>4. SumFunctionOnSet(f, T \cup (S \ T)) = SumFunctionOnSet(f, T) + SumFunctionOnSet(f, S \ T)
  BY <1>1, SumOfUnion
<1>5. SumFunctionOnSet(f, T \cup (S \ T)) = SumFunctionOnSet(f, S)
  BY <1>1
<1> QED
  BY <1>2, <1>3, <1>4, <1>5

\* Rows are added up one by one.
LEMMA SumOfRows ==
  ASSUME NEW f, NEW g, NEW A, NEW I, IsFiniteSet(A), IsFiniteSet(I),
         \A x \in A \X I : f[x] \in Int,
         \A a \in A : g[a] = SumFunctionOnSet(f, {a} \X I)
  PROVE  SumFunctionOnSet(f, A \X I) = SumFunctionOnSet(g, A)
<1> DEFINE holds == {B \in SUBSET A : SumFunctionOnSet(f, B \X I) = SumFunctionOnSet(g, B)}
<1>1. \A B \in SUBSET A : IsFiniteSet(B) /\ IsFiniteSet(B \X I)
  BY FS_Subset, FS_Product
<1>2. \A B \in SUBSET A : \A x \in B \X I : f[x] \in Int
  OBVIOUS
<1>3. \A a \in A : g[a] \in Int
  <2>1. ASSUME NEW a \in A PROVE g[a] \in Int
    <3>1. IsFiniteSet({a} \X I) /\ \A x \in {a} \X I : f[x] \in Int
      BY <1>1, <1>2
    <3>2. SumFunctionOnSet(f, {a} \X I) \in Int
      BY <3>1, SumIs
    <3> QED
      BY <3>2
  <2> QED
    BY <2>1
<1>4. {} \in holds /\ holds \in SUBSET (SUBSET A)
  <2>1. {} \X I = {}
    OBVIOUS
  <2>2. SumFunctionOnSet(f, {}) = 0
    <3>1. IsFiniteSet(A \X I)
      BY <1>1
    <3> QED
      BY <3>1, SumIs
  <2>3. SumFunctionOnSet(g, {}) = 0
    BY <1>3, SumIs
  <2> QED
    BY <2>1, <2>2, <2>3
<1>5. ASSUME NEW B \in SUBSET A, B # {}, \A b \in B : B \ {b} \in holds PROVE B \in holds
  <2>1. PICK b \in B : TRUE
    BY <1>5
  <2> DEFINE rest == B \ {b}
  <2>2. B \X I = ({b} \X I) \cup (rest \X I) /\ ({b} \X I) \cap (rest \X I) = {}
    BY <2>1
  <2>3. IsFiniteSet({b} \X I) /\ IsFiniteSet(rest \X I)
    BY <1>1, <2>1
  <2>4. SumFunctionOnSet(f, B \X I)
          = SumFunctionOnSet(f, {b} \X I) + SumFunctionOnSet(f, rest \X I)
    <3>1. \A x \in ({b} \X I) \cup (rest \X I) : f[x] \in Int
      BY <2>1
    <3> HIDE DEF rest
    <3>2. SumFunctionOnSet(f, ({b} \X I) \cup (rest \X I))
            = SumFunctionOnSet(f, {b} \X I) + SumFunctionOnSet(f, rest \X I)
      BY <2>2, <2>3, <3>1, SumOfUnion
    <3> QED
      BY <2>2, <3>2
  <2>5. SumFunctionOnSet(g, B) = g[b] + SumFunctionOnSet(g, rest)
    <3>1. IsFiniteSet(B) /\ \A a \in B : g[a] \in Int
      BY <1>1, <1>3
    <3> QED
      BY <2>1, <3>1, SumIs
  <2>6. SumFunctionOnSet(f, rest \X I) = SumFunctionOnSet(g, rest)
    BY <1>5, <2>1
  <2>7. SumFunctionOnSet(f, B \X I) = SumFunctionOnSet(g, B)
    <3> HIDE DEF rest
    <3> QED
      BY <2>4, <2>5, <2>6
  <2> QED
    BY <2>7
<1>6. holds = SUBSET A
  <2> HIDE DEF holds
  <2> QED
    BY <1>1, <1>4, <1>5, SubsetsByStep
<1> QED
  BY <1>6

\* Of finitely many things with a date, one is the earliest; and one is the latest.
LEMMA EarliestDated ==
  ASSUME NEW S, IsFiniteSet(S), S # {}, NEW f, \A x \in S : f[x] \in Int
  PROVE  \E x \in S : \A y \in S : f[x] <= f[y]
<1> DEFINE holds == {T \in SUBSET S : T # {} => \E x \in T : \A y \in T : f[x] <= f[y]}
<1>1. ASSUME NEW T \in SUBSET S, T # {}, \A x \in T : T \ {x} \in holds PROVE T \in holds
  <2>1. PICK z \in T : TRUE
    BY <1>1
  <2>2. CASE T \ {z} = {}
    <3>1. \A y \in T : y = z
      BY <2>2
    <3> QED
      BY <2>1, <3>1
  <2>3. CASE T \ {z} # {}
    <3>1. PICK x \in T \ {z} : \A y \in T \ {z} : f[x] <= f[y]
      BY <1>1, <2>1, <2>3
    <3>2. CASE f[x] <= f[z]
      <4>1. \A y \in T : f[x] <= f[y]
        BY <3>1, <3>2
      <4> QED
        BY <4>1
    <3>3. CASE f[z] < f[x]
      <4>1. \A y \in T : f[z] <= f[y]
        BY <3>1, <3>3
      <4> QED
        BY <2>1, <4>1
    <3> QED
      BY <3>2, <3>3
  <2> QED
    BY <2>2, <2>3
<1>2. {} \in holds /\ holds \in SUBSET (SUBSET S)
  OBVIOUS
<1>3. holds = SUBSET S
  <2> HIDE DEF holds
  <2> QED
    BY <1>1, <1>2, SubsetsByStep
<1> QED
  BY <1>3

LEMMA LatestDated ==
  ASSUME NEW S, IsFiniteSet(S), S # {}, NEW f, \A x \in S : f[x] \in Int
  PROVE  \E x \in S : \A y \in S : f[y] <= f[x]
<1> DEFINE g == [x \in S |-> -f[x]]
<1>1. \A x \in S : g[x] \in Int /\ g[x] = -f[x]
  OBVIOUS
<1> HIDE DEF g
<1>2. PICK x \in S : \A y \in S : g[x] <= g[y]
  BY <1>1, EarliestDated
<1>3. \A y \in S : f[y] <= f[x]
  BY <1>1, <1>2
<1> QED
  BY <1>3

\* The image of a finite set is no larger, and as large if the function is one to one.
LEMMA ImageSize ==
  ASSUME NEW S, IsFiniteSet(S), NEW f
  PROVE  /\ IsFiniteSet({f[x] : x \in S}) /\ Cardinality({f[x] : x \in S}) <= Cardinality(S)
         /\ (\A x, y \in S : f[x] = f[y] => x = y)
              => Cardinality({f[x] : x \in S}) = Cardinality(S)
<1> DEFINE T == {f[x] : x \in S}
           g == [x \in S |-> f[x]]
<1>1. g \in Surjection(S, T)
  BY DEF Surjection
<1>2. IsFiniteSet(T) /\ Cardinality(T) <= Cardinality(S)
      /\ (Cardinality(T) = Cardinality(S) <=> g \in Injection(S, T))
  <2> HIDE DEF T, g
  <2> QED
    BY <1>1, FS_Surjection
<1>3. (\A x, y \in S : f[x] = f[y] => x = y) => g \in Injection(S, T)
  BY DEF Injection, IsInjective
<1> QED
  BY <1>2, <1>3
=============================================================================

-------------------------------- MODULE Sums --------------------------------
(***************************************************************************)
(* Induction over numbers and finite sets, in the form of a set that is    *)
(* everything, and the sums of Functions over a finite domain.             *)
(***************************************************************************)
EXTENDS Integers, FiniteSets, Functions, FiniteSetsExt, FiniteSetTheorems, WellFoundedInduction, TLAPS

\* A set of numbers that is not empty has a smallest one.
LEMMA Smallest ==
    ASSUME NEW D \in SUBSET Nat, D # {}
    PROVE  \E m \in D : \A x \in D : m <= x
<1> DEFINE Below == {ss \in Nat \X Nat : ss[1] < ss[2]}
<1>1. IsWellFoundedOn(Below, Nat)
  BY NatLessThanWellFounded DEF OpToRel
<1>2. \A x, y \in Nat : <<x, y>> \in Below <=> x < y
  OBVIOUS
<1> HIDE DEF Below
<1>3. PICK m \in D : \A x \in D : <<x, m>> \notin Below
  BY <1>1, WFMin
<1>4. ASSUME NEW x \in D PROVE m <= x
  <2>1. x \in Nat /\ m \in Nat /\ ~(x < m)
    BY <1>2, <1>3
  <2> QED BY ONLY <2>1
<1> QED
  BY <1>4

\* A set of numbers that holds 0 and, with a number, the next one, holds them all.
LEMMA NatSetInduction ==
    ASSUME NEW G \in SUBSET Nat, 0 \in G, \A n \in G : n + 1 \in G
    PROVE  G = Nat
<1> SUFFICES ASSUME Nat \ G # {} PROVE FALSE
  OBVIOUS
<1>2. PICK x \in Nat \ G : \A y \in Nat \ G : x <= y
  BY Smallest
<1>3. x \in Nat \ {0} /\ x - 1 \in Nat
  BY <1>2
<1>4. ~(x <= x - 1)
  BY <1>3
<1>5. x - 1 \in G
  BY <1>2, <1>3, <1>4
<1>6. (x - 1) + 1 \in G
  BY <1>5
<1> QED
  BY <1>2, <1>3, <1>6

\* A family of subsets of a finite set that holds a set whenever it holds all that are smaller,
\* holds them all.
LEMMA SubsetInduction ==
    ASSUME NEW D, IsFiniteSet(D), NEW G \in SUBSET SUBSET D,
           \A S \in SUBSET D : (\A U \in SUBSET S : U # S => U \in G) => S \in G
    PROVE  G = SUBSET D
<1> SUFFICES ASSUME (SUBSET D) \ G # {} PROVE FALSE
  OBVIOUS
<1>1. IsWellFoundedOn(StrictSubsetOrdering(D), SUBSET D)
  <2>1. FiniteSubsetsOf(D) = SUBSET D
    BY FS_FiniteSubsetsOfFinite
  <2>2. IsWellFoundedOn(StrictSubsetOrdering(D), FiniteSubsetsOf(D))
    BY FS_StrictSubsetOrderingWellFounded
  <2> QED BY <2>1, <2>2
<1> DEFINE Bad == (SUBSET D) \ G
<1>2. PICK T \in Bad : \A U \in Bad : ~ (<<U, T>> \in StrictSubsetOrdering(D))
  <2>1. Bad \subseteq SUBSET D /\ Bad # {}
    OBVIOUS
  <2> HIDE DEF Bad
  <2> QED BY <1>1, <2>1, WFMin
<1>3. ASSUME NEW U \in SUBSET T, U # T PROVE U \in G
  <2>1. <<U, T>> \in StrictSubsetOrdering(D)
    BY <1>2, <1>3 DEF StrictSubsetOrdering
  <2> QED BY <1>2, <1>3, <2>1
<1> QED
  BY <1>2, <1>3

\* A finite set in a strict order of its elements has a last one.
LEMMA HasLast ==
    ASSUME NEW D, IsFiniteSet(D), D # {}, NEW R,
           \A x, y \in D : x = y \/ <<x, y>> \in R \/ <<y, x>> \in R,
           \A x, y, z \in D : <<x, y>> \in R /\ <<y, z>> \in R => <<x, z>> \in R
    PROVE  \E m \in D : \A x \in D : x = m \/ <<x, m>> \in R
<1> DEFINE Has(S) == \E m \in S : \A x \in S : x = m \/ <<x, m>> \in R
           G == {S \in SUBSET D : S = {} \/ Has(S)}
<1>1. ASSUME NEW S \in SUBSET D, \A U \in SUBSET S : U # S => U \in G PROVE S \in G
  <2>1. SUFFICES ASSUME NEW y \in S PROVE Has(S)
    OBVIOUS
  <2>2. S \ {y} \in G
    BY <1>1
  <2>3. CASE S \ {y} = {}
    <3>1. \A x \in S : x = y
      BY <2>3
    <3> QED BY <3>1
  <2>4. ASSUME NEW m \in S \ {y}, \A x \in S \ {y} : x = m \/ <<x, m>> \in R PROVE Has(S)
    <3>1. m \in D /\ y \in D
      OBVIOUS
    <3>2. CASE <<m, y>> \in R
      <4>1. \A x \in S : x = y \/ <<x, y>> \in R
        BY <2>4, <3>1, <3>2
      <4> QED BY <4>1
    <3>3. CASE <<y, m>> \in R
      <4>1. \A x \in S : x = m \/ <<x, m>> \in R
        BY <2>4, <3>3
      <4> QED BY <4>1
    <3> QED BY <3>1, <3>2, <3>3
  <2> QED BY <2>2, <2>3, <2>4
<1> HIDE DEF G
<1>2. G \in SUBSET SUBSET D
  BY DEF G
<1>3. G = SUBSET D
  BY <1>1, <1>2, SubsetInduction
<1> QED
  BY <1>3 DEF G

\* A finite set of numbers has a greatest one.
LEMMA Greatest ==
    ASSUME NEW D \in SUBSET Nat, IsFiniteSet(D), D # {}
    PROVE  \E m \in D : \A x \in D : x <= m
<1> DEFINE R == {p \in D \X D : p[1] < p[2]}
<1>1. \A x, y \in D : <<x, y>> \in R <=> x < y
  OBVIOUS
<1> HIDE DEF R
<1>2. \A x, y \in D : x = y \/ <<x, y>> \in R \/ <<y, x>> \in R
  <2>1. \A x, y \in D : x = y \/ x < y \/ y < x
    OBVIOUS
  <2> QED BY ONLY <1>1, <2>1
<1>3. \A x, y, z \in D : <<x, y>> \in R /\ <<y, z>> \in R => <<x, z>> \in R
  <2>1. \A x, y, z \in D : x < y /\ y < z => x < z
    OBVIOUS
  <2> QED BY ONLY <1>1, <2>1
<1>4. PICK m \in D : \A x \in D : x = m \/ <<x, m>> \in R
  BY <1>2, <1>3, HasLast
<1>5. ASSUME NEW x \in D PROVE x <= m
  <2>1. x \in Nat /\ m \in Nat
    OBVIOUS
  <2>2. CASE x = m
    BY <2>1, <2>2
  <2>3. CASE <<x, m>> \in R
    BY <1>1, <2>3
  <2> QED BY <1>4, <2>2, <2>3
<1> QED
  BY <1>5

-----------------------------------------------------------------------------
(* Sums.  The folds take the elements of a set in an order that only CHOOSE knows. *)

One(S) == CHOOSE x \in S : TRUE

\* What the sums F of f over the subsets of D satisfy.
AddsUp(F, f, D) ==
    F = [S \in SUBSET D |-> IF S = {} THEN 0 ELSE f[One(S)] + F[S \ {One(S)}]]

SumOf(f, D) == (CHOOSE F : AddsUp(F, f, D))[D]

\* The sum of a function over its domain, as FoldFunction writes it.
LEMMA FoldIsSum == \A f : FoldFunction(LAMBDA a, b : a + b, 0, f) = SumOf(f, DOMAIN f)
BY DEF FoldFunction, FoldFunctionOnSet, MapThenFoldSet, SumOf, AddsUp, One

\* The sum of what f gives over a set, as MapThenSumSet writes it.
LEMMA MapIsSum == \A f, S : MapThenSumSet(LAMBDA x : f[x], S) = SumOf(f, S)
BY DEF MapThenSumSet, MapThenFoldSet, SumOf, AddsUp, One

Ints(f, D) == \A x \in D : f[x] \in Int

\* The element taken first is one of the set's.
LEMMA OneIn == \A S : S # {} => One(S) \in S
BY DEF One

Upto(D, n) == {S \in SUBSET D : Cardinality(S) <= n}

\* There are such sums: those of sets up to a size give those of one element more.
LEMMA AddsUpExists ==
    ASSUME NEW D, IsFiniteSet(D), NEW f, Ints(f, D)
    PROVE  \E F : AddsUp(F, f, D)
<1> DEFINE Part(F, n) == \A S \in Upto(D, n) : F[S] = IF S = {} THEN 0 ELSE f[One(S)] + F[S \ {One(S)}]
           G == {n \in Nat : \E F \in [SUBSET D -> Int] : Part(F, n)}
<1>0. \A S \in SUBSET D : IsFiniteSet(S) /\ Cardinality(S) \in Nat /\ Cardinality(S) <= Cardinality(D)
  BY FS_Subset, FS_CardinalityType
<1>s. \A S \in SUBSET D : S # {} =>
          /\ One(S) \in S /\ f[One(S)] \in Int
          /\ S \ {One(S)} \in SUBSET D /\ Cardinality(S \ {One(S)}) = Cardinality(S) - 1
  BY <1>0, FS_RemoveElement, OneIn DEF Ints
<1>1. 0 \in G
  <2> DEFINE F == [S \in SUBSET D |-> 0]
  <2>1. \A S \in Upto(D, 0) : S = {}
    BY <1>0, FS_EmptySet DEF Upto
  <2>2. F \in [SUBSET D -> Int] /\ Part(F, 0)
    BY <2>1 DEF Upto
  <2> HIDE DEF F, Part
  <2> QED BY <2>2
<1>2. ASSUME NEW n \in G PROVE n + 1 \in G
  <2>1. PICK E \in [SUBSET D -> Int] : Part(E, n)
    BY <1>2
  <2> DEFINE F == [S \in SUBSET D |-> IF S = {} THEN 0
                     ELSE IF Cardinality(S) <= n THEN E[S] ELSE f[One(S)] + E[S \ {One(S)}]]
  <2>2. F \in [SUBSET D -> Int]
    <3>1. ASSUME NEW S \in SUBSET D, S # {} PROVE f[One(S)] + E[S \ {One(S)}] \in Int
      <4>1. S \ {One(S)} \in SUBSET D /\ f[One(S)] \in Int
        BY <1>s, <3>1
      <4>2. E[S \ {One(S)}] \in Int
        BY <4>1
      <4> QED BY <4>1, <4>2
    <3> QED BY <3>1
  <2>3. \A S \in Upto(D, n) : F[S] = E[S]
    BY <2>1 DEF Upto
  <2>4. ASSUME NEW S \in Upto(D, n + 1), S # {} PROVE F[S] = f[One(S)] + F[S \ {One(S)}]
    <3>1. S \ {One(S)} \in Upto(D, n)
      BY <1>0, <1>s, <2>4 DEF Upto
    <3>2. F[S \ {One(S)}] = E[S \ {One(S)}]
      BY <2>3, <3>1
    <3>3. CASE S \in Upto(D, n)
      <4>1. E[S] = f[One(S)] + E[S \ {One(S)}]
        BY <2>1, <2>4, <3>3
      <4> QED BY <2>3, <3>2, <3>3, <4>1
    <3>4. CASE S \notin Upto(D, n)
      BY <2>4, <3>2, <3>4 DEF Upto
    <3> QED BY <3>3, <3>4
  <2>5. Part(F, n + 1)
    BY <2>4 DEF Upto
  <2> HIDE DEF F, Part
  <2>6. n + 1 \in Nat
    BY <1>2
  <2> QED BY <2>2, <2>5, <2>6
<1>3. Cardinality(D) \in G
  <2> HIDE DEF G
  <2>1. G \in SUBSET Nat
    BY DEF G
  <2> QED BY <1>0, <1>1, <1>2, <2>1, NatSetInduction
<1>4. PICK F \in [SUBSET D -> Int] : Part(F, Cardinality(D))
  BY <1>3
<1>5. Upto(D, Cardinality(D)) = SUBSET D
  BY <1>0 DEF Upto
<1>6. F = [S \in SUBSET D |-> F[S]]
  OBVIOUS
<1> QED
  BY <1>4, <1>5 DEF AddsUp

\* Functions that agree on a domain have the same sums over its subsets, within any larger one.
LEMMA AddsUpTwice ==
    ASSUME NEW D, IsFiniteSet(D), NEW f, NEW g, \A x \in D : f[x] = g[x],
           NEW F, AddsUp(F, f, D), NEW C, D \subseteq C, NEW H, AddsUp(H, g, C)
    PROVE  \A S \in SUBSET D : F[S] = H[S]
<1> DEFINE G == {S \in SUBSET D : F[S] = H[S]}
<1>1. ASSUME NEW S \in SUBSET D, \A U \in SUBSET S : U # S => U \in G PROVE S \in G
  <2>1. CASE S = {}
    BY <2>1 DEF AddsUp
  <2>2. CASE S # {}
    <3>1. One(S) \in S /\ S \ {One(S)} \in SUBSET S /\ S \ {One(S)} # S
      BY <2>2, OneIn
    <3>2. S \in SUBSET C /\ S \ {One(S)} \in G /\ f[One(S)] = g[One(S)]
      BY <1>1, <3>1
    <3>3. F[S] = f[One(S)] + F[S \ {One(S)}]
      BY <2>2 DEF AddsUp
    <3>4. H[S] = g[One(S)] + H[S \ {One(S)}]
      BY <2>2, <3>2 DEF AddsUp
    <3> QED BY <3>2, <3>3, <3>4
  <2> QED BY <2>1, <2>2
<1> HIDE DEF G
<1>2. G \in SUBSET SUBSET D
  BY DEF G
<1>3. G = SUBSET D
  BY <1>1, <1>2, SubsetInduction
<1> QED
  BY <1>3 DEF G

\* The partial sums are the sums of the parts.
LEMMA SumParts ==
    ASSUME NEW D, IsFiniteSet(D), NEW f, Ints(f, D), NEW S \in SUBSET D
    PROVE  SumOf(f, S) = IF S = {} THEN 0 ELSE f[One(S)] + SumOf(f, S \ {One(S)})
<1>1. \A T \in SUBSET D : IsFiniteSet(T) /\ AddsUp(CHOOSE F : AddsUp(F, f, T), f, T)
  <2>1. ASSUME NEW T \in SUBSET D PROVE IsFiniteSet(T) /\ \E F : AddsUp(F, f, T)
    BY FS_Subset, AddsUpExists DEF Ints
  <2> QED BY <2>1
<1>2. PICK F : AddsUp(F, f, D)
  BY AddsUpExists
<1>3. ASSUME NEW T \in SUBSET D PROVE SumOf(f, T) = F[T]
  <2> DEFINE H == CHOOSE H : AddsUp(H, f, T)
  <2>1. AddsUp(H, f, T) /\ IsFiniteSet(T)
    BY <1>1
  <2>2. SumOf(f, T) = H[T]
    BY DEF SumOf
  <2> HIDE DEF H
  <2>3. H[T] = F[T]
    BY <1>2, <2>1, AddsUpTwice
  <2> QED BY <2>2, <2>3
<1>4. F[S] = IF S = {} THEN 0 ELSE f[One(S)] + F[S \ {One(S)}]
  BY <1>2 DEF AddsUp
<1> QED
  BY <1>3, <1>4

\* Nothing sums to zero.
LEMMA SumEmpty == \A f : SumOf(f, {}) = 0
<1> SUFFICES ASSUME NEW f PROVE SumOf(f, {}) = 0
  OBVIOUS
<1>1. IsFiniteSet({}) /\ Ints(f, {})
  BY FS_EmptySet DEF Ints
<1> QED BY <1>1, SumParts

\* A finite sum of integers is one.
LEMMA SumType ==
    ASSUME NEW D, IsFiniteSet(D), NEW f, Ints(f, D)
    PROVE  SumOf(f, D) \in Int
<1> DEFINE G == {S \in SUBSET D : SumOf(f, S) \in Int}
<1>1. ASSUME NEW S \in SUBSET D, \A U \in SUBSET S : U # S => U \in G PROVE S \in G
  <2>1. CASE S = {}
    BY <2>1, SumEmpty
  <2>2. CASE S # {}
    <3>1. One(S) \in S
      BY <2>2, OneIn
    <3>2. SumOf(f, S \ {One(S)}) \in Int /\ f[One(S)] \in Int
      BY <1>1, <3>1 DEF Ints
    <3>3. SumOf(f, S) = f[One(S)] + SumOf(f, S \ {One(S)})
      BY <2>2, SumParts
    <3> QED BY <3>2, <3>3
  <2> QED BY <2>1, <2>2
<1> HIDE DEF G
<1>2. G \in SUBSET SUBSET D
  BY DEF G
<1>3. G = SUBSET D
  BY <1>1, <1>2, SubsetInduction
<1> QED
  BY <1>3 DEF G

\* Any element may be taken out first.
LEMMA SumRemove ==
    ASSUME NEW D, IsFiniteSet(D), NEW f, Ints(f, D), NEW x \in D
    PROVE  SumOf(f, D) = f[x] + SumOf(f, D \ {x})
<1> DEFINE G == {S \in SUBSET D : \A y \in S : SumOf(f, S) = f[y] + SumOf(f, S \ {y})}
<1>0. \A S \in SUBSET D : SumOf(f, S) \in Int
  BY SumType, FS_Subset DEF Ints
<1>1. ASSUME NEW S \in SUBSET D, \A U \in SUBSET S : U # S => U \in G, NEW y \in S
      PROVE  SumOf(f, S) = f[y] + SumOf(f, S \ {y})
  <2> DEFINE z == One(S)
  <2>1. z \in S /\ f[y] \in Int /\ f[z] \in Int
    BY OneIn DEF Ints
  <2>2. SumOf(f, S) = f[z] + SumOf(f, S \ {z})
    BY SumParts
  <2> HIDE DEF z
  <2>3. CASE y = z
    BY <2>2, <2>3
  <2>4. CASE y # z
    <3>1. S \ {y} \in G /\ S \ {z} \in G
      BY <1>1, <2>1
    <3>2. SumOf(f, S \ {z}) = f[y] + SumOf(f, (S \ {z}) \ {y})
      BY <2>4, <3>1
    <3>3. SumOf(f, S \ {y}) = f[z] + SumOf(f, (S \ {y}) \ {z})
      BY <2>1, <2>4, <3>1
    <3>4. (S \ {z}) \ {y} = (S \ {y}) \ {z}
      OBVIOUS
    <3>5. SumOf(f, (S \ {y}) \ {z}) \in Int
      BY <1>0
    <3>6. SumOf(f, S) = f[z] + (f[y] + SumOf(f, (S \ {y}) \ {z}))
      BY <2>2, <3>2, <3>4
    <3>7. f[z] + (f[y] + SumOf(f, (S \ {y}) \ {z})) = f[y] + (f[z] + SumOf(f, (S \ {y}) \ {z}))
      BY <2>1, <3>5
    <3> QED BY <3>3, <3>6, <3>7
  <2> QED BY <2>3, <2>4
<1>2. ASSUME NEW S \in SUBSET D, \A U \in SUBSET S : U # S => U \in G PROVE S \in G
  BY <1>1, <1>2
<1> HIDE DEF G
<1>3. G \in SUBSET SUBSET D
  BY DEF G
<1>4. G = SUBSET D
  BY <1>2, <1>3, SubsetInduction
<1> QED
  BY <1>4 DEF G

\* Functions that agree on a set have one sum over it.
LEMMA SumSame ==
    ASSUME NEW D, IsFiniteSet(D), NEW f, Ints(f, D), NEW g, \A x \in D : g[x] = f[x]
    PROVE  SumOf(g, D) = SumOf(f, D)
<1> DEFINE F == CHOOSE F : AddsUp(F, f, D)
           H == CHOOSE H : AddsUp(H, g, D)
<1>1. Ints(g, D)
  BY DEF Ints
<1>2. AddsUp(F, f, D) /\ AddsUp(H, g, D)
  BY <1>1, AddsUpExists
<1>3. SumOf(f, D) = F[D] /\ SumOf(g, D) = H[D]
  BY DEF SumOf
<1> HIDE DEF F, H
<1>4. F[D] = H[D]
  BY <1>2, AddsUpTwice
<1> QED BY <1>3, <1>4

\* A change at one place changes the sum by as much.
LEMMA SumChange ==
    ASSUME NEW D, IsFiniteSet(D), NEW f, Ints(f, D), NEW g, NEW x \in D, g[x] \in Int,
           \A y \in D \ {x} : g[y] = f[y]
    PROVE  SumOf(g, D) = SumOf(f, D) + (g[x] - f[x])
<1>1. Ints(g, D) /\ Ints(f, D \ {x}) /\ IsFiniteSet(D \ {x}) /\ f[x] \in Int
  BY FS_RemoveElement DEF Ints
<1>2. SumOf(g, D \ {x}) = SumOf(f, D \ {x}) /\ SumOf(f, D \ {x}) \in Int
  BY <1>1, SumSame, SumType
<1>3. SumOf(f, D) = f[x] + SumOf(f, D \ {x}) /\ SumOf(g, D) = g[x] + SumOf(g, D \ {x})
  BY <1>1, SumRemove
<1> QED
  BY <1>1, <1>2, <1>3

\* Nothing but zeros comes to zero.
LEMMA SumZero ==
    ASSUME NEW D, IsFiniteSet(D), NEW f, \A x \in D : f[x] = 0
    PROVE  SumOf(f, D) = 0
<1> DEFINE G == {S \in SUBSET D : SumOf(f, S) = 0}
<1>1. ASSUME NEW S \in SUBSET D, \A U \in SUBSET S : U # S => U \in G PROVE S \in G
  <2>1. CASE S = {}
    BY <2>1, SumEmpty
  <2>2. CASE S # {}
    <3>1. One(S) \in S /\ Ints(f, D)
      BY <2>2, OneIn DEF Ints
    <3>2. SumOf(f, S \ {One(S)}) = 0 /\ f[One(S)] = 0
      BY <1>1, <3>1
    <3>3. SumOf(f, S) = f[One(S)] + SumOf(f, S \ {One(S)})
      BY <2>2, <3>1, SumParts
    <3> QED BY <3>2, <3>3
  <2> QED BY <2>1, <2>2
<1> HIDE DEF G
<1>2. G \in SUBSET SUBSET D
  BY DEF G
<1>3. G = SUBSET D
  BY <1>1, <1>2, SubsetInduction
<1> QED
  BY <1>3 DEF G
\* A sum of numbers up to b is at most b for each of them.
LEMMA SumBound ==
    ASSUME NEW D, IsFiniteSet(D), NEW b \in Nat, NEW f, \A x \in D : f[x] \in 0 .. b
    PROVE  SumOf(f, D) \in 0 .. b * Cardinality(D)
<1> DEFINE G == {S \in SUBSET D : SumOf(f, S) \in 0 .. b * Cardinality(S)}
<1>0. \A S \in SUBSET D : IsFiniteSet(S) /\ Cardinality(S) \in Nat
  BY FS_Subset, FS_CardinalityType
<1>1. ASSUME NEW S \in SUBSET D, \A U \in SUBSET S : U # S => U \in G PROVE S \in G
  <2>1. CASE S = {}
    <3>1. Cardinality(S) = 0 /\ SumOf(f, S) = 0
      BY <2>1, SumEmpty, FS_EmptySet
    <3> QED BY <3>1
  <2>2. CASE S # {}
    <3>1. One(S) \in S /\ Ints(f, D)
      BY <2>2, OneIn DEF Ints
    <3>2. SumOf(f, S \ {One(S)}) \in 0 .. b * Cardinality(S \ {One(S)}) /\ f[One(S)] \in 0 .. b
      BY <1>1, <3>1
    <3>3. SumOf(f, S) = f[One(S)] + SumOf(f, S \ {One(S)})
      BY <2>2, <3>1, SumParts
    <3>4. Cardinality(S \ {One(S)}) = Cardinality(S) - 1
      BY <1>0, <3>1, FS_RemoveElement
    <3>5. PICK n \in Nat : n = Cardinality(S)
      BY <1>0
    <3>6. PICK m : m = SumOf(f, S \ {One(S)})
      OBVIOUS
    <3>7. PICK y : y = f[One(S)]
      OBVIOUS
    <3>8. m \in 0 .. b * (n - 1) /\ y \in 0 .. b
      BY <3>2, <3>4, <3>5, <3>6, <3>7
    <3>9. y + m \in 0 .. b * n
      <4>1. b * (n - 1) = b * n - b
        OBVIOUS
      <4> QED BY <3>8, <4>1
    <3> QED BY <3>3, <3>5, <3>6, <3>7, <3>9
  <2> QED BY <2>1, <2>2
<1> HIDE DEF G
<1>2. G \in SUBSET SUBSET D
  BY DEF G
<1>3. G = SUBSET D
  BY <1>1, <1>2, SubsetInduction
<1> QED
  BY <1>3 DEF G
=============================================================================

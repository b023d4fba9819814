----------------------------- MODULE DataLemmas -----------------------------
(***************************************************************************)
(* Facts about data that need induction: the least of a set of naturals,   *)
(* sums over finite sets, and sequences of sequences put end to end.       *)
(*                                                                         *)
(* Induction is over a set in place of a predicate: what holds of 0 and,   *)
(* with n, of n + 1 is a set of naturals that has them all.  That is how a *)
(* recursive function is shown to exist, as the definitions of sums and of *)
(* FlattenSeq choose one.                                                  *)
(***************************************************************************)
EXTENDS Naturals, Sequences, FiniteSets, SequencesExt, FiniteSetTheorems,
        SequenceTheorems, WellFoundedInduction, TLAPS

-----------------------------------------------------------------------------
(* Induction.                                                              *)

\* A set of naturals has a least element.
LEMMA Least ==
  ASSUME NEW S \in SUBSET Nat, S # {}
  PROVE  \E d \in S : \A e \in S : d <= e
<1> DEFINE R == OpToRel(<, Nat)
<1>1. IsWellFoundedOn(R, Nat)
  BY NatLessThanWellFounded
<1>2. ASSUME NEW x \in Nat, NEW y \in Nat, x < y PROVE <<x, y>> \in R
  BY <1>2, Zenon DEF OpToRel
<1> HIDE DEF R
<1>3. PICK d \in S : \A e \in S : <<e, d>> \notin R
  BY <1>1, WFMin
<1>4. ASSUME NEW e \in S PROVE d <= e
  <2>1. ~(e < d)
    BY <1>2, <1>3
  <2> QED BY <2>1
<1> QED
  BY <1>4

\* A set of naturals with a bound has a greatest element.
LEMMA Greatest ==
  ASSUME NEW n \in Nat, NEW S \in SUBSET (1..n), S # {}
  PROVE  \E d \in S : \A e \in S : e <= d
<1> DEFINE T == {n - e : e \in S}
<1>0. \A e \in S : n - e \in Nat
  OBVIOUS
<1>1. T \in SUBSET Nat
  BY <1>0
<1>2. T # {}
  OBVIOUS
<1>3. PICK m \in T : \A k \in T : m <= k
  BY <1>1, <1>2, Least
<1>4. PICK d \in S : m = n - d
  BY <1>3
<1>5. ASSUME NEW e \in S PROVE e <= d
  <2>1. n - e \in T
    OBVIOUS
  <2>2. n - d <= n - e
    BY <1>3, <1>4, <2>1
  <2> QED BY <2>2
<1> QED
  BY <1>5

\* A set that has 0 and, with n, the next number has every number.
LEMMA SetInduction ==
  ASSUME NEW A, 0 \in A, \A n \in Nat : n \in A => n + 1 \in A
  PROVE  Nat \subseteq A
<1> DEFINE S == Nat \ A
<1> SUFFICES ASSUME S # {} PROVE FALSE
  OBVIOUS
<1>1. PICK n \in S : \A e \in S : n <= e
  BY Least
<1>2. n \in Nat /\ n # 0
  OBVIOUS
<1>3. n - 1 \in Nat /\ n - 1 \notin S /\ (n - 1) + 1 = n
  BY <1>1, <1>2
<1>4. n \in A
  BY <1>3
<1> QED
  BY <1>4

\* There are n naturals from 1 to n.
LEMMA FirstNaturals ==
  ASSUME NEW n \in Nat
  PROVE  IsFiniteSet(1..n) /\ Cardinality(1..n) = n
<1>1. /\ IsFiniteSet(1..n)
      /\ Cardinality(1..n) = IF 1 > n THEN 0 ELSE n - 1 + 1
  BY FS_Interval
<1>2. 1 > n => n = 0
  OBVIOUS
<1>3. n - 1 + 1 = n
  OBVIOUS
<1> QED
  BY <1>1, <1>2, <1>3

Some(s) == CHOOSE x \in s : TRUE

\* A set of n + 1 elements has one, and n without it.
LEMMA OneLess ==
  ASSUME NEW T, IsFiniteSet(T), NEW n \in Nat, Cardinality(T) = n + 1
  PROVE  /\ T # {} /\ Some(T) \in T
         /\ \A x \in T : IsFiniteSet(T \ {x}) /\ Cardinality(T \ {x}) = n
<1>1. T # {}
  BY FS_EmptySet
<1>2. Some(T) \in T
  BY <1>1 DEF Some
<1>3. ASSUME NEW x \in T PROVE IsFiniteSet(T \ {x}) /\ Cardinality(T \ {x}) = n
  BY FS_RemoveElement
<1> QED
  BY <1>1, <1>2, <1>3

\* A family that has the empty set and, with T, what T and one more element make,
\* has every subset of a finite set.
LEMMA FamilyInduction ==
  ASSUME NEW S, IsFiniteSet(S), NEW F, {} \in F,
         \A T \in SUBSET S : \A x \in S \ T : T \in F => T \cup {x} \in F
  PROVE  S \in F
<1> DEFINE A == {n \in Nat : \A T \in SUBSET S : Cardinality(T) = n => T \in F}
<1>1. \A T \in SUBSET S : IsFiniteSet(T) /\ Cardinality(T) \in Nat
  BY FS_Subset, FS_CardinalityType
<1>2. 0 \in A
  BY <1>1, FS_EmptySet
<1>3. ASSUME NEW n \in Nat, n \in A PROVE n + 1 \in A
  <2> SUFFICES ASSUME NEW T \in SUBSET S, Cardinality(T) = n + 1
               PROVE  T \in F
    OBVIOUS
  <2>0. IsFiniteSet(T)
    BY <1>1
  <2>1. PICK x \in T : Cardinality(T \ {x}) = n
    <3> HIDE DEF A
    <3> QED BY <2>0, OneLess
  <2>2. T \ {x} \in F /\ x \in S \ (T \ {x})
    BY <1>3, <2>1
  <2>3. (T \ {x}) \cup {x} = T
    OBVIOUS
  <2> HIDE DEF A
  <2>4. (T \ {x}) \cup {x} \in F
    BY <2>2
  <2> QED
    BY <2>3, <2>4
<1> HIDE DEF A
<1>4. Nat \subseteq A
  BY <1>2, <1>3, SetInduction
<1>5. Cardinality(S) \in A
  BY <1>1, <1>4
<1> QED
  BY <1>5 DEF A

-----------------------------------------------------------------------------
(* Sums.                                                                   *)

\* The equation that the sum over f is defined by, for the sets in family F.
Sums(g, f, F) ==
  g = [s \in F |-> IF s = {} THEN 0 ELSE f[Some(s)] + g[s \ {Some(s)}]]

\* The sum of the community module, as a function that satisfies Sums.
LEMMA SumDefined ==
  ASSUME NEW f, NEW S
  PROVE  SumFunctionOnSet(f, S) = (CHOOSE g : Sums(g, f, SUBSET S))[S]
BY DEF SumFunctionOnSet, FoldFunctionOnSet, MapThenFoldSet, Sums, Some

\* Such a function exists over a finite set.
LEMMA SumExists ==
  ASSUME NEW f, NEW S, IsFiniteSet(S)
  PROVE  \E g : Sums(g, f, SUBSET S)
<1> DEFINE L(n) == {s \in SUBSET S : Cardinality(s) <= n}
           A == {n \in Nat : \E g : Sums(g, f, L(n))}
<1>1. \A T \in SUBSET S : IsFiniteSet(T) /\ Cardinality(T) \in Nat /\ Cardinality(T) <= Cardinality(S)
  BY FS_Subset, FS_CardinalityType
<1>2. 0 \in A
  <2>1. \A s \in L(0) : s = {}
    BY <1>1, FS_EmptySet
  <2> DEFINE g == [s \in L(0) |-> 0]
  <2>2. Sums(g, f, L(0))
    BY <2>1 DEF Sums
  <2> QED
    BY <2>2
<1>3. ASSUME NEW n \in Nat, n \in A PROVE n + 1 \in A
  <2>1. PICK g : Sums(g, f, L(n))
    BY <1>3
  <2> DEFINE h == [s \in L(n + 1) |-> IF s = {} THEN 0 ELSE f[Some(s)] + g[s \ {Some(s)}]]
  <2>2. ASSUME NEW s \in L(n) PROVE s \in L(n + 1) /\ h[s] = g[s]
    <3>1. s \in L(n + 1)
      BY <1>1
    <3>2. g[s] = IF s = {} THEN 0 ELSE f[Some(s)] + g[s \ {Some(s)}]
      BY <2>1 DEF Sums
    <3> QED
      BY <3>1, <3>2
  <2>3. ASSUME NEW s \in L(n + 1), s # {} PROVE s \ {Some(s)} \in L(n)
    <3>1. Some(s) \in s
      BY <2>3 DEF Some
    <3>2. Cardinality(s \ {Some(s)}) = Cardinality(s) - 1
      BY <1>1, <3>1, FS_RemoveElement
    <3> QED
      BY <1>1, <3>2
  <2>4. Sums(h, f, L(n + 1))
    <3>1. \A s \in L(n + 1) : s # {} => h[s \ {Some(s)}] = g[s \ {Some(s)}]
      BY <2>2, <2>3
    <3> HIDE DEF L
    <3> QED
      BY <3>1 DEF Sums
  <2> HIDE DEF h, L
  <2> QED
    BY <2>4
<1>4. Cardinality(S) \in A
  <2> HIDE DEF A
  <2> QED
    BY <1>1, <1>2, <1>3, SetInduction
<1>5. L(Cardinality(S)) = SUBSET S
  BY <1>1
<1> QED
  BY <1>4, <1>5

\* Two functions that satisfy the equation agree where both are defined.
LEMMA SumUnique ==
  ASSUME NEW f, NEW g, NEW h, NEW F, NEW G, Sums(g, f, F), Sums(h, f, G),
         \A s \in G : s \in F /\ IsFiniteSet(s) /\ s \ {Some(s)} \in G
  PROVE  \A s \in G : g[s] = h[s]
<1> DEFINE A == {n \in Nat : \A s \in G : Cardinality(s) = n => g[s] = h[s]}
<1>1. \A s \in G : IsFiniteSet(s) /\ Cardinality(s) \in Nat
  BY FS_CardinalityType
<1>2. ASSUME NEW s \in G
      PROVE  /\ g[s] = IF s = {} THEN 0 ELSE f[Some(s)] + g[s \ {Some(s)}]
             /\ h[s] = IF s = {} THEN 0 ELSE f[Some(s)] + h[s \ {Some(s)}]
  BY DEF Sums
<1>3. 0 \in A
  BY <1>1, <1>2, FS_EmptySet
<1>4. ASSUME NEW n \in Nat, n \in A PROVE n + 1 \in A
  <2> SUFFICES ASSUME NEW s \in G, Cardinality(s) = n + 1
               PROVE  g[s] = h[s]
    OBVIOUS
  <2>0. IsFiniteSet(s)
    BY <1>1
  <2>1. s # {} /\ Some(s) \in s /\ Cardinality(s \ {Some(s)}) = n
    <3> HIDE DEF A
    <3> QED BY <2>0, OneLess
  <2>2. g[s \ {Some(s)}] = h[s \ {Some(s)}]
    BY <1>4, <2>1
  <2> QED
    BY <1>2, <2>1, <2>2
<1> HIDE DEF A
<1>5. Nat \subseteq A
  BY <1>3, <1>4, SetInduction
<1> QED
  BY <1>1, <1>5 DEF A

\* The empty sum.
LEMMA SumEmpty ==
  ASSUME NEW f
  PROVE  SumFunctionOnSet(f, {}) = 0
<1> DEFINE g == CHOOSE g : Sums(g, f, SUBSET {})
<1>1. Sums(g, f, SUBSET {})
  BY SumExists, FS_EmptySet
<1>2. g[{}] = 0
  BY <1>1 DEF Sums
<1> QED
  BY <1>2, SumDefined

\* A sum, less the element that its definition takes first.
LEMMA SumOfSome ==
  ASSUME NEW f, NEW S, IsFiniteSet(S), S # {}
  PROVE  SumFunctionOnSet(f, S) = f[Some(S)] + SumFunctionOnSet(f, S \ {Some(S)})
<1> DEFINE T == S \ {Some(S)}
           F == SUBSET S
           G == SUBSET T
           g == CHOOSE g : Sums(g, f, F)
           h == CHOOSE h : Sums(h, f, G)
<1>1. IsFiniteSet(T)
  BY FS_Subset
<1>2. Sums(g, f, F)
  BY SumExists
<1>3. Sums(h, f, G)
  BY <1>1, SumExists
<1>4. SumFunctionOnSet(f, S) = g[S] /\ SumFunctionOnSet(f, T) = h[T]
  BY SumDefined
<1>5. \A s \in G : s \in F /\ IsFiniteSet(s) /\ s \ {Some(s)} \in G
  BY <1>1, FS_Subset
<1>6. T \in G /\ S \in F
  OBVIOUS
<1>7. g[S] = f[Some(S)] + g[T]
  <2> HIDE DEF g
  <2> QED BY <1>2 DEF Sums
<1> HIDE DEF g, h, F, G, T
<1>8. \A s \in G : g[s] = h[s]
  BY <1>2, <1>3, <1>5, SumUnique
<1> QED
  BY <1>4, <1>6, <1>7, <1>8 DEF T

\* A sum of naturals is one.
LEMMA SumType ==
  ASSUME NEW f, NEW S, IsFiniteSet(S), \A x \in S : f[x] \in Nat
  PROVE  SumFunctionOnSet(f, S) \in Nat
<1> DEFINE A == {n \in Nat : \A T \in SUBSET S : Cardinality(T) = n => SumFunctionOnSet(f, T) \in Nat}
<1>1. \A T \in SUBSET S : IsFiniteSet(T) /\ Cardinality(T) \in Nat
  BY FS_Subset, FS_CardinalityType
<1>2. 0 \in A
  BY <1>1, FS_EmptySet, SumEmpty
<1>3. ASSUME NEW n \in Nat, n \in A PROVE n + 1 \in A
  <2> SUFFICES ASSUME NEW T \in SUBSET S, Cardinality(T) = n + 1
               PROVE  SumFunctionOnSet(f, T) \in Nat
    OBVIOUS
  <2>0. IsFiniteSet(T)
    BY <1>1
  <2>1. T # {} /\ Some(T) \in T /\ Cardinality(T \ {Some(T)}) = n
    <3> HIDE DEF A
    <3> QED BY <2>0, OneLess
  <2>2. SumFunctionOnSet(f, T \ {Some(T)}) \in Nat
    BY <1>3, <2>1
  <2>3. f[Some(T)] \in Nat
    BY <2>1
  <2> QED
    BY <2>0, <2>1, <2>2, <2>3, SumOfSome
<1> HIDE DEF A
<1>4. Nat \subseteq A
  BY <1>2, <1>3, SetInduction
<1> QED
  BY <1>1, <1>4 DEF A

\* The order in which a sum is made does not matter.
LEMMA SumRemove ==
  ASSUME NEW f, NEW S, IsFiniteSet(S), \A x \in S : f[x] \in Nat, NEW x \in S
  PROVE  SumFunctionOnSet(f, S) = f[x] + SumFunctionOnSet(f, S \ {x})
<1> DEFINE Sum(T) == SumFunctionOnSet(f, T)
           A == {n \in Nat : \A T \in SUBSET S : Cardinality(T) = n =>
                   \A y \in T : Sum(T) = f[y] + Sum(T \ {y})}
<1>1. \A T \in SUBSET S : /\ IsFiniteSet(T) /\ Cardinality(T) \in Nat
                          /\ \A y \in T : f[y] \in Nat
                          /\ Sum(T) \in Nat
  BY FS_Subset, FS_CardinalityType, SumType
<1>2. 0 \in A
  BY <1>1, FS_EmptySet
<1>3. ASSUME NEW n \in Nat, n \in A PROVE n + 1 \in A
  <2> SUFFICES ASSUME NEW T \in SUBSET S, Cardinality(T) = n + 1, NEW y \in T
               PROVE  Sum(T) = f[y] + Sum(T \ {y})
    OBVIOUS
  <2> DEFINE z == Some(T)
  <2>1. z \in T
    BY DEF Some
  <2>2. Sum(T) = f[z] + Sum(T \ {z})
    BY <1>1, SumOfSome
  <2> HIDE DEF z, Sum
  <2>3. CASE y = z
    BY <2>2, <2>3
  <2>4. CASE y # z
    <3>1. /\ Cardinality(T \ {z}) = n /\ T \ {z} \in SUBSET S /\ y \in T \ {z}
          /\ Cardinality(T \ {y}) = n /\ T \ {y} \in SUBSET S /\ z \in T \ {y}
      <4>1. IsFiniteSet(T) /\ Cardinality(T) = n + 1 /\ y \in T /\ z \in T
        BY <1>1, <2>1
      <4>2. Cardinality(T \ {z}) = n /\ Cardinality(T \ {y}) = n
        BY ONLY <4>1, n \in Nat, FS_RemoveElement
      <4> QED
        BY <2>4, <4>1, <4>2
    <3>2. Sum(T \ {z}) = f[y] + Sum((T \ {z}) \ {y})
      BY <1>3, <3>1
    <3>3. Sum(T \ {y}) = f[z] + Sum((T \ {y}) \ {z})
      BY <1>3, <3>1
    <3>4. (T \ {y}) \ {z} = (T \ {z}) \ {y} /\ (T \ {z}) \ {y} \in SUBSET S
      OBVIOUS
    <3>5. f[y] \in Nat /\ f[z] \in Nat /\ Sum((T \ {z}) \ {y}) \in Nat
      BY <1>1, <2>1, <3>4
    <3> QED
      BY <2>2, <3>2, <3>3, <3>4, <3>5
  <2> QED
    BY <2>3, <2>4
<1> HIDE DEF A
<1>4. Nat \subseteq A
  BY <1>2, <1>3, SetInduction
<1> QED
  BY <1>1, <1>4 DEF A

\* A sum with one more element.
LEMMA SumAdd ==
  ASSUME NEW f, NEW S, IsFiniteSet(S), NEW x, x \notin S, \A y \in S \cup {x} : f[y] \in Nat
  PROVE  SumFunctionOnSet(f, S \cup {x}) = f[x] + SumFunctionOnSet(f, S)
<1>1. IsFiniteSet(S \cup {x}) /\ (S \cup {x}) \ {x} = S
  BY FS_AddElement
<1> QED
  BY <1>1, SumRemove

\* Functions that agree on a set have the same sum over it.
LEMMA SumSame ==
  ASSUME NEW f, NEW g, NEW S, IsFiniteSet(S),
         \A x \in S : f[x] \in Nat /\ f[x] = g[x]
  PROVE  SumFunctionOnSet(f, S) = SumFunctionOnSet(g, S)
<1> DEFINE F == {T \in SUBSET S : SumFunctionOnSet(f, T) = SumFunctionOnSet(g, T)}
<1>1. {} \in F
  BY SumEmpty
<1>2. ASSUME NEW T \in SUBSET S, NEW x \in S \ T, T \in F PROVE T \cup {x} \in F
  <2>1. IsFiniteSet(T)
    BY FS_Subset
  <2>2. SumFunctionOnSet(f, T \cup {x}) = f[x] + SumFunctionOnSet(f, T)
    BY <2>1, SumAdd
  <2>3. SumFunctionOnSet(g, T \cup {x}) = g[x] + SumFunctionOnSet(g, T)
    BY <2>1, SumAdd
  <2> QED
    BY <1>2, <2>2, <2>3
<1> HIDE DEF F
<1>3. S \in F
  BY <1>1, <1>2, FamilyInduction
<1> QED
  BY <1>3 DEF F

\* The sum over two sets that have nothing in common.
LEMMA SumUnion ==
  ASSUME NEW f, NEW S, IsFiniteSet(S), NEW R, IsFiniteSet(R), S \cap R = {},
         \A x \in S \cup R : f[x] \in Nat
  PROVE  SumFunctionOnSet(f, S \cup R) = SumFunctionOnSet(f, S) + SumFunctionOnSet(f, R)
<1> DEFINE Sum(T) == SumFunctionOnSet(f, T)
           F == {T \in SUBSET S : Sum(T \cup R) = Sum(T) + Sum(R)}
<1>0. \A T \in SUBSET S : /\ IsFiniteSet(T) /\ IsFiniteSet(T \cup R)
                          /\ Sum(T) \in Nat
  BY FS_Subset, FS_Union, SumType
<1>1. {} \in F
  <2>1. Sum(R) \in Nat
    BY SumType
  <2>2. {} \cup R = R
    OBVIOUS
  <2> QED
    BY <2>1, <2>2, SumEmpty
<1>2. ASSUME NEW T \in SUBSET S, NEW x \in S \ T, T \in F PROVE T \cup {x} \in F
  <2>1. Sum(T \cup {x}) = f[x] + Sum(T)
    BY <1>0, SumAdd
  <2>2. Sum((T \cup R) \cup {x}) = f[x] + Sum(T \cup R)
    <3>1. IsFiniteSet(T \cup R) /\ x \notin T \cup R /\ \A y \in (T \cup R) \cup {x} : f[y] \in Nat
      BY <1>0
    <3> HIDE DEF Sum
    <3>2. SumFunctionOnSet(f, (T \cup R) \cup {x}) = f[x] + SumFunctionOnSet(f, T \cup R)
      BY <3>1, SumAdd
    <3> QED
      BY <3>2 DEF Sum
  <2>3. (T \cup {x}) \cup R = (T \cup R) \cup {x}
    OBVIOUS
  <2>4. f[x] \in Nat /\ Sum(T) \in Nat /\ Sum(R) \in Nat
    BY <1>0, SumType
  <2> HIDE DEF Sum
  <2>5. Sum(T \cup R) = Sum(T) + Sum(R)
    BY <1>2
  <2>6. Sum((T \cup {x}) \cup R) = f[x] + (Sum(T) + Sum(R))
    BY <2>2, <2>3, <2>5
  <2>7. f[x] + (Sum(T) + Sum(R)) = (f[x] + Sum(T)) + Sum(R)
    BY <2>4
  <2>8. Sum((T \cup {x}) \cup R) = Sum(T \cup {x}) + Sum(R)
    BY <2>1, <2>6, <2>7
  <2> QED
    BY <2>8
<1> HIDE DEF F
<1>3. S \in F
  BY <1>1, <1>2, FamilyInduction
<1> QED
  BY <1>3 DEF F

\* A part of a sum is no more than the whole.
LEMMA SumSubset ==
  ASSUME NEW f, NEW S, IsFiniteSet(S), NEW T \in SUBSET S, \A x \in S : f[x] \in Nat
  PROVE  SumFunctionOnSet(f, T) <= SumFunctionOnSet(f, S)
<1>1. IsFiniteSet(T) /\ IsFiniteSet(S \ T) /\ T \cup (S \ T) = S
  BY FS_Subset
<1>2. SumFunctionOnSet(f, T) \in Nat /\ SumFunctionOnSet(f, S \ T) \in Nat
  BY <1>1, SumType
<1> DEFINE R == S \ T
<1>3. T \cap R = {} /\ \A x \in T \cup R : f[x] \in Nat
  OBVIOUS
<1> HIDE DEF R
<1>4. SumFunctionOnSet(f, T \cup R) = SumFunctionOnSet(f, T) + SumFunctionOnSet(f, R)
  BY <1>1, <1>3, SumUnion DEF R
<1>5. T \cup R = S
  BY DEF R
<1>6. SumFunctionOnSet(f, R) \in Nat
  BY <1>2 DEF R
<1>7. SumFunctionOnSet(f, S) = SumFunctionOnSet(f, T) + SumFunctionOnSet(f, R)
  BY <1>4, <1>5
<1> QED
  BY <1>2, <1>6, <1>7

\* A sum of smaller numbers is no larger.
LEMMA SumAtMost ==
  ASSUME NEW f, NEW g, NEW S, IsFiniteSet(S),
         \A x \in S : f[x] \in Nat /\ g[x] \in Nat /\ f[x] <= g[x]
  PROVE  SumFunctionOnSet(f, S) <= SumFunctionOnSet(g, S)
<1> DEFINE F == {T \in SUBSET S : SumFunctionOnSet(f, T) <= SumFunctionOnSet(g, T)}
<1>1. {} \in F
  BY SumEmpty
<1>2. ASSUME NEW T \in SUBSET S, NEW x \in S \ T, T \in F PROVE T \cup {x} \in F
  <2>1. IsFiniteSet(T)
    BY FS_Subset
  <2>2. SumFunctionOnSet(f, T \cup {x}) = f[x] + SumFunctionOnSet(f, T)
    BY <2>1, SumAdd
  <2>3. SumFunctionOnSet(g, T \cup {x}) = g[x] + SumFunctionOnSet(g, T)
    BY <2>1, SumAdd
  <2>4. SumFunctionOnSet(f, T) \in Nat /\ SumFunctionOnSet(g, T) \in Nat
    BY <2>1, SumType
  <2> QED
    BY <1>2, <2>2, <2>3, <2>4
<1> HIDE DEF F
<1>3. S \in F
  BY <1>1, <1>2, FamilyInduction
<1> QED
  BY <1>3 DEF F

\* If one of them is less, so is the sum.
LEMMA SumLess ==
  ASSUME NEW f, NEW g, NEW S, IsFiniteSet(S),
         \A x \in S : f[x] \in Nat /\ g[x] \in Nat /\ f[x] <= g[x],
         NEW y \in S, f[y] < g[y]
  PROVE  SumFunctionOnSet(f, S) < SumFunctionOnSet(g, S)
<1> DEFINE R == S \ {y}
<1>1. IsFiniteSet(R) /\ \A x \in R : f[x] \in Nat /\ g[x] \in Nat /\ f[x] <= g[x]
  BY FS_Subset
<1>2. SumFunctionOnSet(f, S) = f[y] + SumFunctionOnSet(f, R)
  BY SumRemove
<1>3. SumFunctionOnSet(g, S) = g[y] + SumFunctionOnSet(g, R)
  BY SumRemove
<1> HIDE DEF R
<1>4. SumFunctionOnSet(f, R) <= SumFunctionOnSet(g, R)
  BY <1>1, SumAtMost
<1>5. SumFunctionOnSet(f, R) \in Nat /\ SumFunctionOnSet(g, R) \in Nat
  BY <1>1, SumType
<1> QED
  BY <1>2, <1>3, <1>4, <1>5

\* The sum of a constant.
LEMMA SumConstant ==
  ASSUME NEW f, NEW S, IsFiniteSet(S), NEW k \in Nat, \A x \in S : f[x] = k
  PROVE  SumFunctionOnSet(f, S) = k * Cardinality(S)
<1> DEFINE F == {T \in SUBSET S : SumFunctionOnSet(f, T) = k * Cardinality(T)}
<1>1. {} \in F
  BY SumEmpty, FS_EmptySet
<1>2. ASSUME NEW T \in SUBSET S, NEW x \in S \ T, T \in F PROVE T \cup {x} \in F
  <2>1. IsFiniteSet(T)
    BY FS_Subset
  <2>2. SumFunctionOnSet(f, T \cup {x}) = f[x] + SumFunctionOnSet(f, T)
    BY <2>1, SumAdd
  <2>3. Cardinality(T \cup {x}) = Cardinality(T) + 1 /\ Cardinality(T) \in Nat
    BY <2>1, FS_AddElement, FS_CardinalityType
  <2>4. \A n \in Nat : k * (n + 1) = k + k * n
    OBVIOUS
  <2> QED
    BY <1>2, <2>2, <2>3, <2>4
<1> HIDE DEF F
<1>3. S \in F
  BY <1>1, <1>2, FamilyInduction
<1> QED
  BY <1>3 DEF F

Class(S, p, y) == {x \in S : p[x] = y}

\* A sum can be made class by class: p[x] is the class of x, and g[y] the sum over
\* class y.
LEMMA SumByClass ==
  ASSUME NEW f, NEW S, IsFiniteSet(S), \A x \in S : f[x] \in Nat,
         NEW p, NEW R, IsFiniteSet(R), \A x \in S : p[x] \in R,
         NEW g, \A y \in R : g[y] = SumFunctionOnSet(f, Class(S, p, y))
  PROVE  SumFunctionOnSet(f, S) = SumFunctionOnSet(g, R)
<1> USE DEF Class
<1> DEFINE In(T) == {x \in S : p[x] \in T}
           F == {T \in SUBSET R : SumFunctionOnSet(f, In(T)) = SumFunctionOnSet(g, T)}
<1>1. {} \in F
  <2>1. In({}) = {}
    OBVIOUS
  <2> QED
    BY <2>1, SumEmpty
<1>2. ASSUME NEW T \in SUBSET R, NEW y \in R \ T, T \in F PROVE T \cup {y} \in F
  <2> DEFINE C == {x \in S : p[x] = y}
             I == In(T)
  <2>1. In(T \cup {y}) = I \cup C
    OBVIOUS
  <2>2. IsFiniteSet(I) /\ IsFiniteSet(C) /\ I \cap C = {} /\ \A x \in I \cup C : f[x] \in Nat
    BY FS_Subset
  <2>3. g[y] = SumFunctionOnSet(f, C)
    OBVIOUS
  <2>4. SumFunctionOnSet(f, I) = SumFunctionOnSet(g, T)
    BY <1>2
  <2>5. \A z \in T \cup {y} : g[z] \in Nat
    <3> SUFFICES ASSUME NEW z \in R PROVE g[z] \in Nat
      OBVIOUS
    <3> DEFINE Z == {x \in S : p[x] = z}
    <3>1. IsFiniteSet(Z) /\ \A x \in Z : f[x] \in Nat
      BY FS_Subset
    <3>2. g[z] = SumFunctionOnSet(f, Z)
      OBVIOUS
    <3> HIDE DEF Z
    <3> QED
      BY <3>1, <3>2, SumType
  <2>6. IsFiniteSet(T)
    BY FS_Subset
  <2> HIDE DEF C, I
  <2>7. SumFunctionOnSet(f, I \cup C) = SumFunctionOnSet(f, I) + SumFunctionOnSet(f, C)
    BY <2>2, SumUnion
  <2>8. SumFunctionOnSet(g, T \cup {y}) = g[y] + SumFunctionOnSet(g, T)
    BY <2>5, <2>6, SumAdd
  <2>9. SumFunctionOnSet(f, I) \in Nat /\ SumFunctionOnSet(f, C) \in Nat
    BY <2>2, SumType
  <2>10. SumFunctionOnSet(f, I \cup C) = SumFunctionOnSet(g, T \cup {y})
    BY <2>3, <2>4, <2>7, <2>8, <2>9
  <2> QED
    BY <2>1, <2>10
<1>3. In(R) = S
  OBVIOUS
<1> HIDE DEF F
<1>4. R \in F
  BY <1>1, <1>2, FamilyInduction
<1> QED
  BY <1>3, <1>4 DEF F

-----------------------------------------------------------------------------
(* Sequences put end to end.                                               *)

\* The equation that FlattenSeq(s) is defined by, for the first n sequences of s.
Flattens(g, s, n) == g = [i \in 1..n |-> IF i = 1 THEN s[i] ELSE g[i - 1] \o s[i]]

\* FlattenSeq, as a function that satisfies Flattens.
LEMMA FlattenDefined ==
  ASSUME NEW s
  PROVE  FlattenSeq(s) =
           IF Len(s) = 0 THEN s ELSE (CHOOSE g : Flattens(g, s, Len(s)))[Len(s)]
BY DEF FlattenSeq, Flattens

\* Such a function exists.
LEMMA FlattenExists ==
  ASSUME NEW s, NEW m \in Nat
  PROVE  \E g : Flattens(g, s, m)
<1> DEFINE A == {n \in Nat : \E g : Flattens(g, s, n)}
<1>1. 0 \in A
  <2> DEFINE g == [i \in 1..0 |-> 0]
  <2>1. Flattens(g, s, 0)
    BY DEF Flattens
  <2> QED
    BY <2>1
<1>2. ASSUME NEW n \in Nat, n \in A PROVE n + 1 \in A
  <2>1. PICK g : Flattens(g, s, n)
    BY <1>2
  <2> DEFINE h == [i \in 1..(n + 1) |-> IF i = 1 THEN s[i] ELSE g[i - 1] \o s[i]]
  <2>2. ASSUME NEW i \in 1..n PROVE h[i] = g[i]
    <3>1. g[i] = IF i = 1 THEN s[i] ELSE g[i - 1] \o s[i]
      BY <2>1 DEF Flattens
    <3>2. i \in 1..(n + 1)
      OBVIOUS
    <3> QED
      BY <3>1, <3>2
  <2>3. Flattens(h, s, n + 1)
    <3>1. \A i \in 1..(n + 1) : i # 1 => i - 1 \in 1..n
      OBVIOUS
    <3>2. \A i \in 1..(n + 1) : i # 1 => h[i - 1] = g[i - 1]
      BY <2>2, <3>1
    <3> QED
      BY <3>2 DEF Flattens
  <2> HIDE DEF h
  <2> QED
    BY <2>3
<1> HIDE DEF A
<1>3. m \in A
  BY <1>1, <1>2, SetInduction
<1> QED
  BY <1>3 DEF A

\* The places in the first n sequences of s.
Places(s, n) == {c \in (1..n) \X Nat : c[2] \in 1..Len(s[c[1]])}

\* b says where in s the elements of t come from, each place once.
Locates(b, t, s, n) ==
  /\ b \in [1..Len(t) -> Places(s, n)]
  /\ \A k, l \in 1..Len(t) : b[k] = b[l] => k = l
  /\ \A c \in Places(s, n) : \E k \in 1..Len(t) : b[k] = c
  /\ \A k \in 1..Len(t) : t[k] = s[b[k][1]][b[k][2]]

\* No sequences have no places.
LEMMA LocatesNone ==
  ASSUME NEW s
  PROVE  Locates([k \in 1..0 |-> 0], << >>, s, 0)
<1>1. Places(s, 0) = {}
  BY DEF Places
<1> QED
  BY <1>1 DEF Locates

\* One more sequence at the end.
LEMMA LocatesNext ==
  ASSUME NEW X, NEW s, NEW n \in Nat, s[n + 1] \in Seq(X),
         NEW t \in Seq(X), NEW b, Locates(b, t, s, n)
  PROVE  \E d : Locates(d, t \o s[n + 1], s, n + 1)
<1> DEFINE r == s[n + 1]
           u == t \o r
           d == [k \in 1..Len(u) |-> IF k <= Len(t) THEN b[k] ELSE <<n + 1, k - Len(t)>>]
<1>1. /\ u \in Seq(X) /\ Len(u) = Len(t) + Len(r) /\ Len(t) \in Nat /\ Len(r) \in Nat
      /\ \A k \in 1..Len(t) : u[k] = t[k]
      /\ \A k \in 1..Len(u) : k > Len(t) => u[k] = r[k - Len(t)]
  OBVIOUS
<1>2. \A k \in 1..Len(t) : /\ k \in 1..Len(u) /\ d[k] = b[k]
                           /\ b[k] \in Places(s, n) /\ b[k][1] \in 1..n
                           /\ b[k] \in Places(s, n + 1) /\ t[k] = s[b[k][1]][b[k][2]]
  BY <1>1 DEF Locates, Places
<1>3. \A k \in 1..Len(u) : k > Len(t) =>
        /\ k - Len(t) \in 1..Len(r) /\ d[k] = <<n + 1, k - Len(t)>>
        /\ <<n + 1, k - Len(t)>> \in Places(s, n + 1)
  BY <1>1 DEF Places
<1>4. d \in [1..Len(u) -> Places(s, n + 1)]
  <2>1. ASSUME NEW k \in 1..Len(u) PROVE d[k] \in Places(s, n + 1)
    <3> HIDE DEF d, u, r
    <3>1. CASE k <= Len(t)
      <4>1. k \in 1..Len(t)
        BY <1>1, <3>1
      <4> QED
        BY <1>2, <4>1
    <3>2. CASE k > Len(t)
      BY <1>3, <3>2
    <3> QED
      BY <1>1, <3>1, <3>2
  <2> QED
    BY <2>1
<1> HIDE DEF d
<1>5. ASSUME NEW k \in 1..Len(u), k > Len(t)
      PROVE  d[k][1] = n + 1 /\ d[k][2] = k - Len(t)
  <2> DEFINE i == n + 1
             j == k - Len(t)
  <2> HIDE DEF u, r
  <2>1. d[k] = <<i, j>>
    BY <1>3, <1>5
  <2> HIDE DEF i, j
  <2>2. d[k][1] = i /\ d[k][2] = j
    BY <2>1
  <2> QED
    BY <2>2 DEF i, j
<1>6. ASSUME NEW k \in 1..Len(u), NEW l \in 1..Len(u), d[k] = d[l] PROVE k = l
  <2>1. CASE k <= Len(t) /\ l <= Len(t)
    <3>1. k \in 1..Len(t) /\ l \in 1..Len(t)
      BY <1>1, <2>1
    <3>2. b[k] = b[l]
      BY <1>2, <1>6, <3>1
    <3> QED
      BY <3>1, <3>2 DEF Locates
  <2>2. CASE k > Len(t) /\ l > Len(t)
    <3>1. k - Len(t) = l - Len(t)
      BY <1>6, <1>5, <2>2
    <3> HIDE DEF u
    <3> QED
      BY <1>1, <3>1
  <2>3. ASSUME NEW i \in 1..Len(u), NEW j \in 1..Len(u), i <= Len(t), j > Len(t)
        PROVE  d[i] # d[j]
    <3>1. i \in 1..Len(t)
      BY <1>1, <2>3
    <3>2. d[i][1] \in 1..n
      BY <1>2, <3>1
    <3>3. d[j][1] = n + 1
      BY <1>5, <2>3
    <3> QED
      BY <3>2, <3>3
  <2> QED
    BY <1>1, <1>6, <2>1, <2>2, <2>3
<1>7. ASSUME NEW c \in Places(s, n + 1) PROVE \E k \in 1..Len(u) : d[k] = c
  <2>0. c = <<c[1], c[2]>> /\ c[1] \in 1..(n + 1) /\ c[2] \in Nat /\ c[2] \in 1..Len(s[c[1]])
    BY DEF Places
  <2>1. CASE c[1] = n + 1
    <3>1. c[2] \in 1..Len(r)
      BY <2>0, <2>1
    <3>2. Len(t) + c[2] \in 1..Len(u) /\ Len(t) + c[2] > Len(t) /\ (Len(t) + c[2]) - Len(t) = c[2]
      BY <1>1, <2>0, <3>1
    <3>3. d[Len(t) + c[2]] = <<n + 1, c[2]>>
      BY <1>3, <3>2
    <3> QED
      BY <2>0, <2>1, <3>2, <3>3
  <2>2. CASE c[1] # n + 1
    <3>1. c[1] \in 1..n
      BY <2>0, <2>2
    <3>2. c \in Places(s, n)
      BY <2>0, <3>1 DEF Places
    <3>3. PICK k \in 1..Len(t) : b[k] = c
      BY <3>2 DEF Locates
    <3> QED
      BY <1>2, <3>3
  <2> QED
    BY <2>1, <2>2
<1>8. ASSUME NEW k \in 1..Len(u) PROVE u[k] = s[d[k][1]][d[k][2]]
  <2>1. CASE k <= Len(t)
    BY <1>1, <1>2, <2>1
  <2>2. CASE k > Len(t)
    <3> HIDE DEF u
    <3> QED
      BY <1>1, <1>5, <2>2
  <2> QED
    BY <1>1, <2>1, <2>2
<1>9. Locates(d, u, s, n + 1)
  BY <1>4, <1>6, <1>7, <1>8 DEF Locates
<1> QED
  BY <1>9

\* FlattenSeq has every element of every sequence once.
LEMMA FlattenLocated ==
  ASSUME NEW X, NEW s \in Seq(Seq(X))
  PROVE  /\ FlattenSeq(s) \in Seq(X)
         /\ \E b : Locates(b, FlattenSeq(s), s, Len(s))
<1> DEFINE g == CHOOSE g : Flattens(g, s, Len(s))
<1>0. Len(s) \in Nat /\ \A i \in 1..Len(s) : s[i] \in Seq(X)
  OBVIOUS
<1>1. CASE Len(s) = 0
  <2>1. s = << >> /\ FlattenSeq(s) = << >>
    BY <1>1, FlattenDefined
  <2> DEFINE b == [k \in 1..0 |-> 0]
  <2>2. Locates(b, FlattenSeq(s), s, Len(s))
    BY <1>1, <2>1, LocatesNone
  <2>3. FlattenSeq(s) \in Seq(X)
    <3>1. << >> \in Seq(X)
      OBVIOUS
    <3> QED
      BY <2>1, <3>1, Zenon
  <2> HIDE DEF b, g
  <2> QED
    BY <2>2, <2>3
<1>2. CASE Len(s) # 0
  <2>1. Flattens(g, s, Len(s))
    BY <1>0, FlattenExists
  <2>2. FlattenSeq(s) = g[Len(s)]
    BY <1>2, FlattenDefined
  <2> HIDE DEF g
  <2>3. g[1] = s[1] /\ \A i \in 1..Len(s) : i # 1 => g[i] = g[i - 1] \o s[i]
    <3>1. ASSUME NEW i \in 1..Len(s)
          PROVE  g[i] = IF i = 1 THEN s[i] ELSE g[i - 1] \o s[i]
      BY <2>1 DEF Flattens
    <3>2. 1 \in 1..Len(s)
      BY <1>0, <1>2
    <3>3. g[1] = s[1]
      BY <3>1, <3>2
    <3>4. ASSUME NEW i \in 1..Len(s), i # 1 PROVE g[i] = g[i - 1] \o s[i]
      BY <3>1, <3>4
    <3> QED
      BY <3>3, <3>4
  <2> DEFINE A == {n \in Nat : n < Len(s) =>
                     g[n + 1] \in Seq(X) /\ \E b : Locates(b, g[n + 1], s, n + 1)}
  <2>4. 0 \in A
    <3>1. s[0 + 1] \in Seq(X) /\ << >> \in Seq(X) /\ << >> \o s[0 + 1] = s[1]
      BY <1>0, <1>2
    <3>2. \E d : Locates(d, << >> \o s[0 + 1], s, 0 + 1)
      BY <3>1, LocatesNone, LocatesNext
    <3> QED
      BY <2>3, <3>1, <3>2
  <2>5. ASSUME NEW n \in Nat, n \in A PROVE n + 1 \in A
    <3> SUFFICES ASSUME n + 1 < Len(s)
                 PROVE  /\ g[(n + 1) + 1] \in Seq(X)
                        /\ \E b : Locates(b, g[(n + 1) + 1], s, (n + 1) + 1)
      OBVIOUS
    <3>1. g[n + 1] \in Seq(X) /\ \E b : Locates(b, g[n + 1], s, n + 1)
      BY <1>0, <2>5
    <3>2. (n + 1) + 1 \in 1..Len(s) /\ (n + 1) + 1 # 1 /\ ((n + 1) + 1) - 1 = n + 1
      BY <1>0
    <3>3. g[(n + 1) + 1] = g[n + 1] \o s[(n + 1) + 1]
      BY <2>3, <3>2
    <3>4. s[(n + 1) + 1] \in Seq(X)
      BY <1>0, <3>2
    <3> HIDE DEF A
    <3>5. \E d : Locates(d, g[n + 1] \o s[(n + 1) + 1], s, (n + 1) + 1)
      BY <3>1, <3>4, LocatesNext
    <3> QED
      BY <3>1, <3>3, <3>4, <3>5
  <2> HIDE DEF A
  <2>6. Len(s) - 1 \in A
    <3>1. Nat \subseteq A
      BY <2>4, <2>5, SetInduction
    <3>2. Len(s) - 1 \in Nat
      BY <1>0, <1>2
    <3> QED
      BY <3>1, <3>2
  <2>7. Len(s) - 1 < Len(s) /\ (Len(s) - 1) + 1 = Len(s)
    BY <1>0
  <2> QED
    BY <2>2, <2>6, <2>7 DEF A
<1> QED
  BY <1>1, <1>2

=============================================================================

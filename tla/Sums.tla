-------------------------------- MODULE Sums --------------------------------
(***************************************************************************)
(* Sums of a column over a finite set of rows, as the _sum aggregates of   *)
(* the services compute them.  The models write them with MapThenSumSet;   *)
(* this module proves, for every set, the facts their invariants need: a   *)
(* row that is added or removed counts once, in whatever order the rows    *)
(* are taken, and rows that count nothing do not matter.                   *)
(***************************************************************************)
EXTENDS Naturals, FiniteSetsExt, FiniteSetTheorems, WellFoundedInduction, TLAPS

\* The sum of f[x] over the elements x of S.
SumOf(f, S) == MapThenSumSet(LAMBDA x : f[x], S)

First(s) == CHOOSE x \in s : TRUE

\* g[s] is the sum for every subset s of S: what the fold computes.
Adds(g, f, S) ==
  g = [s \in SUBSET S |->
         IF s = {} THEN 0 ELSE f[First(s)] + g[s \ {First(s)}]]

-----------------------------------------------------------------------------
(* Induction, with a set of good subsets or numbers for the predicate.     *)

LEMMA SmallestSubset ==
  ASSUME NEW S, IsFiniteSet(S), NEW Bad, Bad \subseteq SUBSET S, Bad # {}
  PROVE  \E T \in Bad : \A U \in Bad : <<U, T>> \notin StrictSubsetOrdering(S)
<1>1. IsWellFoundedOn(StrictSubsetOrdering(S), SUBSET S)
  BY FS_StrictSubsetOrderingWellFounded, FS_FiniteSubsetsOfFinite
<1> QED
  BY <1>1, WFMin, Zenon

\* A set of subsets of S that contains each subset whose strict subsets it
\* contains, contains S.
LEMMA SubsetInduction ==
  ASSUME NEW S, IsFiniteSet(S), NEW G,
         \A T \in SUBSET S : (\A U \in SUBSET T : U # T => U \in G) => T \in G
  PROVE  S \in G
<1> DEFINE Bad == {T \in SUBSET S : T \notin G}
<1>1. Bad # {} =>
        \E T \in Bad : \A U \in Bad : <<U, T>> \notin StrictSubsetOrdering(S)
  BY SmallestSubset
<1>2. ASSUME NEW T \in Bad, \A U \in Bad : <<U, T>> \notin StrictSubsetOrdering(S)
      PROVE  FALSE
  <2>1. \A U \in SUBSET T : U # T => U \in G
    BY <1>2 DEF StrictSubsetOrdering
  <2> QED
    BY <2>1
<1> QED
  BY <1>1, <1>2

\* A set of numbers that contains 0 and, with a number, the next one.
LEMMA NumberInduction ==
  ASSUME NEW G, 0 \in G, \A n \in Nat : n \in G => n + 1 \in G
  PROVE  Nat \subseteq G
<1> DEFINE Bad == Nat \ G
<1>1. Bad \subseteq Nat
  OBVIOUS
<1> HIDE DEF Bad
<1>2. Bad # {} => \E n \in Bad : \A m \in Bad : <<m, n>> \notin OpToRel(<, Nat)
  BY <1>1, NatLessThanWellFounded, WFMin, Zenon
<1> USE DEF Bad
<1>3. ASSUME NEW n \in Bad, \A m \in Bad : <<m, n>> \notin OpToRel(<, Nat)
      PROVE  FALSE
  <2>1. \A m \in Bad : ~(m < n)
    BY <1>3 DEF OpToRel
  <2>2. n # 0 /\ n - 1 \in Nat /\ n - 1 < n /\ n = (n - 1) + 1
    OBVIOUS
  <2> QED
    BY <2>1, <2>2
<1> QED
  BY <1>2, <1>3

LEMMA FirstIsIn ==
  ASSUME NEW s, s # {}
  PROVE  First(s) \in s
  BY DEF First

-----------------------------------------------------------------------------
(* The function of the fold exists, and there is one.                      *)

LEMMA AddsExists ==
  ASSUME NEW f, NEW S, IsFiniteSet(S)
  PROVE  \E g : Adds(g, f, S)
<1> DEFINE Small(n) == {s \in SUBSET S : Cardinality(s) <= n}
           Part(g, n) ==
             g = [s \in Small(n) |->
                    IF s = {} THEN 0 ELSE f[First(s)] + g[s \ {First(s)}]]
           G == {n \in Nat : \E g : Part(g, n)}
<1>1. \A s \in SUBSET S : IsFiniteSet(s) /\ Cardinality(s) \in Nat
  BY FS_Subset, FS_CardinalityType
<1>2. 0 \in G
  <2>1. Small(0) = {{}}
    BY <1>1, FS_EmptySet
  <2>2. Part([s \in {{}} |-> 0], 0)
    BY <2>1
  <2> QED
    BY <2>2
<1>3. ASSUME NEW n \in Nat, n \in G  PROVE n + 1 \in G
  <2>1. PICK g : Part(g, n)
    BY <1>3
  <2> DEFINE h == [s \in Small(n + 1) |->
                     IF s = {} THEN 0 ELSE f[First(s)] + g[s \ {First(s)}]]
  <2>2. ASSUME NEW s \in Small(n + 1), s # {}
        PROVE  s \ {First(s)} \in Small(n) /\ s \ {First(s)} \in Small(n + 1)
    <3>1. First(s) \in s
      BY <2>2, FirstIsIn
    <3>2. Cardinality(s \ {First(s)}) = Cardinality(s) - 1
      BY <1>1, <3>1, FS_RemoveElement
    <3>3. Cardinality(s) \in Nat /\ Cardinality(s) <= n + 1
          /\ Cardinality(s \ {First(s)}) \in Nat
      BY <1>1
    <3> QED
      BY <3>2, <3>3
  <2>3. \A s \in Small(n) : s \in Small(n + 1) /\ h[s] = g[s]
    <3>1. \A s \in Small(n) : s \in Small(n + 1)
      BY <1>1
    <3>2. \A s \in Small(n) :
            g[s] = IF s = {} THEN 0 ELSE f[First(s)] + g[s \ {First(s)}]
      BY <2>1
    <3> QED
      BY <3>1, <3>2
  <2>4. \A s \in Small(n + 1) : s # {} => h[s \ {First(s)}] = g[s \ {First(s)}]
    BY <2>2, <2>3
  <2>5. Part(h, n + 1)
    <3> DEFINE k == [s \in Small(n + 1) |->
                       IF s = {} THEN 0 ELSE f[First(s)] + h[s \ {First(s)}]]
    <3>1. \A s \in Small(n + 1) : h[s] = k[s]
      BY <2>4
    <3> QED
      BY <3>1
  <2> HIDE DEF Part
  <2> QED
    BY <2>5
<1> HIDE DEF G
<1>4. Cardinality(S) \in G
  BY <1>1, <1>2, <1>3, NumberInduction
<1>5. Small(Cardinality(S)) = SUBSET S
  BY <1>1, FS_Subset
<1>6. PICK g : Part(g, Cardinality(S))
  BY <1>4 DEF G
<1> QED
  BY <1>5, <1>6 DEF Adds

LEMMA AddsUnique ==
  ASSUME NEW f, NEW S, NEW T, IsFiniteSet(T), T \subseteq S,
         NEW g, Adds(g, f, S), NEW h, Adds(h, f, T)
  PROVE  g[T] = h[T]
<1> DEFINE G == {U \in SUBSET T : g[U] = h[U]}
<1>1. ASSUME NEW U \in SUBSET T, \A V \in SUBSET U : V # U => V \in G
      PROVE  U \in G
  <2>1. CASE U = {}
    BY <2>1 DEF Adds
  <2>2. CASE U # {}
    <3>1. First(U) \in U
      BY <2>2, FirstIsIn
    <3>2. U \ {First(U)} \in G
      BY <1>1, <3>1
    <3>3. /\ g[U] = f[First(U)] + g[U \ {First(U)}]
          /\ h[U] = f[First(U)] + h[U \ {First(U)}]
      BY <2>2 DEF Adds
    <3> QED
      BY <3>2, <3>3
  <2> QED
    BY <2>1, <2>2
<1> HIDE DEF G
<1>2. T \in G
  BY <1>1, SubsetInduction
<1> QED
  BY <1>2 DEF G

LEMMA SumIsFold ==
  ASSUME NEW f, NEW S, IsFiniteSet(S)
  PROVE  \E g : Adds(g, f, S) /\ SumOf(f, S) = g[S]
<1>1. Adds(CHOOSE g : Adds(g, f, S), f, S)
  BY AddsExists
<1>2. SumOf(f, S) = (CHOOSE g : Adds(g, f, S))[S]
  BY DEF SumOf, MapThenSumSet, MapThenFoldSet, Adds, First
<1> QED
  BY <1>1, <1>2

-----------------------------------------------------------------------------
(* The facts about sums.                                                   *)

LEMMA SumEmpty == \A f : SumOf(f, {}) = 0
<1> TAKE f
<1>1. PICK g : Adds(g, f, {}) /\ SumOf(f, {}) = g[{}]
  BY SumIsFold, FS_EmptySet
<1> QED
  BY <1>1 DEF Adds

LEMMA SumFirst ==
  ASSUME NEW f, NEW S, IsFiniteSet(S), S # {}
  PROVE  SumOf(f, S) = f[First(S)] + SumOf(f, S \ {First(S)})
<1> DEFINE T == S \ {First(S)}
<1>1. PICK g : Adds(g, f, S) /\ SumOf(f, S) = g[S]
  BY SumIsFold
<1>2. IsFiniteSet(T)
  BY FS_RemoveElement
<1>3. PICK h : Adds(h, f, T) /\ SumOf(f, T) = h[T]
  BY <1>2, SumIsFold
<1>4. g[S] = f[First(S)] + g[T]
  BY <1>1 DEF Adds
<1>5. g[T] = h[T]
  BY <1>1, <1>2, <1>3, AddsUnique
<1> QED
  BY <1>1, <1>3, <1>4, <1>5

\* A sum of natural numbers is one, and any element may be taken out first.
LEMMA SumTake ==
  ASSUME NEW f, NEW S, IsFiniteSet(S), \A x \in S : f[x] \in Nat
  PROVE  /\ SumOf(f, S) \in Nat
         /\ \A x \in S : SumOf(f, S) = f[x] + SumOf(f, S \ {x})
<1> DEFINE G == {T \in SUBSET S :
                   /\ SumOf(f, T) \in Nat
                   /\ \A x \in T : SumOf(f, T) = f[x] + SumOf(f, T \ {x})}
<1>1. ASSUME NEW T \in SUBSET S, \A U \in SUBSET T : U # T => U \in G
      PROVE  T \in G
  <2>1. CASE T = {}
    BY <2>1, SumEmpty
  <2>2. CASE T # {}
    <3> DEFINE a == First(T)
    <3>1. a \in T /\ f[a] \in Nat /\ T \ {a} \in G
      BY <1>1, <2>2, FirstIsIn
    <3>2. SumOf(f, T) = f[a] + SumOf(f, T \ {a})
      BY <2>2, FS_Subset, SumFirst
    <3>3. SumOf(f, T) \in Nat
      BY <3>1, <3>2
    <3>4. ASSUME NEW x \in T, x # a
          PROVE  SumOf(f, T) = f[x] + SumOf(f, T \ {x})
      <4>1. T \ {x} \in G /\ (T \ {x}) \ {a} \in G /\ f[x] \in Nat
        BY <1>1, <3>1
      <4>2. SumOf(f, T \ {a}) = f[x] + SumOf(f, (T \ {a}) \ {x})
        BY <3>1, <3>4
      <4>3. SumOf(f, T \ {x}) = f[a] + SumOf(f, (T \ {x}) \ {a})
        BY <3>1, <3>4, <4>1
      <4>4. (T \ {a}) \ {x} = (T \ {x}) \ {a}
        OBVIOUS
      <4> DEFINE rest == SumOf(f, (T \ {x}) \ {a})
      <4>5. rest \in Nat
        BY <4>1
      <4>6. SumOf(f, T) = f[a] + (f[x] + rest) /\ SumOf(f, T \ {x}) = f[a] + rest
        BY <3>2, <4>2, <4>3, <4>4
      <4> HIDE DEF rest, a
      <4> QED
        BY <3>1, <4>1, <4>5, <4>6
    <3> HIDE DEF a
    <3> QED
      BY <3>2, <3>3, <3>4
  <2> QED
    BY <2>1, <2>2
<1> HIDE DEF G
<1>2. S \in G
  BY <1>1, SubsetInduction
<1> QED
  BY <1>2 DEF G

\* An element that was not there counts once.
LEMMA SumAdd ==
  ASSUME NEW f, NEW S, IsFiniteSet(S), NEW x, x \notin S,
         \A y \in S \cup {x} : f[y] \in Nat
  PROVE  SumOf(f, S \cup {x}) = SumOf(f, S) + f[x]
<1>1. IsFiniteSet(S \cup {x})
  BY FS_AddElement
<1>2. SumOf(f, S \cup {x}) = f[x] + SumOf(f, (S \cup {x}) \ {x})
  BY <1>1, SumTake
<1>3. (S \cup {x}) \ {x} = S
  OBVIOUS
<1>4. SumOf(f, S) \in Nat /\ f[x] \in Nat
  BY SumTake
<1> QED
  BY <1>2, <1>3, <1>4

\* What becomes of the sum of a part of W when x joins or leaves it.
LEMMA SumMoves ==
  ASSUME NEW f, NEW W, IsFiniteSet(W), \A y \in W : f[y] \in Nat,
         NEW S, S \subseteq W, NEW x, x \in W
  PROVE  /\ f[x] \in Nat
         /\ SumOf(f, S) \in Nat
         /\ SumOf(f, S \cup {x}) \in Nat
         /\ SumOf(f, S \ {x}) \in Nat
         /\ x \in S => /\ SumOf(f, S \cup {x}) = SumOf(f, S)
                       /\ SumOf(f, S) = SumOf(f, S \ {x}) + f[x]
         /\ x \notin S => /\ SumOf(f, S \cup {x}) = SumOf(f, S) + f[x]
                          /\ SumOf(f, S) = SumOf(f, S \ {x})
<1>1. IsFiniteSet(S) /\ IsFiniteSet(S \ {x}) /\ IsFiniteSet(S \cup {x})
  BY FS_Subset
<1>2. /\ f[x] \in Nat /\ SumOf(f, S) \in Nat /\ SumOf(f, S \ {x}) \in Nat
      /\ SumOf(f, S \cup {x}) \in Nat
  BY <1>1, SumTake
<1>3. CASE x \in S
  <2>1. S \cup {x} = S
    BY <1>3
  <2>2. SumOf(f, S) = SumOf(f, S \ {x}) + f[x]
    <3> DEFINE b == SumOf(f, S \ {x})
    <3>1. SumOf(f, S) = f[x] + b
      BY <1>1, <1>3, SumTake
    <3>2. f[x] \in Nat /\ b \in Nat
      BY <1>2
    <3> HIDE DEF b
    <3>3. f[x] + b = b + f[x]
      BY <3>2
    <3> QED
      BY <3>1, <3>3 DEF b
  <2> QED
    BY <1>2, <1>3, <2>1, <2>2, Zenon
<1>4. CASE x \notin S
  <2>1. S \ {x} = S
    BY <1>4
  <2>2. SumOf(f, S \cup {x}) = SumOf(f, S) + f[x]
    BY <1>1, <1>4, SumAdd
  <2> QED
    BY <1>2, <1>4, <2>1, <2>2
<1> QED
  BY <1>3, <1>4

\* Columns that agree on the rows have the same sum.
LEMMA SumSame ==
  ASSUME NEW f, NEW h, NEW S, IsFiniteSet(S), \A x \in S : f[x] = h[x]
  PROVE  SumOf(f, S) = SumOf(h, S)
<1> DEFINE G == {T \in SUBSET S : SumOf(f, T) = SumOf(h, T)}
<1>1. ASSUME NEW T \in SUBSET S, \A U \in SUBSET T : U # T => U \in G
      PROVE  T \in G
  <2>1. CASE T = {}
    BY <2>1, SumEmpty
  <2>2. CASE T # {}
    <3>1. First(T) \in T
      BY <2>2, FirstIsIn
    <3>2. T \ {First(T)} \in G
      BY <1>1, <3>1
    <3>3. /\ SumOf(f, T) = f[First(T)] + SumOf(f, T \ {First(T)})
          /\ SumOf(h, T) = h[First(T)] + SumOf(h, T \ {First(T)})
      BY <2>2, FS_Subset, SumFirst
    <3> QED
      BY <3>1, <3>2, <3>3
  <2> QED
    BY <2>1, <2>2
<1> HIDE DEF G
<1>2. S \in G
  BY <1>1, SubsetInduction
<1> QED
  BY <1>2 DEF G

\* A set sums up to no more than one that contains it, and to as much if what it
\* lacks counts nothing.
LEMMA SumPart ==
  ASSUME NEW f, NEW S, IsFiniteSet(S), \A x \in S : f[x] \in Nat,
         NEW T \in SUBSET S
  PROVE  /\ SumOf(f, T) <= SumOf(f, S)
         /\ (\A x \in S \ T : f[x] = 0) => SumOf(f, T) = SumOf(f, S)
<1> DEFINE G == {D \in SUBSET (S \ T) :
                   /\ SumOf(f, T) <= SumOf(f, T \cup D)
                   /\ (\A x \in D : f[x] = 0) => SumOf(f, T) = SumOf(f, T \cup D)}
<1>1. \A U \in SUBSET S : IsFiniteSet(U) /\ SumOf(f, U) \in Nat
  BY FS_Subset, SumTake
<1>2. ASSUME NEW D \in SUBSET (S \ T), \A U \in SUBSET D : U # D => U \in G
      PROVE  D \in G
  <2>1. CASE D = {}
    <3>1. T \cup D = T
      BY <2>1
    <3> QED
      BY <1>1, <3>1
  <2>2. CASE D # {}
    <3> DEFINE a == First(D)
               E == D \ {a}
    <3>1. a \in D /\ E \in G /\ f[a] \in Nat
      BY <1>2, <2>2, FirstIsIn
    <3>2. T \cup D = (T \cup E) \cup {a} /\ a \notin T \cup E
      BY <3>1
    <3>3. SumOf(f, T \cup D) = SumOf(f, T \cup E) + f[a]
      BY <1>1, <3>1, <3>2, SumAdd
    <3>4. SumOf(f, T) \in Nat /\ SumOf(f, T \cup E) \in Nat
      BY <1>1
    <3> HIDE DEF a
    <3> QED
      BY <3>1, <3>3, <3>4
  <2> QED
    BY <2>1, <2>2
<1> HIDE DEF G
<1>3. IsFiniteSet(S \ T)
  BY FS_Subset
<1>4. S \ T \in G
  BY <1>2, <1>3, SubsetInduction
<1>5. T \cup (S \ T) = S
  OBVIOUS
<1> QED
  BY <1>4, <1>5 DEF G

\* As many values as there are rows, at most.
LEMMA FiniteImage ==
  ASSUME NEW f, NEW S, IsFiniteSet(S)
  PROVE  IsFiniteSet({f[x] : x \in S})
<1> DEFINE T == {f[x] : x \in S}
           h == [x \in S |-> f[x]]
<1>1. h \in Surjection(S, T)
  BY DEF Surjection
<1> QED
  BY <1>1, FS_Surjection

LEMMA SumOne ==
  ASSUME NEW f, NEW x, f[x] \in Nat
  PROVE  SumOf(f, {x}) = f[x]
<1>1. SumOf(f, {x}) = f[x] + SumOf(f, {x} \ {x})
  BY FS_Singleton, SumTake
<1>2. {x} \ {x} = {}
  OBVIOUS
<1> QED
  BY <1>1, <1>2, SumEmpty

\* MapThenSumSet over a column of quantities is the sum of that column.
LEMMA QuantitySum ==
  ASSUME NEW c, NEW D, NEW S \in SUBSET D, IsFiniteSet(S)
  PROVE  MapThenSumSet(LAMBDA x : c[x].quantity, S)
           = SumOf([x \in D |-> c[x].quantity], S)
<1> DEFINE f == [x \in D |-> c[x].quantity]
           Fold(g) == g = [s \in SUBSET S |->
             IF s = {} THEN 0 ELSE c[First(s)].quantity + g[s \ {First(s)}]]
<1>1. ASSUME NEW g  PROVE Fold(g) <=> Adds(g, f, S)
  <2>1. \A s \in SUBSET S : s # {} => f[First(s)] = c[First(s)].quantity
    BY FirstIsIn
  <2> QED
    BY <2>1 DEF Adds
<1>2. PICK g : Adds(g, f, S) /\ SumOf(f, S) = g[S]
  BY SumIsFold
<1>3. Fold(CHOOSE h : Fold(h))
  BY <1>1, <1>2
<1>4. MapThenSumSet(LAMBDA x : c[x].quantity, S) = (CHOOSE h : Fold(h))[S]
  BY DEF MapThenSumSet, MapThenFoldSet, First
<1>5. Adds(CHOOSE h : Fold(h), f, S)
  BY <1>1, <1>3
<1> HIDE DEF Fold
<1>6. g[S] = (CHOOSE h : Fold(h))[S]
  BY <1>2, <1>5, AddsUnique
<1> QED
  BY <1>2, <1>4, <1>6
=============================================================================

----------------------------- MODULE SumProofs -----------------------------
(***************************************************************************)
(* What SumFunction computes, for every function from a finite set to the  *)
(* integers.  The induction is over a set of sets: a family of subsets of  *)
(* a finite set that holds the empty set and is closed under adding one    *)
(* element holds them all (SubsetInduction).  The recursive function that  *)
(* SumFunction chooses exists (SumExists), is the only one (SumUnique)     *)
(* and may take out any element first (SumsTakeAny); from there on the     *)
(* proofs use SumEmpty, SumInt and SumRemove alone.                        *)
(***************************************************************************)
EXTENDS Integers, FiniteSetsExt, FiniteSetTheorems, TLAPS

\* Induction over the subsets of a finite set.
LEMMA SubsetInduction ==
    ASSUME NEW S, IsFiniteSet(S), NEW F \in SUBSET SUBSET S, {} \in F,
           \A T \in F : \A x \in S \ T : T \cup {x} \in F
    PROVE  \A T \in SUBSET S : T \in F
<1> DEFINE Bad == {T \in SUBSET S : T \notin F}
<1>1. SUFFICES ASSUME Bad # {} PROVE FALSE
    OBVIOUS
<1>2. Bad \subseteq FiniteSubsetsOf(S)
    BY FS_Subset DEF FiniteSubsetsOf
<1>3. PICK T \in Bad : \A U \in Bad : ~ (<<U, T>> \in StrictSubsetOrdering(S))
    BY <1>1, <1>2, FS_StrictSubsetOrderingWellFounded, WFMin
<1>4. PICK x : x \in T
    BY <1>3
<1>5. <<T \ {x}, T>> \in StrictSubsetOrdering(S)
    BY <1>3, <1>4 DEF StrictSubsetOrdering
<1>6. T \ {x} \in F /\ x \in S \ (T \ {x})
    BY <1>3, <1>4, <1>5
<1>7. (T \ {x}) \cup {x} = T
    BY <1>4
<1>8. QED
    BY <1>3, <1>6, <1>7

\* Induction over the size of the subsets.
LEMMA SizeInduction ==
    ASSUME NEW S, IsFiniteSet(S), NEW F \in SUBSET SUBSET S,
           \A T \in SUBSET S :
              (\A U \in SUBSET S : Cardinality(U) < Cardinality(T) => U \in F) => T \in F
    PROVE  \A T \in SUBSET S : T \in F
<1>1. \A T \in SUBSET S : IsFiniteSet(T) /\ Cardinality(T) \in Nat
    BY FS_Subset, FS_CardinalityType
<1> DEFINE G == {T \in SUBSET S : \A U \in SUBSET S : Cardinality(U) <= Cardinality(T) => U \in F}
<1>2. {} \in G
  <2> SUFFICES ASSUME NEW U \in SUBSET S, Cardinality(U) <= Cardinality({}) PROVE U \in F
    OBVIOUS
  <2>1. U = {}
    BY <1>1, FS_EmptySet
  <2>2. \A V \in SUBSET S : ~(Cardinality(V) < Cardinality(U))
    BY <1>1, <2>1, FS_EmptySet
  <2>3. QED
    BY <2>2
<1>3. ASSUME NEW T \in G, NEW x \in S \ T
      PROVE  T \cup {x} \in G
  <2>1. Cardinality(T \cup {x}) = Cardinality(T) + 1
    BY <1>1, FS_AddElement
  <2> SUFFICES ASSUME NEW U \in SUBSET S, Cardinality(U) <= Cardinality(T) + 1 PROVE U \in F
    BY <2>1
  <2>2. \A V \in SUBSET S : Cardinality(V) < Cardinality(U) => Cardinality(V) <= Cardinality(T)
    BY <1>1
  <2>3. \A V \in SUBSET S : Cardinality(V) < Cardinality(U) => V \in F
    BY <2>2
  <2>4. QED
    BY <2>3
<1> HIDE DEF G
<1>4. \A T \in SUBSET S : T \in G
  <2>1. G \in SUBSET SUBSET S
    BY DEF G
  <2>2. QED
    BY <1>2, <1>3, <2>1, SubsetInduction
<1>5. QED
    BY <1>1, <1>4 DEF G

-----------------------------------------------------------------------------
\* The function that SumFunction chooses

Pick(T) == CHOOSE x \in T : TRUE

\* g gives the sums of f over the subsets of S, element by element.
Sums(g, f, S) ==
    g = [T \in SUBSET S |-> IF T = {} THEN 0 ELSE f[Pick(T)] + g[T \ {Pick(T)}]]

\* Taking out the chosen element leaves a smaller subset.
LEMMA PickSmaller ==
    ASSUME NEW S, IsFiniteSet(S), NEW T \in SUBSET S, T # {}
    PROVE  /\ Pick(T) \in T
           /\ T \ {Pick(T)} \in SUBSET S
           /\ IsFiniteSet(T)
           /\ Cardinality(T) \in Nat
           /\ Cardinality(T \ {Pick(T)}) = Cardinality(T) - 1
<1>1. Pick(T) \in T
    BY DEF Pick
<1>2. IsFiniteSet(T)
    BY FS_Subset
<1>3. QED
    BY <1>1, <1>2, FS_RemoveElement, FS_CardinalityType

\* There is such a function.
LEMMA SumExists ==
    ASSUME NEW S, IsFiniteSet(S), NEW f \in [S -> Int]
    PROVE  \E g \in [SUBSET S -> Int] : Sums(g, f, S)
<1> DEFINE Eq(g, T) == g[T] = IF T = {} THEN 0 ELSE f[Pick(T)] + g[T \ {Pick(T)}]
           UpTo(g, n) == \A T \in SUBSET S : Cardinality(T) <= n => Eq(g, T)
           F == {T \in SUBSET S : \E g \in [SUBSET S -> Int] : UpTo(g, Cardinality(T))}
<1>1. \A T \in SUBSET S : IsFiniteSet(T) /\ Cardinality(T) \in Nat
    BY FS_Subset, FS_CardinalityType
<1>2. {} \in F
  <2> DEFINE g == [T \in SUBSET S |-> 0]
  <2>1. g \in [SUBSET S -> Int]
    OBVIOUS
  <2>2. ASSUME NEW T \in SUBSET S, Cardinality(T) <= Cardinality({}) PROVE Eq(g, T)
    <3>1. T = {}
      BY <1>1, <2>2, FS_EmptySet
    <3>2. QED
      BY <3>1
  <2>3. UpTo(g, Cardinality({}))
    BY <2>2
  <2>4. QED
    BY <2>1, <2>3
<1>3. ASSUME NEW T \in F, NEW x \in S \ T
      PROVE  T \cup {x} \in F
  <2> DEFINE n == Cardinality(T)
  <2>1. n \in Nat /\ Cardinality(T \cup {x}) = n + 1
    BY <1>1, FS_AddElement
  <2>2. PICK g \in [SUBSET S -> Int] : UpTo(g, n)
    OBVIOUS
  <2> HIDE DEF n
  <2> DEFINE h == [U \in SUBSET S |-> IF Cardinality(U) <= n THEN g[U]
                                      ELSE f[Pick(U)] + g[U \ {Pick(U)}]]
  <2>3. \A U \in SUBSET S : Cardinality(U) <= n => h[U] = g[U]
    OBVIOUS
  <2>4. h \in [SUBSET S -> Int]
    <3>1. ASSUME NEW U \in SUBSET S PROVE h[U] \in Int
      <4>1. CASE Cardinality(U) <= n
        BY <4>1
      <4>2. CASE ~(Cardinality(U) <= n)
        <5>1. U # {}
          <6>1. Cardinality({}) = 0 /\ 0 <= n
            BY <2>1, FS_EmptySet
          <6> HIDE DEF h
          <6>2. QED
            BY <4>2, <6>1
        <5>2. Pick(U) \in S /\ U \ {Pick(U)} \in SUBSET S
          BY <5>1, PickSmaller
        <5>3. f[Pick(U)] \in Int /\ g[U \ {Pick(U)}] \in Int
          BY <5>2
        <5>4. QED
          BY <4>2, <5>3
      <4>3. QED
        BY <4>1, <4>2
    <3>2. QED
      BY <3>1
  <2>5. ASSUME NEW U \in SUBSET S, Cardinality(U) <= n + 1 PROVE Eq(h, U)
    <3>1. CASE U = {}
      <4>1. Cardinality(U) <= n
        BY <2>1, <3>1, FS_EmptySet
      <4>2. Eq(g, U)
        BY <2>2, <4>1
      <4>3. QED
        BY <2>3, <3>1, <4>1, <4>2
    <3>2. CASE U # {}
      <4> DEFINE V == U \ {Pick(U)}
      <4>1. V \in SUBSET S /\ Cardinality(V) <= n
        BY <1>1, <2>1, <2>5, <3>2, PickSmaller
      <4>2. h[V] = g[V]
        BY <2>3, <4>1
      <4>3. h[U] = f[Pick(U)] + g[V]
        <5>1. CASE Cardinality(U) <= n
          <6>1. Eq(g, U)
            BY <2>2, <5>1
          <6>2. QED
            BY <2>3, <3>2, <5>1, <6>1
        <5>2. CASE ~(Cardinality(U) <= n)
          BY <5>2
        <5>3. QED
          BY <5>1, <5>2
      <4> HIDE DEF h
      <4>4. QED
        BY <3>2, <4>2, <4>3
    <3>3. QED
      BY <3>1, <3>2
  <2> HIDE DEF h
  <2>6. UpTo(h, Cardinality(T \cup {x}))
    BY <2>1, <2>5
  <2>7. QED
    BY <2>4, <2>6
<1>4. S \in F
  <2> HIDE DEF F
  <2>1. F \in SUBSET SUBSET S
    BY DEF F
  <2>2. QED
    BY <1>2, <1>3, <2>1, SubsetInduction
<1>5. PICK g \in [SUBSET S -> Int] : UpTo(g, Cardinality(S))
    BY <1>4
<1>6. \A T \in SUBSET S : Eq(g, T)
    BY <1>5, FS_Subset
<1>7. Sums(g, f, S)
    BY <1>6 DEF Sums
<1>8. QED
    BY <1>7

\* Functions that add up the same values agree.
LEMMA SumUnique ==
    ASSUME NEW R, NEW S \in SUBSET R, IsFiniteSet(S), NEW f, NEW e,
           \A x \in S : f[x] = e[x],
           NEW g, Sums(g, f, R), NEW h, Sums(h, e, S)
    PROVE  \A T \in SUBSET S : g[T] = h[T]
<1> DEFINE F == {T \in SUBSET S : g[T] = h[T]}
<1>1. ASSUME NEW T \in SUBSET S,
             \A U \in SUBSET S : Cardinality(U) < Cardinality(T) => U \in F
      PROVE  T \in F
  <2>1. CASE T = {}
    BY <2>1 DEF Sums
  <2>2. CASE T # {}
    <3> DEFINE V == T \ {Pick(T)}
    <3>1. Pick(T) \in S /\ V \in SUBSET S /\ Cardinality(V) < Cardinality(T)
      BY <2>2, PickSmaller
    <3>2. g[V] = h[V]
      BY <1>1, <3>1
    <3>3. g[T] = f[Pick(T)] + g[V] /\ h[T] = e[Pick(T)] + h[V]
      BY <2>2 DEF Sums
    <3>4. QED
      BY <3>1, <3>2, <3>3
  <2>3. QED
    BY <2>1, <2>2
<1>2. F \in SUBSET SUBSET S
    OBVIOUS
<1> HIDE DEF F
<1>3. \A T \in SUBSET S : T \in F
    BY <1>1, <1>2, SizeInduction
<1>4. QED
    BY <1>3 DEF F

\* Any element may be taken out first.
TakesAny(g, f, S) == \A T \in SUBSET S : \A x \in T : g[T] = f[x] + g[T \ {x}]

\* It does not matter which element is taken out first.
LEMMA SumsTakeAny ==
    ASSUME NEW S, IsFiniteSet(S), NEW f \in [S -> Int],
           NEW g \in [SUBSET S -> Int], Sums(g, f, S)
    PROVE  TakesAny(g, f, S)
<1> DEFINE F == {T \in SUBSET S : \A x \in T : g[T] = f[x] + g[T \ {x}]}
<1>0. \A U \in SUBSET S : U # {} => g[U] = f[Pick(U)] + g[U \ {Pick(U)}]
    BY DEF Sums
<1>1. ASSUME NEW T \in SUBSET S,
             \A U \in SUBSET S : Cardinality(U) < Cardinality(T) => U \in F
      PROVE  T \in F
  <2> SUFFICES ASSUME NEW x \in T PROVE g[T] = f[x] + g[T \ {x}]
    OBVIOUS
  <2> DEFINE c == Pick(T)
             V == T \ {c}
             W == T \ {x}
             X == (T \ {c}) \ {x}
  <2>1. /\ c \in T /\ V \in SUBSET S /\ IsFiniteSet(T) /\ Cardinality(T) \in Nat
        /\ Cardinality(V) = Cardinality(T) - 1
    BY PickSmaller
  <2>2. g[T] = f[c] + g[V]
    BY <1>0
  <2>3. CASE c = x
    BY <2>2, <2>3
  <2>4. CASE c # x
    <3>1. W \in SUBSET S /\ Cardinality(W) = Cardinality(T) - 1 /\ X = W \ {c} /\ X \in SUBSET S
      BY <2>1, FS_RemoveElement
    <3>2. V \in F /\ W \in F
      <4>1. Cardinality(V) < Cardinality(T) /\ Cardinality(W) < Cardinality(T)
        BY <2>1, <3>1
      <4> HIDE DEF F, V, W
      <4>2. QED
        BY <1>1, <2>1, <3>1, <4>1
    <3>3. x \in V /\ c \in W
      BY <2>1, <2>4
    <3>4. g[V] = f[x] + g[X]
      BY <3>2, <3>3
    <3>5. g[W] = f[c] + g[X]
      BY <3>1, <3>2, <3>3
    <3>6. f[x] \in Int /\ f[c] \in Int /\ g[X] \in Int
      BY <2>1, <3>1
    <3> HIDE DEF c, V, W, X
    <3>7. g[T] = f[x] + g[W]
      BY <2>2, <3>4, <3>5, <3>6
    <3>8. QED
      BY <3>7 DEF W
  <2>5. QED
    BY <2>3, <2>4
<1>2. F \in SUBSET SUBSET S
    OBVIOUS
<1> HIDE DEF F
<1>3. \A T \in SUBSET S : T \in F
    BY <1>1, <1>2, SizeInduction
<1>4. QED
    BY <1>3 DEF F, TakesAny

\* SumFunction chooses it.
LEMMA SumChosen ==
    ASSUME NEW S, NEW f, DOMAIN f = S, NEW h, Sums(h, f, S)
    PROVE  \E g : Sums(g, f, S) /\ SumFunction(f) = g[S]
<1> DEFINE g == CHOOSE k : Sums(k, f, S)
<1>1. Sums(g, f, S)
    OBVIOUS
<1>2. SumFunction(f) = g[S]
    BY DEF SumFunction, SumFunctionOnSet, FoldFunctionOnSet, MapThenFoldSet, Sums, Pick
<1>3. QED
    BY <1>1, <1>2

-----------------------------------------------------------------------------
\* What SumFunction computes

\* The sum over a subset, by the function for the whole set.
LEMMA SumOfPart ==
    ASSUME NEW S, IsFiniteSet(S), NEW f \in [S -> Int],
           NEW g \in [SUBSET S -> Int], Sums(g, f, S), NEW T \in SUBSET S
    PROVE  SumFunction(Restrict(f, T)) = g[T]
<1> DEFINE e == Restrict(f, T)
<1>1. IsFiniteSet(T)
    BY FS_Subset
<1>2. DOMAIN e = T /\ e \in [T -> Int] /\ \A x \in T : f[x] = e[x]
    BY DEF Restrict
<1> HIDE DEF e
<1>3. PICK k \in [SUBSET T -> Int] : Sums(k, e, T)
    BY <1>1, <1>2, SumExists
<1>4. PICK h : Sums(h, e, T) /\ SumFunction(e) = h[T]
    BY <1>2, <1>3, SumChosen
<1>5. g[T] = h[T]
    BY <1>1, <1>2, <1>4, SumUnique
<1>6. QED
    BY <1>4, <1>5 DEF e

\* The empty sum.
LEMMA SumEmpty ==
    ASSUME NEW f, DOMAIN f = {}
    PROVE  SumFunction(f) = 0
<1> DEFINE e == [x \in {} |-> 0]
<1>1. e \in [{} -> Int] /\ IsFiniteSet({})
    BY FS_EmptySet
<1>2. PICK k \in [SUBSET {} -> Int] : Sums(k, e, {})
    BY <1>1, SumExists
<1>3. k = [T \in SUBSET {} |-> IF T = {} THEN 0 ELSE f[Pick(T)] + k[T \ {Pick(T)}]]
    BY <1>2 DEF Sums
<1>4. Sums(k, f, {})
    BY <1>3 DEF Sums
<1>5. PICK g : Sums(g, f, {}) /\ SumFunction(f) = g[{}]
    BY <1>4, SumChosen
<1>6. QED
    BY <1>5 DEF Sums

\* What is left of a function.
LEMMA Restricted ==
    ASSUME NEW S, NEW f, NEW V, f \in [S -> V], NEW T \in SUBSET S
    PROVE  /\ Restrict(f, T) \in [T -> V]
           /\ DOMAIN Restrict(f, T) = T
           /\ \A x \in T : Restrict(f, T)[x] = f[x]
           /\ Restrict(f, S) = f
BY DEF Restrict

\* A sum is an integer.
LEMMA SumInt ==
    ASSUME NEW S, IsFiniteSet(S), NEW f \in [S -> Int]
    PROVE  SumFunction(f) \in Int
<1>1. PICK g \in [SUBSET S -> Int] : Sums(g, f, S)
    BY SumExists
<1>2. S \in SUBSET S
    OBVIOUS
<1>3. SumFunction(Restrict(f, S)) = g[S]
    BY <1>1, <1>2, SumOfPart
<1>4. Restrict(f, S) = f
    BY <1>2, Restricted
<1>5. QED
    BY <1>2, <1>3, <1>4

\* Any of its values may be taken out.
LEMMA SumRemove ==
    ASSUME NEW S, IsFiniteSet(S), NEW f \in [S -> Int], NEW x \in S
    PROVE  SumFunction(f) = f[x] + SumFunction(Restrict(f, S \ {x}))
<1>1. PICK g \in [SUBSET S -> Int] : Sums(g, f, S)
    BY SumExists
<1> DEFINE T == S \ {x}
<1>2. S \in SUBSET S /\ T \in SUBSET S /\ T = S \ {x}
    OBVIOUS
<1>2a. S \in SUBSET S
    OBVIOUS
<1>2b. T \in SUBSET S
    OBVIOUS
<1> HIDE DEF T
<1>3. g[S] = f[x] + g[T]
  <2>1. TakesAny(g, f, S)
    BY <1>1, SumsTakeAny
  <2>2. QED
    BY <1>2, <2>1 DEF TakesAny
<1>4. SumFunction(Restrict(f, S)) = g[S]
    BY <1>1, <1>2a, SumOfPart
<1>4b. SumFunction(Restrict(f, T)) = g[T]
    BY <1>1, <1>2b, SumOfPart
<1>5. Restrict(f, S) = f
    BY <1>2, Restricted
<1>6. QED
    BY <1>3, <1>4, <1>4b, <1>5 DEF T

\* Adding a value.
LEMMA SumAdd ==
    ASSUME NEW S, IsFiniteSet(S), NEW x, x \notin S, NEW f \in [S \cup {x} -> Int]
    PROVE  /\ SumFunction(Restrict(f, S)) \in Int
           /\ SumFunction(f) = f[x] + SumFunction(Restrict(f, S))
<1>1. IsFiniteSet(S \cup {x}) /\ x \in S \cup {x}
    BY FS_AddElement
<1>2. (S \cup {x}) \ {x} = S
    OBVIOUS
<1>3. Restrict(f, S) \in [S -> Int]
    BY Restricted
<1>4. SumFunction(f) = f[x] + SumFunction(Restrict(f, (S \cup {x}) \ {x}))
    BY <1>1, SumRemove
<1>5. QED
    BY <1>2, <1>3, <1>4, SumInt

\* A function that gets one more value.
LEMMA SumExtend ==
    ASSUME NEW S, IsFiniteSet(S), NEW x, x \notin S, NEW f \in [S -> Int],
           NEW g \in [S \cup {x} -> Int], \A y \in S : g[y] = f[y]
    PROVE  SumFunction(g) = SumFunction(f) + g[x]
<1>2. Restrict(g, S) = f
    BY DEF Restrict
<1>3. SumFunction(Restrict(g, S)) \in Int /\ SumFunction(g) = g[x] + SumFunction(Restrict(g, S))
    BY SumAdd
<1>4. QED
    BY <1>2, <1>3

\* The same, with what it asks for in one definition.
OneMore(f, g, S, x) ==
    /\ IsFiniteSet(S)
    /\ x \notin S
    /\ f \in [S -> Int]
    /\ g \in [S \cup {x} -> Int]
    /\ \A y \in S : g[y] = f[y]

LEMMA SumOneMore ==
    ASSUME NEW f, NEW g, NEW S, NEW x, OneMore(f, g, S, x)
    PROVE  SumFunction(g) = SumFunction(f) + g[x]
<1>1. IsFiniteSet(S)
    BY DEF OneMore
<1>2. x \notin S
    BY DEF OneMore
<1>3. f \in [S -> Int]
    BY DEF OneMore
<1>4. g \in [S \cup {x} -> Int]
    BY DEF OneMore
<1>5. \A y \in S : g[y] = f[y]
    BY DEF OneMore
<1>6. QED
    BY ONLY <1>1, <1>2, <1>3, <1>4, <1>5, SumExtend

\* The same for a sequence of numbers that grows by one.
LEMMA SumGrows ==
    ASSUME NEW n \in Nat, NEW f, f \in [1..n -> Int], NEW g, g \in [1..(n + 1) -> Int],
           \A i \in 1..n : g[i] = f[i]
    PROVE  SumFunction(g) = SumFunction(f) + g[n + 1]
<1>1. PICK S : S = 1..n
    OBVIOUS
<1>2. PICK x : x = n + 1
    OBVIOUS
<1>3. IsFiniteSet(S)
    BY <1>1, FS_Interval
<1>4. x \notin S
    BY <1>1, <1>2
<1>5. g \in [S \cup {x} -> Int]
  <2>1. 1..(n + 1) = (1..n) \cup {n + 1}
    OBVIOUS
  <2>2. QED
    BY <1>1, <1>2, <2>1
<1>6. f \in [S -> Int]
    BY <1>1
<1>7. \A i \in S : g[i] = f[i]
    BY <1>1
<1>8. SumFunction(g) = SumFunction(f) + g[x]
    BY ONLY <1>3, <1>4, <1>5, <1>6, <1>7, SumExtend
<1>9. QED
    BY <1>2, <1>8

\* Changing one value.
LEMMA SumChange ==
    ASSUME NEW S, IsFiniteSet(S), NEW f \in [S -> Int], NEW g \in [S -> Int], NEW x \in S,
           \A y \in S \ {x} : g[y] = f[y]
    PROVE  SumFunction(g) = SumFunction(f) - f[x] + g[x]
<1> DEFINE T == S \ {x}
<1>1. Restrict(g, T) = Restrict(f, T)
    BY DEF Restrict
<1>2. IsFiniteSet(T) /\ T \in SUBSET S
    BY FS_RemoveElement
<1>3. /\ SumFunction(f) = f[x] + SumFunction(Restrict(f, T))
      /\ SumFunction(g) = g[x] + SumFunction(Restrict(g, T))
    BY SumRemove
<1> HIDE DEF T
<1>4. SumFunction(Restrict(f, T)) \in Int
  <2>1. Restrict(f, T) \in [T -> Int]
    BY <1>2, Restricted
  <2>2. QED
    BY <1>2, <2>1, SumInt
<1>5. SumFunction(f) \in Int /\ SumFunction(g) \in Int /\ f[x] \in Int /\ g[x] \in Int
    BY SumInt
<1>6. QED
    BY <1>1, <1>3, <1>4, <1>5

\* A sum of naturals is a natural.
LEMMA SumNat ==
    ASSUME NEW S, IsFiniteSet(S), NEW f \in [S -> Nat]
    PROVE  SumFunction(f) \in Nat
<1> DEFINE F == {T \in SUBSET S : SumFunction(Restrict(f, T)) \in Nat}
<1>1. {} \in F
  <2>1. DOMAIN Restrict(f, {}) = {}
    BY Restricted
  <2>2. QED
    BY <2>1, SumEmpty
<1>2. ASSUME NEW T \in F, NEW x \in S \ T
      PROVE  T \cup {x} \in F
  <2> DEFINE U == T \cup {x}
             e == Restrict(f, U)
  <2>1. U \in SUBSET S /\ T \in SUBSET S /\ IsFiniteSet(T) /\ x \notin T
    BY FS_Subset
  <2>2. e \in [T \cup {x} -> Int] /\ e[x] \in Nat /\ Restrict(e, T) = Restrict(f, T)
    BY <2>1 DEF Restrict
  <2> HIDE DEF e
  <2>3. SumFunction(e) = e[x] + SumFunction(Restrict(e, T))
    BY <2>1, <2>2, SumAdd
  <2>4. SumFunction(e) \in Nat
    BY <2>2, <2>3
  <2>5. QED
    BY <2>1, <2>4 DEF e
<1>3. S \in F
  <2>1. F \in SUBSET SUBSET S /\ S \in SUBSET S
    OBVIOUS
  <2> HIDE DEF F
  <2>2. \A T \in F : \A x \in S \ T : T \cup {x} \in F
    BY <1>2
  <2>3. \A T \in SUBSET S : T \in F
    BY <1>1, <2>1, <2>2, SubsetInduction
  <2>4. QED
    BY <2>1, <2>3
<1>4. Restrict(f, S) = f
    BY DEF Restrict
<1>5. QED
    BY <1>3, <1>4

\* A sum of values that are at most b.
LEMMA SumBelow ==
    ASSUME NEW S, IsFiniteSet(S), NEW f \in [S -> Int], NEW b \in Nat, \A x \in S : f[x] <= b
    PROVE  SumFunction(f) <= Cardinality(S) * b
<1> DEFINE F == {T \in SUBSET S : SumFunction(Restrict(f, T)) <= Cardinality(T) * b}
<1>1. {} \in F
  <2>1. DOMAIN Restrict(f, {}) = {}
    BY Restricted
  <2>2. SumFunction(Restrict(f, {})) = 0 /\ Cardinality({}) = 0
    BY <2>1, SumEmpty, FS_EmptySet
  <2>3. QED
    BY <2>2
<1>2. ASSUME NEW T \in F, NEW x \in S \ T
      PROVE  T \cup {x} \in F
  <2> DEFINE U == T \cup {x}
             e == Restrict(f, U)
             c == Cardinality(T)
  <2>1. U \in SUBSET S /\ T \in SUBSET S /\ IsFiniteSet(T) /\ x \notin T
    BY FS_Subset
  <2>2. e \in [T \cup {x} -> Int] /\ e[x] = f[x] /\ Restrict(e, T) = Restrict(f, T)
    BY <2>1 DEF Restrict
  <2>3. c \in Nat /\ Cardinality(U) = c + 1
    BY <2>1, FS_AddElement, FS_CardinalityType
  <2>3b. SumFunction(Restrict(f, T)) <= c * b
    OBVIOUS
  <2> HIDE DEF e, c
  <2>4. SumFunction(e) = e[x] + SumFunction(Restrict(e, T)) /\ SumFunction(Restrict(e, T)) \in Int
    BY <2>1, <2>2, SumAdd
  <2>5. (c + 1) * b = c * b + b /\ c * b \in Int
    BY <2>3
  <2>6. e[x] \in Int /\ e[x] <= b
    BY <2>2
  <2> HIDE DEF F
  <2>7. SumFunction(e) <= Cardinality(U) * b
    BY <2>2, <2>3, <2>3b, <2>4, <2>5, <2>6
  <2>8. QED
    BY <2>1, <2>7 DEF e, F
<1>3. S \in F
  <2>1. F \in SUBSET SUBSET S /\ S \in SUBSET S
    OBVIOUS
  <2> HIDE DEF F
  <2>2. \A T \in F : \A x \in S \ T : T \cup {x} \in F
    BY <1>2
  <2>3. \A T \in SUBSET S : T \in F
    BY <1>1, <2>1, <2>2, SubsetInduction
  <2>4. QED
    BY <2>1, <2>3
<1>4. Restrict(f, S) = f
    BY DEF Restrict
<1>5. QED
    BY <1>3, <1>4

\* A sum of zeros is zero.
LEMMA SumZero ==
    ASSUME NEW S, IsFiniteSet(S), NEW f \in [S -> Int], \A x \in S : f[x] = 0
    PROVE  SumFunction(f) = 0
<1>1. f \in [S -> Nat]
    OBVIOUS
<1>2. SumFunction(f) \in Nat
    BY <1>1, SumNat
<1>3. SumFunction(f) <= Cardinality(S) * 0
    BY SumBelow
<1>4. Cardinality(S) \in Nat
    BY FS_CardinalityType
<1>5. QED
    BY <1>2, <1>3, <1>4

\* A sum of naturals below b over all elements but one.
LEMMA SumBelowButOne ==
    ASSUME NEW S, IsFiniteSet(S), NEW x \in S, NEW T \in SUBSET (S \ {x}),
           NEW f \in [T -> Int], NEW b \in Nat, \A y \in T : f[y] <= b
    PROVE  SumFunction(f) <= (Cardinality(S) - 1) * b
<1> DEFINE m == Cardinality(S) - 1
           n == Cardinality(T)
<1>1. IsFiniteSet(S \ {x}) /\ Cardinality(S \ {x}) = m
    BY FS_RemoveElement
<1>2. IsFiniteSet(T) /\ n <= m
    BY <1>1, FS_Subset
<1>3. n \in Nat /\ m \in Nat
    BY <1>1, <1>2, FS_CardinalityType
<1>4. SumFunction(f) <= n * b /\ SumFunction(f) \in Int
    BY <1>2, SumBelow, SumInt
<1> HIDE DEF m, n
<1>5. (m - n) * b >= 0 /\ (m - n) * b = m * b - n * b /\ m * b \in Int /\ n * b \in Int
    BY <1>2, <1>3
<1>6. SumFunction(f) <= m * b
    BY <1>4, <1>5
<1>7. QED
    BY <1>6 DEF m

\* An integer function on a finite set that is not empty has a largest value.
LEMMA LargestValue ==
    ASSUME NEW S, IsFiniteSet(S), S # {}, NEW f \in [S -> Int]
    PROVE  \E x \in S : \A y \in S : f[x] >= f[y]
<1> DEFINE Top(T) == \E x \in T : \A y \in T : f[x] >= f[y]
           F == {T \in SUBSET S : T = {} \/ Top(T)}
<1>1. {} \in F
    OBVIOUS
<1>2. ASSUME NEW T \in F, NEW z \in S \ T
      PROVE  T \cup {z} \in F
  <2>1. CASE T = {}
    BY <2>1
  <2>2. CASE Top(T)
    <3>1. PICK x \in T : \A y \in T : f[x] >= f[y]
      BY <2>2
    <3>2. CASE f[x] >= f[z]
      BY <3>1, <3>2
    <3>3. CASE f[z] >= f[x]
      <4>1. \A y \in T \cup {z} : f[z] >= f[y]
        BY <3>1, <3>3
      <4>2. QED
        BY <4>1
    <3>4. QED
      BY <3>2, <3>3
  <2>3. QED
    BY <2>1, <2>2
<1>3. F \in SUBSET SUBSET S /\ S \in SUBSET S
    OBVIOUS
<1>4. S \in F
  <2> HIDE DEF F
  <2>1. \A T \in F : \A x \in S \ T : T \cup {x} \in F
    BY <1>2
  <2>2. \A T \in SUBSET S : T \in F
    BY <1>1, <1>3, <2>1, SubsetInduction
  <2>3. QED
    BY <1>3, <2>2
<1>5. QED
    BY <1>4

\* A sum of positive numbers is positive, unless nothing is summed.
LEMMA SumPositive ==
    ASSUME NEW S, IsFiniteSet(S), S # {}, NEW f \in [S -> Nat], \A x \in S : f[x] > 0
    PROVE  SumFunction(f) > 0
<1>1. PICK x \in S : TRUE
    OBVIOUS
<1> DEFINE T == S \ {x}
<1>2. IsFiniteSet(T) /\ T \in SUBSET S
    BY FS_RemoveElement
<1>3. Restrict(f, T) \in [T -> Nat]
    BY <1>2 DEF Restrict
<1>4. SumFunction(Restrict(f, T)) \in Nat
    BY <1>2, <1>3, SumNat
<1>5. SumFunction(f) = f[x] + SumFunction(Restrict(f, S \ {x}))
  <2>1. f \in [S -> Int]
    OBVIOUS
  <2>2. QED
    BY <2>1, SumRemove
<1>6. f[x] \in Nat /\ f[x] > 0
    OBVIOUS
<1>7. QED
    BY <1>4, <1>5, <1>6

\* The elements of a finite set can be put in the order of distinct numbers.
LEMMA SortedExists ==
    ASSUME NEW S, IsFiniteSet(S), NEW v \in [S -> Int],
           \A x, y \in S : v[x] = v[y] => x = y
    PROVE  \E s \in [1..Cardinality(S) -> S] :
              \A i, j \in 1..Cardinality(S) : i < j => v[s[i]] < v[s[j]]
<1> DEFINE Sorted(T) == \E s \in [1..Cardinality(T) -> T] :
                           \A i, j \in 1..Cardinality(T) : i < j => v[s[i]] < v[s[j]]
           F == {T \in SUBSET S : Sorted(T)}
<1>1. ASSUME NEW T \in SUBSET S,
             \A U \in SUBSET S : Cardinality(U) < Cardinality(T) => U \in F
      PROVE  T \in F
  <2>1. CASE T = {}
    <3>1. Cardinality(T) = 0 /\ 1..0 = {}
      BY <2>1, FS_EmptySet
    <3>2. [i \in {} |-> i] \in [1..Cardinality(T) -> T]
      BY <3>1
    <3>3. QED
      BY <3>1, <3>2
  <2>2. CASE T # {}
    <3>1. IsFiniteSet(T) /\ Restrict(v, T) \in [T -> Int] /\ \A x \in T : Restrict(v, T)[x] = v[x]
      <4>1. IsFiniteSet(T)
        BY FS_Subset
      <4>2. QED
        BY <4>1 DEF Restrict
    <3>2. PICK x \in T : \A y \in T : Restrict(v, T)[x] >= Restrict(v, T)[y]
      BY <2>2, <3>1, LargestValue
    <3> DEFINE U == T \ {x}
               n == Cardinality(T)
    <3>3. U \in SUBSET S /\ Cardinality(U) = n - 1 /\ n \in Nat
      BY <3>1, FS_RemoveElement, FS_CardinalityType
    <3>3b. n - 1 \in Nat
      BY <3>1, <3>3, FS_RemoveElement, FS_CardinalityType
    <3>4. Sorted(U)
      <4>1. U \in SUBSET S /\ Cardinality(U) < Cardinality(T)
        BY <3>3, <3>3b
      <4> HIDE DEF U, Sorted
      <4>2. QED
        BY <1>1, <4>1
    <3>5. PICK s \in [1..(n - 1) -> U] : \A i, j \in 1..(n - 1) : i < j => v[s[i]] < v[s[j]]
      BY <3>3, <3>4
    <3> HIDE DEF n
    <3> DEFINE r == [i \in 1..n |-> IF i = n THEN x ELSE s[i]]
    <3>6. \A y \in U : v[y] < v[x]
      <4>1. \A y \in U : v[x] >= v[y] /\ v[x] # v[y] /\ v[x] \in Int /\ v[y] \in Int
        BY <3>1, <3>2
      <4>2. QED
        BY <4>1
    <3>7. \A i \in 1..n : i # n => i \in 1..(n - 1)
      BY <3>3, <3>3b
    <3>8. r \in [1..n -> T]
      BY <3>5, <3>7
    <3>9. ASSUME NEW i \in 1..n, NEW j \in 1..n, i < j
          PROVE  v[r[i]] < v[r[j]]
      <4>1. i # n /\ r[i] = s[i] /\ i \in 1..(n - 1)
        BY <3>3, <3>7, <3>9
      <4>2. CASE j = n
        BY <3>5, <3>6, <4>1, <4>2
      <4>3. CASE j # n
        <5>1. j \in 1..(n - 1) /\ r[j] = s[j]
          BY <3>7, <4>3
        <5>2. QED
          BY <3>5, <3>9, <4>1, <5>1
      <4>4. QED
        BY <4>2, <4>3
    <3> HIDE DEF r
    <3>10. Sorted(T)
      BY <3>8, <3>9 DEF n
    <3>11. QED
      BY <3>10
  <2>3. QED
    BY <2>1, <2>2
<1>2. F \in SUBSET SUBSET S /\ S \in SUBSET S
    OBVIOUS
<1>3. S \in F
  <2> HIDE DEF F
  <2>1. \A T \in SUBSET S : T \in F
    BY <1>1, <1>2, SizeInduction
  <2>2. QED
    BY <1>2, <2>1
<1>4. QED
    BY <1>3

\* The larger of two numbers.
LEMMA MaxOfTwo ==
    ASSUME NEW a \in Int, NEW b \in Int
    PROVE  Max({a, b}) \in {a, b} /\ Max({a, b}) >= a /\ Max({a, b}) >= b
<1>1. \E x \in {a, b} : \A y \in {a, b} : x >= y
  <2>1. CASE a >= b
    BY <2>1
  <2>2. CASE b >= a
    BY <2>2
  <2>3. QED
    BY <2>1, <2>2
<1>2. QED
    BY <1>1 DEF Max

\* Max is the number of the set that no other exceeds.
LEMMA MaxIsLargest ==
    ASSUME NEW S \in SUBSET Int, NEW x \in S, \A y \in S : x >= y
    PROVE  Max(S) = x
<1>1. Max(S) \in S /\ \A y \in S : Max(S) >= y
    BY DEF Max
<1>2. Max(S) >= x /\ x >= Max(S) /\ Max(S) \in Int /\ x \in Int
    BY <1>1
<1>3. QED
    BY <1>2
=============================================================================

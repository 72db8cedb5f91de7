----------------------------- MODULE SumTheorems -----------------------------
(***************************************************************************)
(* Sums over finite sets: SumFunction of the community modules adds one    *)
(* more value when its domain gets one more element, whatever the order in *)
(* which CHOOSE takes the elements.  Induction is over sets and numbers,   *)
(* not over predicates: a least counterexample is an element of a set.     *)
(***************************************************************************)
EXTENDS Integers, FiniteSets, Functions, FiniteSetTheorems, WellFoundedInduction, TLAPS

-----------------------------------------------------------------------------
(* Induction                                                               *)

LEMMA LeastNumber ==
  ASSUME NEW T \in SUBSET Nat, T # {}
  PROVE  \E n \in T : \A m \in T : n <= m
<1> DEFINE R == OpToRel(<, Nat)
<1>1. IsWellFoundedOn(R, Nat)
  BY NatLessThanWellFounded
<1>2. PICK n \in T : \A m \in T : <<m, n>> \notin R
  <2> HIDE DEF R
  <2> QED
    BY <1>1, WFMin, Zenon
<1>3. \A m \in T : ~(m < n)
  BY <1>2 DEF OpToRel
<1> HIDE DEF R
<1> QED
  BY <1>3

LEMMA Induction ==
  ASSUME NEW T, 0 \in T, \A n \in Nat : n \in T => n + 1 \in T
  PROVE  \A n \in Nat : n \in T
<1> DEFINE C == {n \in Nat : n \notin T}
<1> SUFFICES ASSUME C # {} PROVE FALSE
  OBVIOUS
<1>1. PICK n \in C : \A m \in C : n <= m
  BY LeastNumber
<1>2. n \in Nat /\ n # 0 /\ n - 1 \in Nat /\ n - 1 \in T
  BY <1>1
<1> QED
  BY <1>1, <1>2

(* What holds of a set as soon as it holds of the smaller ones.            *)
LEMMA SubsetInduction ==
  ASSUME NEW S, IsFiniteSet(S), NEW G,
         \A T \in SUBSET S :
            (\A U \in SUBSET T : U # T => U \in G) => T \in G
  PROVE  \A T \in SUBSET S : T \in G
<1> DEFINE N == {n \in Nat : \A T \in SUBSET S : Cardinality(T) <= n => T \in G}
<1>1. \A T \in SUBSET S : IsFiniteSet(T) /\ Cardinality(T) \in Nat
  BY FS_Subset, FS_CardinalityType
<1>2. \A T \in SUBSET S : \A U \in SUBSET T : U # T => Cardinality(U) < Cardinality(T)
  <2> TAKE T \in SUBSET S
  <2> TAKE U \in SUBSET T
  <2> HAVE U # T
  <2>1. IsFiniteSet(T) /\ IsFiniteSet(U) /\ Cardinality(T) \in Nat /\ Cardinality(U) \in Nat
    BY <1>1
  <2>2. Cardinality(U) <= Cardinality(T) /\ (Cardinality(U) = Cardinality(T) => U = T)
    BY <2>1, FS_Subset
  <2> QED
    BY <2>1, <2>2
<1>3. 0 \in N
  BY <1>1, <1>2
<1>4. \A n \in Nat : n \in N => n + 1 \in N
  <2> SUFFICES ASSUME NEW n \in Nat, n \in N, NEW T \in SUBSET S, Cardinality(T) <= n + 1
               PROVE  T \in G
    OBVIOUS
  <2>1. \A U \in SUBSET T : U # T => Cardinality(U) <= n
    BY <1>1, <1>2
  <2> QED
    BY <2>1
<1>5. \A n \in Nat : n \in N
  <2> HIDE DEF N
  <2> QED
    BY <1>3, <1>4, Induction
<1> QED
  BY <1>1, <1>5

-----------------------------------------------------------------------------
(* SumFunction                                                             *)

First(T) == CHOOSE x \in T : TRUE

(* h is the function that the definition of SumFunction recurs to.         *)
Sums(f, S, h) ==
    h = [T \in SUBSET S |-> IF T = {} THEN 0 ELSE f[First(T)] + h[T \ {First(T)}]]

LEMMA SumIsSums ==
  ASSUME NEW f
  PROVE  SumFunction(f) = (CHOOSE h : Sums(f, DOMAIN f, h))[DOMAIN f]
BY Zenon DEF SumFunction, SumFunctionOnSet, FoldFunctionOnSet, MapThenFoldSet, Sums, First

(* Such a function exists: the sums of the sets of n + 1 elements are made *)
(* from those of the sets of n.                                            *)
LEMMA SumsExist ==
  ASSUME NEW S, IsFiniteSet(S), NEW f
  PROVE  \E h : Sums(f, S, h)
<1> DEFINE Step(h, T) == IF T = {} THEN 0 ELSE f[First(T)] + h[T \ {First(T)}]
           Upto(n, h) == \A T \in SUBSET S : Cardinality(T) <= n => h[T] = Step(h, T)
           N == {n \in Nat : \E h : Upto(n, h)}
<1>1. \A T \in SUBSET S :
        /\ Cardinality(T) \in Nat /\ (Cardinality(T) = 0 => T = {})
        /\ T # {} => /\ First(T) \in T /\ T \ {First(T)} \in SUBSET S
                     /\ Cardinality(T \ {First(T)}) = Cardinality(T) - 1
  <2> TAKE T \in SUBSET S
  <2>1. IsFiniteSet(T) /\ Cardinality(T) \in Nat /\ (Cardinality(T) = 0 => T = {})
    BY FS_Subset, FS_CardinalityType, FS_EmptySet
  <2>2. T # {} => First(T) \in T
    BY DEF First
  <2> QED
    BY <2>1, <2>2, FS_RemoveElement
<1>2. 0 \in N
  <2> DEFINE h == [T \in SUBSET S |-> 0]
  <2>1. ASSUME NEW T \in SUBSET S, Cardinality(T) <= 0 PROVE T = {}
    <3>1. Cardinality(T) \in Nat /\ (Cardinality(T) = 0 => T = {})
      BY <1>1
    <3> QED
      BY <2>1, <3>1
  <2>2. Upto(0, h)
    BY <2>1
  <2> QED
    BY <2>2
<1>3. ASSUME NEW n \in Nat, n \in N PROVE n + 1 \in N
  <2>1. PICK h : Upto(n, h)
    BY <1>3
  <2> DEFINE g == [T \in SUBSET S |-> Step(h, T)]
  <2>2. ASSUME NEW T \in SUBSET S, Cardinality(T) <= n + 1, T # {}
        PROVE  g[T] = Step(g, T)
    <3> DEFINE U == T \ {First(T)}
    <3>1. U \in SUBSET S /\ Cardinality(U) <= n
      BY <1>1, <2>2
    <3>2. g[U] = Step(h, U) /\ h[U] = Step(h, U)
      BY <2>1, <3>1
    <3>3. g[T] = f[First(T)] + h[U]
      BY <2>2
    <3> QED
      BY <2>2, <3>2, <3>3
  <2>3. Upto(n + 1, g)
    BY <2>2
  <2> HIDE DEF Upto, g
  <2> QED
    BY <2>3
<1>4. \A n \in Nat : n \in N
  <2> HIDE DEF N
  <2> QED
    BY <1>2, <1>3, Induction
<1>5. PICK h : Upto(Cardinality(S), h)
  BY <1>4, FS_CardinalityType
<1>6. \A T \in SUBSET S : h[T] = Step(h, T)
  BY <1>5, FS_Subset
<1> DEFINE g == [T \in SUBSET S |-> h[T]]
<1>7. g = [T \in SUBSET S |-> Step(g, T)]
  BY <1>6
<1> QED
  BY <1>7 DEF Sums

(* It is determined by the values of f that it adds.                       *)
LEMMA SumsAgree ==
  ASSUME NEW S, IsFiniteSet(S), NEW f, NEW h, Sums(f, S, h),
         NEW R, S \subseteq R, NEW g, NEW k, Sums(g, R, k),
         \A x \in S : g[x] = f[x]
  PROVE  \A T \in SUBSET S : k[T] = h[T]
<1> DEFINE G == {T \in SUBSET S : k[T] = h[T]}
<1>1. ASSUME NEW T \in SUBSET S, \A U \in SUBSET T : U # T => U \in G
      PROVE  T \in G
  <2>1. CASE T = {}
    BY <2>1 DEF Sums
  <2>2. CASE T # {}
    <3>1. First(T) \in T
      BY <2>2 DEF First
    <3>2. k[T \ {First(T)}] = h[T \ {First(T)}]
      BY <1>1, <3>1
    <3>3. h[T] = f[First(T)] + h[T \ {First(T)}] /\ k[T] = g[First(T)] + k[T \ {First(T)}]
      BY <2>2 DEF Sums
    <3> QED
      BY <3>1, <3>2, <3>3
  <2> QED
    BY <2>1, <2>2
<1>2. \A T \in SUBSET S : T \in G
  <2> HIDE DEF G
  <2> QED
    BY <1>1, SubsetInduction
<1> QED
  BY <1>2

(* Any element may be added last.                                          *)
LEMMA SumsOrder ==
  ASSUME NEW S, IsFiniteSet(S), NEW f \in [S -> Nat], NEW h, Sums(f, S, h)
  PROVE  \A T \in SUBSET S : h[T] \in Nat /\ \A y \in T : h[T] = f[y] + h[T \ {y}]
<1> DEFINE G == {T \in SUBSET S : h[T] \in Nat /\ \A y \in T : h[T] = f[y] + h[T \ {y}]}
<1>1. ASSUME NEW T \in SUBSET S, \A U \in SUBSET T : U # T => U \in G
      PROVE  T \in G
  <2>1. CASE T = {}
    BY <2>1 DEF Sums
  <2>2. CASE T # {}
    <3> DEFINE x == First(T)
    <3>1. x \in T /\ h[T] = f[x] + h[T \ {x}] /\ f[x] \in Nat
      BY <2>2 DEF Sums, First
    <3>2. T \ {x} \in G
      BY <1>1, <3>1
    <3>3. ASSUME NEW y \in T, y # x PROVE h[T] = f[y] + h[T \ {y}]
      <4> DEFINE U == (T \ {x}) \ {y}
      <4>1. T \ {y} \in G /\ U \in G /\ U = (T \ {y}) \ {x}
        BY <1>1, <3>1, <3>3
      <4>2. h[T \ {x}] = f[y] + h[U] /\ h[T \ {y}] = f[x] + h[U]
        BY <3>1, <3>2, <3>3, <4>1
      <4>3. f[y] \in Nat /\ h[U] \in Nat
        BY <4>1
      <4> HIDE DEF U, x
      <4> QED
        BY <3>1, <4>2, <4>3
    <3>4. h[T] \in Nat
      BY <3>1, <3>2
    <3> HIDE DEF x
    <3> QED
      BY <3>1, <3>3, <3>4
  <2> QED
    BY <2>1, <2>2
<1>2. \A T \in SUBSET S : T \in G
  <2> HIDE DEF G
  <2> QED
    BY <1>1, SubsetInduction
<1> QED
  BY <1>2

(* The sum of a function without arguments.                                *)
LEMMA SumNothing ==
  ASSUME NEW f, DOMAIN f = {}
  PROVE  SumFunction(f) = 0
<1>1. Sums(f, {}, CHOOSE h : Sums(f, {}, h))
  BY SumsExist, FS_EmptySet
<1>2. SumFunction(f) = (CHOOSE h : Sums(f, {}, h))[{}]
  BY SumIsSums
<1> HIDE DEF Sums
<1>3. PICK h : Sums(f, {}, h) /\ SumFunction(f) = h[{}]
  BY <1>1, <1>2
<1> QED
  BY <1>3 DEF Sums

(* One more argument, one more value.                                      *)
LEMMA SumOneMore ==
  ASSUME NEW S, IsFiniteSet(S), NEW y, y \notin S,
         NEW f \in [S -> Nat], NEW g \in [S \union {y} -> Nat], \A x \in S : g[x] = f[x]
  PROVE  SumFunction(g) = SumFunction(f) + g[y]
<1> DEFINE R == S \union {y}
<1>1. IsFiniteSet(R) /\ g \in [R -> Nat] /\ y \in R /\ R \in SUBSET R
  BY FS_AddElement
<1>2. PICK h : Sums(f, S, h) /\ SumFunction(f) = h[S]
  BY SumIsSums, SumsExist
<1>3. PICK k : Sums(g, R, k) /\ SumFunction(g) = k[R]
  BY <1>1, SumIsSums, SumsExist
<1>4. k[S] = h[S]
  BY <1>2, <1>3, SumsAgree
<1>5. h[S] \in Nat
  BY <1>2, SumsOrder
<1>6. k[R] = g[y] + k[R \ {y}]
  <2> HIDE DEF R
  <2> QED
    BY <1>1, <1>3, SumsOrder
<1>7. R \ {y} = S /\ g[y] \in Nat
  OBVIOUS
<1> QED
  BY <1>2, <1>3, <1>4, <1>5, <1>6, <1>7
==============================================================================

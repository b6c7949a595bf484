------------------------------ MODULE SumProofs ------------------------------
(***************************************************************************)
(* What SumFunctionOnSet computes, for every finite set of indices: the    *)
(* fold that defines it takes the indices in an order nobody knows, and    *)
(* these lemmas show that the order does not matter.  The inductions are   *)
(* by a least counterexample: the library's induction theorems are not     *)
(* usable by the provers.                                                  *)
(***************************************************************************)
EXTENDS Integers, Functions, FiniteSets, FiniteSetTheorems, TLAPS, WellFoundedInduction

LEMMA LeastNat ==
    ASSUME NEW S, S \subseteq Nat, S # {}
    PROVE  \E m \in S : \A n \in S : m <= n
<1>1. PICK m \in S : \A n \in S : ~(<<n, m>> \in OpToRel(<, Nat))
  BY NatLessThanWellFounded, WFMin
<1>2. \A n \in S : ~(n < m)
  BY <1>1 DEF OpToRel
<1> QED
  BY <1>2

\* A set of naturals that contains every number whose predecessors it contains is Nat.
LEMMA StrongInduction ==
    ASSUME NEW S, \A n \in Nat : (\A m \in Nat : m < n => m \in S) => n \in S
    PROVE  \A n \in Nat : n \in S
<1> DEFINE bad == Nat \ S
<1>1. SUFFICES ASSUME bad # {} PROVE FALSE
  OBVIOUS
<1>2. PICK m \in bad : \A n \in bad : m <= n
  BY <1>1, LeastNat
<1>3. \A n \in Nat : n < m => n \in S
  BY <1>2
<1> QED
  BY <1>2, <1>3

-----------------------------------------------------------------------------
(* The function that the fold iterates exists and is unique. *)

OneOf(s) == CHOOSE x \in s : TRUE

LEMMA OneOfIsIn == \A s : s # {} => OneOf(s) \in s
BY DEF OneOf

Iterates(g, f, S) ==
    g = [s \in SUBSET S |-> IF s = {} THEN 0 ELSE f[OneOf(s)] + g[s \ {OneOf(s)}]]

LEMMA SumUnfolds ==
    ASSUME NEW f, NEW S
    PROVE  SumFunctionOnSet(f, S) = (CHOOSE g : Iterates(g, f, S))[S]
BY DEF SumFunctionOnSet, FoldFunctionOnSet, MapThenFoldSet, Iterates, OneOf

\* A smaller subset, as the fold takes one.
LEMMA TakeOne ==
    ASSUME NEW S, IsFiniteSet(S), NEW s \in SUBSET S, NEW x \in s
    PROVE  /\ s \ {x} \in SUBSET S
           /\ IsFiniteSet(s) /\ IsFiniteSet(s \ {x})
           /\ Cardinality(s) \in Nat /\ Cardinality(s \ {x}) \in Nat
           /\ Cardinality(s \ {x}) = Cardinality(s) - 1
<1>1. IsFiniteSet(s)
  BY FS_Subset
<1>2. IsFiniteSet(s \ {x}) /\ Cardinality(s \ {x}) = Cardinality(s) - 1
  BY <1>1, FS_RemoveElement
<1> QED
  BY <1>1, <1>2, FS_CardinalityType

\* The subsets of S with at most n elements.
Small(S, n) == {s \in SUBSET S : Cardinality(s) <= n}

PartSum(g, f, S, n) ==
    /\ g \in [Small(S, n) -> Int]
    /\ \A s \in Small(S, n) : g[s] = IF s = {} THEN 0 ELSE f[OneOf(s)] + g[s \ {OneOf(s)}]

LEMMA PartSumExists ==
    ASSUME NEW S, IsFiniteSet(S), NEW f, \A x \in S : f[x] \in Int
    PROVE  \A n \in Nat : \E g : PartSum(g, f, S, n)
<1> DEFINE good == {n \in Nat : \E g : PartSum(g, f, S, n)}
<1>1. ASSUME NEW n \in Nat, \A m \in Nat : m < n => m \in good PROVE n \in good
  <2>1. CASE n = 0
    <3> DEFINE g == [s \in Small(S, 0) |-> 0]
    <3>1. \A s \in Small(S, 0) : s = {}
      <4> TAKE s \in Small(S, 0)
      <4>1. IsFiniteSet(s) /\ s \in SUBSET S
        BY FS_Subset DEF Small
      <4>2. Cardinality(s) \in Nat /\ Cardinality(s) <= 0
        BY <4>1, FS_CardinalityType DEF Small
      <4> QED
        BY <4>1, <4>2, FS_EmptySet
    <3>2. PartSum(g, f, S, 0)
      BY <3>1 DEF PartSum
    <3> QED
      BY <2>1, <3>2
  <2>2. CASE n > 0
    <3>1. n - 1 \in good
      BY <1>1, <2>2
    <3>2. PICK p : PartSum(p, f, S, n - 1)
      BY <3>1
    <3> DEFINE g == [s \in Small(S, n) |->
                        IF s = {} THEN 0 ELSE f[OneOf(s)] + p[s \ {OneOf(s)}]]
    <3>3. ASSUME NEW s \in Small(S, n), s # {}
          PROVE  /\ s \ {OneOf(s)} \in Small(S, n - 1)
                 /\ s \ {OneOf(s)} \in Small(S, n)
                 /\ OneOf(s) \in S
      <4>1. s \in SUBSET S /\ OneOf(s) \in s /\ Cardinality(s) <= n
        BY <3>3, OneOfIsIn DEF Small
      <4>2. PICK x \in s : x = OneOf(s)
        BY <4>1
      <4>3. /\ s \ {x} \in SUBSET S
            /\ Cardinality(s) \in Nat
            /\ Cardinality(s \ {x}) = Cardinality(s) - 1
        BY <4>1, TakeOne, Zenon
      <4>4. s \ {x} \in Small(S, n - 1) /\ s \ {x} \in Small(S, n)
        BY <4>1, <4>3 DEF Small
      <4> QED
        BY <4>1, <4>2, <4>4
    <3>4. \A s \in Small(S, n - 1) : s \in Small(S, n) /\ g[s] = p[s]
      <4> TAKE s \in Small(S, n - 1)
      <4>1. IsFiniteSet(s) /\ s \in SUBSET S
        BY FS_Subset DEF Small
      <4>2. Cardinality(s) \in Nat /\ Cardinality(s) <= n - 1
        BY <4>1, FS_CardinalityType DEF Small
      <4>3. s \in Small(S, n)
        BY <4>1, <4>2 DEF Small
      <4> QED
        BY <4>3, <3>2 DEF PartSum
    <3>5. g \in [Small(S, n) -> Int]
      <4>1. \A s \in Small(S, n) : s # {} => f[OneOf(s)] \in Int /\ p[s \ {OneOf(s)}] \in Int
        BY <3>3, <3>2 DEF PartSum
      <4> QED
        BY <4>1
    <3>6. \A s \in Small(S, n) : s # {} => g[s] = f[OneOf(s)] + g[s \ {OneOf(s)}]
      BY <3>3, <3>4
    <3>7. PartSum(g, f, S, n)
      BY <3>5, <3>6 DEF PartSum
    <3> QED
      BY <3>7
  <2> QED
    BY <2>1, <2>2
<1>2. \A n \in Nat : n \in good
  <2> HIDE DEF good
  <2> QED
    BY <1>1, StrongInduction
<1> QED
  BY <1>2

LEMMA SumExists ==
    ASSUME NEW S, IsFiniteSet(S), NEW f, \A x \in S : f[x] \in Int
    PROVE  \E g \in [SUBSET S -> Int] : Iterates(g, f, S)
<1> DEFINE n == Cardinality(S)
<1>1. n \in Nat
  BY FS_CardinalityType
<1>2. Small(S, n) = SUBSET S
  BY FS_Subset DEF Small
<1>3. PICK g : PartSum(g, f, S, n)
  BY <1>1, PartSumExists
<1> HIDE DEF n
<1>4. g \in [SUBSET S -> Int]
  BY <1>2, <1>3 DEF PartSum
<1>5. \A s \in SUBSET S : g[s] = IF s = {} THEN 0 ELSE f[OneOf(s)] + g[s \ {OneOf(s)}]
  BY <1>2, <1>3 DEF PartSum
<1>6. Iterates(g, f, S)
  BY <1>4, <1>5 DEF Iterates
<1> QED
  BY <1>4, <1>6

\* What an iteration is at the empty set and at every other one.
Steps(g, f, S) ==
    /\ g[{}] = 0
    /\ \A s \in SUBSET S : s # {} => g[s] = f[OneOf(s)] + g[s \ {OneOf(s)}]

LEMMA IterateStep ==
    ASSUME NEW f, NEW S, NEW g, Iterates(g, f, S)
    PROVE  Steps(g, f, S)
<1> DEFINE h == [s \in SUBSET S |-> IF s = {} THEN 0 ELSE f[OneOf(s)] + g[s \ {OneOf(s)}]]
<1>1. g = h
  BY DEF Iterates
<1>2. h[{}] = 0 /\ \A s \in SUBSET S : s # {} => h[s] = f[OneOf(s)] + g[s \ {OneOf(s)}]
  OBVIOUS
<1> HIDE DEF h
<1> QED
  BY <1>1, <1>2 DEF Steps

\* Two iterations agree wherever their values do.
LEMMA IterationsAgree ==
    ASSUME NEW S, IsFiniteSet(S), NEW T, IsFiniteSet(T), NEW f, NEW e, NEW g, NEW h,
           Iterates(g, f, S), Iterates(h, e, T)
    PROVE  \A s \in SUBSET S : s \in SUBSET T /\ (\A x \in s : f[x] = e[x]) => g[s] = h[s]
<1>g. Steps(g, f, S)
  BY IterateStep
<1>h. Steps(h, e, T)
  BY IterateStep
<1> DEFINE good == {n \in Nat : \A s \in SUBSET S :
                       Cardinality(s) = n /\ s \in SUBSET T /\ (\A x \in s : f[x] = e[x])
                           => g[s] = h[s]}
<1>1. ASSUME NEW n \in Nat, \A m \in Nat : m < n => m \in good PROVE n \in good
  <2> SUFFICES ASSUME NEW s \in SUBSET S, Cardinality(s) = n, s \in SUBSET T,
                      \A x \in s : f[x] = e[x]
               PROVE  g[s] = h[s]
    OBVIOUS
  <2>1. CASE s = {}
    BY <2>1, <1>g, <1>h DEF Steps
  <2>2. CASE s # {}
    <3> DEFINE x == OneOf(s)
               t == s \ {x}
    <3>1. x \in s
      BY <2>2, OneOfIsIn
    <3>2. t \in SUBSET S /\ t \in SUBSET T /\ Cardinality(t) \in Nat /\ Cardinality(t) < n
      <4>1. /\ t \in SUBSET S
            /\ Cardinality(s) \in Nat /\ Cardinality(t) \in Nat
            /\ Cardinality(t) = Cardinality(s) - 1
        BY <3>1, TakeOne
      <4> QED
        BY <4>1
    <3>3. Cardinality(t) \in good
      BY <3>2, <1>1
    <3>4. g[t] = h[t]
      BY <3>2, <3>3
    <3>5. g[s] = f[x] + g[t]
      BY <2>2, <1>g DEF Steps
    <3>6. h[s] = e[x] + h[t]
      BY <2>2, <1>h DEF Steps
    <3> QED
      BY <3>1, <3>4, <3>5, <3>6
  <2> QED
    BY <2>1, <2>2
<1>2. \A n \in Nat : n \in good
  <2> HIDE DEF good
  <2> QED
    BY <1>1, StrongInduction
<1> TAKE s \in SUBSET S
<1>3. Cardinality(s) \in Nat
  BY FS_Subset, FS_CardinalityType
<1> QED
  BY <1>2, <1>3

\* The sum is the value of any iteration over a set that contains the indices.
LEMMA SumIsIteration ==
    ASSUME NEW S, IsFiniteSet(S), NEW f, \A x \in S : f[x] \in Int, NEW s \in SUBSET S,
           NEW g, Iterates(g, f, S)
    PROVE  SumFunctionOnSet(f, s) = g[s]
<1>1. IsFiniteSet(s)
  BY FS_Subset
<1>2. \E h : Iterates(h, f, s)
  BY <1>1, SumExists
<1> DEFINE h == CHOOSE h : Iterates(h, f, s)
<1>3. Iterates(h, f, s)
  BY <1>2
<1>4. SumFunctionOnSet(f, s) = h[s]
  BY SumUnfolds
<1> HIDE DEF h
<1> QED
  BY <1>1, <1>3, <1>4, IterationsAgree

LEMMA SumType ==
    ASSUME NEW S, IsFiniteSet(S), NEW f, \A x \in S : f[x] \in Int
    PROVE  SumFunctionOnSet(f, S) \in Int
<1>1. PICK g \in [SUBSET S -> Int] : Iterates(g, f, S)
  BY SumExists
<1>2. SumFunctionOnSet(f, S) = g[S]
  BY <1>1, SumIsIteration
<1> QED
  BY <1>1, <1>2

LEMMA SumEmpty == \A f : SumFunctionOnSet(f, {}) = 0
<1> TAKE f
<1>1. IsFiniteSet({})
  BY FS_EmptySet
<1>2. PICK g \in [SUBSET {} -> Int] : Iterates(g, f, {})
  BY <1>1, SumExists
<1>3. SumFunctionOnSet(f, {}) = g[{}]
  BY <1>1, <1>2, SumIsIteration
<1> QED
  BY <1>2, <1>3, IterateStep DEF Steps

LEMMA SumStep ==
    ASSUME NEW S, IsFiniteSet(S), S # {}, NEW f, \A x \in S : f[x] \in Int
    PROVE  SumFunctionOnSet(f, S) = f[OneOf(S)] + SumFunctionOnSet(f, S \ {OneOf(S)})
<1>1. PICK g \in [SUBSET S -> Int] : Iterates(g, f, S)
  BY SumExists
<1>2. SumFunctionOnSet(f, S) = g[S] /\ SumFunctionOnSet(f, S \ {OneOf(S)}) = g[S \ {OneOf(S)}]
  BY <1>1, SumIsIteration
<1>3. g[S] = f[OneOf(S)] + g[S \ {OneOf(S)}]
  BY <1>1, IterateStep DEF Steps
<1> QED
  BY <1>2, <1>3

\* A sum without one of its indices, whichever the fold takes first.
LEMMA SumRemove ==
    ASSUME NEW S, IsFiniteSet(S), NEW z \in S, NEW f, \A x \in S : f[x] \in Int
    PROVE  SumFunctionOnSet(f, S) = f[z] + SumFunctionOnSet(f, S \ {z})
<1> DEFINE sum(s) == SumFunctionOnSet(f, s)
           good == {n \in Nat : \A s \in SUBSET S :
                       Cardinality(s) = n => \A x \in s : sum(s) = f[x] + sum(s \ {x})}
<1>0. ASSUME NEW s \in SUBSET S
      PROVE  /\ sum(s) \in Int /\ IsFiniteSet(s)
             /\ s # {} => sum(s) = f[OneOf(s)] + sum(s \ {OneOf(s)})
  <2>1. IsFiniteSet(s) /\ \A x \in s : f[x] \in Int
    BY FS_Subset
  <2> QED
    BY <2>1, SumType, SumStep
<1> HIDE DEF sum
<1>1. ASSUME NEW n \in Nat, \A m \in Nat : m < n => m \in good PROVE n \in good
  <2> SUFFICES ASSUME NEW s \in SUBSET S, Cardinality(s) = n, NEW x \in s
               PROVE  sum(s) = f[x] + sum(s \ {x})
    OBVIOUS
  <2> DEFINE y == OneOf(s)
  <2>1. y \in s /\ sum(s) = f[y] + sum(s \ {y})
    BY OneOfIsIn, <1>0
  <2>2. CASE y = x
    BY <2>1, <2>2
  <2>3. CASE y # x
    <3> HIDE DEF y
    <3>1. /\ s \ {x} \in SUBSET S /\ s \ {y} \in SUBSET S
          /\ Cardinality(s \ {x}) \in Nat /\ Cardinality(s \ {x}) < n
          /\ Cardinality(s \ {y}) \in Nat /\ Cardinality(s \ {y}) < n
      <4>1. /\ s \ {x} \in SUBSET S
            /\ Cardinality(s) \in Nat /\ Cardinality(s \ {x}) \in Nat
            /\ Cardinality(s \ {x}) = Cardinality(s) - 1
        BY TakeOne
      <4>2. /\ s \ {y} \in SUBSET S
            /\ Cardinality(s) \in Nat /\ Cardinality(s \ {y}) \in Nat
            /\ Cardinality(s \ {y}) = Cardinality(s) - 1
        BY <2>1, TakeOne
      <4> QED
        BY <4>1, <4>2
    <3>2. Cardinality(s \ {x}) \in good /\ Cardinality(s \ {y}) \in good
      BY <3>1, <1>1
    <3>3. sum(s \ {y}) = f[x] + sum((s \ {y}) \ {x})
      BY <3>1, <3>2, <2>3
    <3>4. sum(s \ {x}) = f[y] + sum((s \ {x}) \ {y})
      BY <3>1, <3>2, <2>1, <2>3
    <3>5. (s \ {x}) \ {y} = (s \ {y}) \ {x}
      OBVIOUS
    <3> DEFINE a == f[x]
               b == f[y]
               c == sum((s \ {y}) \ {x})
    <3>7. a \in Int /\ b \in Int /\ c \in Int
      BY <1>0, <2>1
    <3>8. sum(s \ {y}) = a + c /\ sum(s \ {x}) = b + c /\ sum(s) = b + sum(s \ {y})
      BY <2>1, <3>3, <3>4, <3>5
    <3> HIDE DEF a, b, c
    <3>9. sum(s) = a + sum(s \ {x})
      BY <3>7, <3>8
    <3> QED
      BY <3>9 DEF a
  <2> QED
    BY <2>2, <2>3
<1>2. \A n \in Nat : n \in good
  <2> HIDE DEF good
  <2> QED
    BY <1>1, StrongInduction
<1>3. Cardinality(S) \in Nat
  BY FS_CardinalityType
<1>4. Cardinality(S) \in good
  BY <1>2, <1>3
<1>5. sum(S) = f[z] + sum(S \ {z})
  BY <1>4
<1> QED
  BY <1>5 DEF sum

\* A sum with one more index.
LEMMA SumInsert ==
    ASSUME NEW S, IsFiniteSet(S), NEW z, z \notin S, NEW f, \A x \in S \union {z} : f[x] \in Int
    PROVE  SumFunctionOnSet(f, S \union {z}) = f[z] + SumFunctionOnSet(f, S)
<1> DEFINE T == S \union {z}
<1>1. IsFiniteSet(T)
  BY FS_AddElement
<1>2. z \in T /\ T \ {z} = S /\ \A x \in T : f[x] \in Int
  OBVIOUS
<1> HIDE DEF T
<1>3. SumFunctionOnSet(f, T) = f[z] + SumFunctionOnSet(f, T \ {z})
  BY <1>1, <1>2, SumRemove
<1> QED
  BY <1>2, <1>3 DEF T

\* A sum depends on the values at its indices only.
LEMMA SumSame ==
    ASSUME NEW S, IsFiniteSet(S), NEW f, NEW e, \A x \in S : f[x] \in Int /\ f[x] = e[x]
    PROVE  SumFunctionOnSet(f, S) = SumFunctionOnSet(e, S)
<1>1. PICK g \in [SUBSET S -> Int] : Iterates(g, f, S)
  BY SumExists
<1>2. PICK h \in [SUBSET S -> Int] : Iterates(h, e, S)
  <2>1. \A x \in S : e[x] \in Int
    OBVIOUS
  <2> QED
    BY <2>1, SumExists
<1>3. SumFunctionOnSet(f, S) = g[S] /\ SumFunctionOnSet(e, S) = h[S]
  BY <1>1, <1>2, SumIsIteration
<1>4. g[S] = h[S]
  BY <1>1, <1>2, IterationsAgree
<1> QED
  BY <1>3, <1>4

LEMMA SumUnion ==
    ASSUME NEW S, IsFiniteSet(S), NEW T, IsFiniteSet(T), \A x \in S : x \notin T,
           NEW f, \A x \in S \union T : f[x] \in Int
    PROVE  SumFunctionOnSet(f, S \union T) = SumFunctionOnSet(f, S) + SumFunctionOnSet(f, T)
<1> DEFINE sum(s) == SumFunctionOnSet(f, s)
           good == {n \in Nat : \A t \in SUBSET T :
                       Cardinality(t) = n => sum(S \union t) = sum(S) + sum(t)}
<1>0. ASSUME NEW t \in SUBSET T
      PROVE  IsFiniteSet(t) /\ IsFiniteSet(S \union t) /\ sum(t) \in Int /\ sum(S) \in Int
  <2>1. IsFiniteSet(t)
    BY FS_Subset
  <2>2. IsFiniteSet(S \union t)
    BY <2>1, FS_Union
  <2>3. (\A x \in t : f[x] \in Int) /\ (\A x \in S : f[x] \in Int)
    OBVIOUS
  <2> QED
    BY <2>1, <2>2, <2>3, SumType
<1>1. ASSUME NEW n \in Nat, \A m \in Nat : m < n => m \in good PROVE n \in good
  <2> SUFFICES ASSUME NEW t \in SUBSET T, Cardinality(t) = n
               PROVE  sum(S \union t) = sum(S) + sum(t)
    OBVIOUS
  <2>1. CASE t = {}
    <3>1. S \union t = S
      BY <2>1
    <3>2. sum(t) = 0 /\ sum(S) \in Int
      BY <2>1, <1>0, SumEmpty
    <3> HIDE DEF sum
    <3> QED
      BY <3>1, <3>2
  <2>2. CASE t # {}
    <3> DEFINE x == OneOf(t)
               u == t \ {x}
               Su == S \union u
    <3>1. x \in t
      BY <2>2, OneOfIsIn
    <3>2. u \in SUBSET T /\ Cardinality(u) \in Nat /\ Cardinality(u) < n
      <4>1. /\ u \in SUBSET T
            /\ Cardinality(t) \in Nat /\ Cardinality(u) \in Nat
            /\ Cardinality(u) = Cardinality(t) - 1
        BY <3>1, TakeOne
      <4> QED
        BY <4>1
    <3>3. Cardinality(u) \in good
      BY <3>2, <1>1
    <3>4. sum(Su) = sum(S) + sum(u)
      BY <3>2, <3>3
    <3>5. IsFiniteSet(u) /\ IsFiniteSet(Su) /\ sum(u) \in Int /\ sum(S) \in Int
      BY <3>2, <1>0
    <3>6. x \notin u /\ x \notin Su /\ t = u \union {x} /\ S \union t = Su \union {x}
      BY <3>1
    <3>7. (\A y \in u \union {x} : f[y] \in Int) /\ (\A y \in Su \union {x} : f[y] \in Int)
      BY <3>1
    <3> HIDE DEF x, u, Su
    <3>8. sum(u \union {x}) = f[x] + sum(u) /\ sum(Su \union {x}) = f[x] + sum(Su)
      BY <3>5, <3>6, <3>7, SumInsert
    <3>9. f[x] \in Int
      BY <3>7
    <3> HIDE DEF sum
    <3> DEFINE a == f[x]
               b == sum(S)
               c == sum(u)
    <3>10. sum(S \union t) = a + (b + c)
      BY <3>4, <3>6, <3>8
    <3>11. sum(t) = a + c
      BY <3>6, <3>8
    <3>12. a \in Int /\ b \in Int /\ c \in Int
      BY <3>5, <3>9
    <3> HIDE DEF a, b, c
    <3>13. a + (b + c) = b + (a + c)
      BY <3>12
    <3> QED
      BY <3>10, <3>11, <3>13 DEF b
  <2> QED
    BY <2>1, <2>2
<1>2. \A n \in Nat : n \in good
  <2> HIDE DEF good
  <2> QED
    BY <1>1, StrongInduction
<1>3. Cardinality(T) \in Nat
  BY FS_CardinalityType
<1>4. Cardinality(T) \in good
  BY <1>2, <1>3
<1> QED
  BY <1>4

LEMMA SumOfZeros ==
    ASSUME NEW S, IsFiniteSet(S), NEW f, \A x \in S : f[x] = 0
    PROVE  SumFunctionOnSet(f, S) = 0
<1> DEFINE good == {n \in Nat : \A s \in SUBSET S :
                       Cardinality(s) = n => SumFunctionOnSet(f, s) = 0}
<1>1. ASSUME NEW n \in Nat, \A m \in Nat : m < n => m \in good PROVE n \in good
  <2> SUFFICES ASSUME NEW s \in SUBSET S, Cardinality(s) = n
               PROVE  SumFunctionOnSet(f, s) = 0
    OBVIOUS
  <2>1. CASE s = {}
    BY <2>1, SumEmpty
  <2>2. CASE s # {}
    <3> DEFINE x == OneOf(s)
               t == s \ {x}
    <3>1. x \in s
      BY <2>2, OneOfIsIn
    <3>2. /\ t \in SUBSET S /\ IsFiniteSet(s)
          /\ Cardinality(t) \in Nat /\ Cardinality(t) < n
      <4>1. /\ t \in SUBSET S /\ IsFiniteSet(s)
            /\ Cardinality(s) \in Nat /\ Cardinality(t) \in Nat
            /\ Cardinality(t) = Cardinality(s) - 1
        BY <3>1, TakeOne
      <4> QED
        BY <4>1
    <3>3. Cardinality(t) \in good
      BY <3>2, <1>1
    <3>4. SumFunctionOnSet(f, t) = 0
      BY <3>2, <3>3
    <3>5. \A y \in s : f[y] \in Int
      OBVIOUS
    <3>6. SumFunctionOnSet(f, s) = f[x] + SumFunctionOnSet(f, t)
      BY <3>2, <3>5, <2>2, SumStep
    <3>7. f[x] = 0
      BY <3>1
    <3> QED
      BY <3>4, <3>6, <3>7
  <2> QED
    BY <2>1, <2>2
<1>2. \A n \in Nat : n \in good
  <2> HIDE DEF good
  <2> QED
    BY <1>1, StrongInduction
<1>3. Cardinality(S) \in Nat
  BY FS_CardinalityType
<1>4. Cardinality(S) \in good
  BY <1>2, <1>3
<1> QED
  BY <1>4

\* Indices whose values are zero do not count.
LEMMA SumDropZeros ==
    ASSUME NEW S, IsFiniteSet(S), NEW T \in SUBSET S, NEW f,
           \A x \in S : f[x] \in Int, \A x \in S : x \notin T => f[x] = 0
    PROVE  SumFunctionOnSet(f, S) = SumFunctionOnSet(f, T)
<1> DEFINE R == S \ T
<1>1. IsFiniteSet(T) /\ IsFiniteSet(R)
  BY FS_Subset
<1>2. S = T \union R /\ (\A x \in T : x \notin R) /\ (\A x \in R : f[x] = 0)
  OBVIOUS
<1>3. (\A x \in T : f[x] \in Int) /\ (\A x \in T \union R : f[x] \in Int)
  OBVIOUS
<1> HIDE DEF R
<1>4. SumFunctionOnSet(f, T \union R) = SumFunctionOnSet(f, T) + SumFunctionOnSet(f, R)
  BY <1>1, <1>2, <1>3, SumUnion
<1>5. SumFunctionOnSet(f, R) = 0
  BY <1>1, <1>2, SumOfZeros
<1>6. SumFunctionOnSet(f, T) \in Int
  BY <1>1, <1>3, SumType
<1> QED
  BY <1>2, <1>4, <1>5, <1>6

LEMMA SumNonNegative ==
    ASSUME NEW S, IsFiniteSet(S), NEW f, \A x \in S : f[x] \in Nat
    PROVE  SumFunctionOnSet(f, S) \in Nat
<1> DEFINE good == {n \in Nat : \A s \in SUBSET S :
                       Cardinality(s) = n => SumFunctionOnSet(f, s) \in Nat}
<1>1. ASSUME NEW n \in Nat, \A m \in Nat : m < n => m \in good
      PROVE  n \in good
  <2> SUFFICES ASSUME NEW s \in SUBSET S, Cardinality(s) = n
               PROVE  SumFunctionOnSet(f, s) \in Nat
    OBVIOUS
  <2>1. CASE s = {}
    BY <2>1, SumEmpty
  <2>2. CASE s # {}
    <3>1. PICK x : x \in s
      BY <2>2
    <3> DEFINE t == s \ {x}
    <3>2. /\ t \in SUBSET S /\ IsFiniteSet(s)
          /\ Cardinality(t) \in Nat /\ Cardinality(t) < n
      <4>1. /\ t \in SUBSET S /\ IsFiniteSet(s)
            /\ Cardinality(s) \in Nat /\ Cardinality(t) \in Nat /\ Cardinality(t) = Cardinality(s) - 1
        BY <3>1, TakeOne
      <4> QED
        BY <4>1
    <3>3. SumFunctionOnSet(f, t) \in Nat
      BY <3>2, <1>1
    <3>4. \A y \in s : f[y] \in Int
      OBVIOUS
    <3>5. SumFunctionOnSet(f, s) = f[x] + SumFunctionOnSet(f, t)
      BY <3>1, <3>2, <3>4, SumRemove
    <3>6. f[x] \in Nat
      BY <3>1
    <3> QED
      BY <3>3, <3>5, <3>6
  <2> QED
    BY <2>1, <2>2
<1>2. \A n \in Nat : n \in good
  <2> HIDE DEF good
  <2> QED
    BY <1>1, StrongInduction
<1>3. Cardinality(S) \in good
  BY <1>2, FS_CardinalityType
<1> QED
  BY <1>3

\* A sum is at most the sum of two others when each of its terms is at most theirs.
LEMMA SumAtMost ==
    ASSUME NEW S, IsFiniteSet(S), NEW f, NEW g, NEW e,
           \A x \in S : f[x] \in Int /\ g[x] \in Int /\ e[x] \in Int /\ f[x] <= g[x] + e[x]
    PROVE  SumFunctionOnSet(f, S) <= SumFunctionOnSet(g, S) + SumFunctionOnSet(e, S)
<1> DEFINE Below(s) == SumFunctionOnSet(f, s) <= SumFunctionOnSet(g, s) + SumFunctionOnSet(e, s)
           good == {n \in Nat : \A s \in SUBSET S : Cardinality(s) = n => Below(s)}
<1>1. ASSUME NEW n \in Nat, \A m \in Nat : m < n => m \in good PROVE n \in good
  <2> SUFFICES ASSUME NEW s \in SUBSET S, Cardinality(s) = n PROVE Below(s)
    OBVIOUS
  <2>1. CASE s = {}
    <3>1. SumFunctionOnSet(f, s) = 0 /\ SumFunctionOnSet(g, s) = 0 /\ SumFunctionOnSet(e, s) = 0
      BY <2>1, SumEmpty
    <3> QED
      BY <3>1
  <2>2. CASE s # {}
    <3>1. PICK x : x \in s
      BY <2>2
    <3> DEFINE t == s \ {x}
    <3>2. /\ t \in SUBSET S /\ IsFiniteSet(s) /\ IsFiniteSet(t)
          /\ Cardinality(t) \in Nat /\ Cardinality(t) < n
      <4>1. /\ t \in SUBSET S /\ IsFiniteSet(s) /\ IsFiniteSet(t)
            /\ Cardinality(s) \in Nat /\ Cardinality(t) \in Nat /\ Cardinality(t) = Cardinality(s) - 1
        BY <3>1, TakeOne
      <4> QED
        BY <4>1
    <3>3. Below(t)
      BY <3>2, <1>1
    <3>4. /\ \A y \in s : f[y] \in Int
          /\ \A y \in s : g[y] \in Int
          /\ \A y \in s : e[y] \in Int
          /\ \A y \in t : f[y] \in Int
          /\ \A y \in t : g[y] \in Int
          /\ \A y \in t : e[y] \in Int
      OBVIOUS
    <3> HIDE DEF t
    <3>5. SumFunctionOnSet(f, s) = f[x] + SumFunctionOnSet(f, s \ {x})
      BY <3>1, <3>2, <3>4, SumRemove
    <3>6. SumFunctionOnSet(g, s) = g[x] + SumFunctionOnSet(g, s \ {x})
      BY <3>1, <3>2, <3>4, SumRemove
    <3>7. SumFunctionOnSet(e, s) = e[x] + SumFunctionOnSet(e, s \ {x})
      BY <3>1, <3>2, <3>4, SumRemove
    <3>8. /\ SumFunctionOnSet(f, t) \in Int
          /\ SumFunctionOnSet(g, t) \in Int
          /\ SumFunctionOnSet(e, t) \in Int
      BY <3>2, <3>4, SumType
    <3>9. f[x] \in Int /\ g[x] \in Int /\ e[x] \in Int /\ f[x] <= g[x] + e[x]
      BY <3>1
    <3> QED
      BY <3>3, <3>5, <3>6, <3>7, <3>8, <3>9 DEF t
  <2> QED
    BY <2>1, <2>2
<1>2. \A n \in Nat : n \in good
  <2> HIDE DEF good
  <2> QED
    BY <1>1, StrongInduction
<1>3. Cardinality(S) \in good
  BY <1>2, FS_CardinalityType
<1> QED
  BY <1>3

LEMMA SumMonotone ==
    ASSUME NEW S, IsFiniteSet(S), NEW f, NEW g,
           \A x \in S : f[x] \in Int /\ g[x] \in Int /\ f[x] <= g[x]
    PROVE  SumFunctionOnSet(f, S) <= SumFunctionOnSet(g, S)
<1> DEFINE e == [x \in S |-> 0]
<1>1. \A x \in S : e[x] = 0
  OBVIOUS
<1> HIDE DEF e
<1>2. SumFunctionOnSet(e, S) = 0
  BY <1>1, SumOfZeros
<1>3. SumFunctionOnSet(f, S) <= SumFunctionOnSet(g, S) + SumFunctionOnSet(e, S)
  <2>1. \A x \in S : f[x] \in Int /\ g[x] \in Int /\ e[x] \in Int /\ f[x] <= g[x] + e[x]
    BY <1>1
  <2> QED
    BY <2>1, SumAtMost
<1>4. SumFunctionOnSet(g, S) \in Int
  BY SumType
<1> QED
  BY <1>2, <1>3, <1>4

\* Terms that move to one index: the terms of C vanish and the term of z, zero before,
\* is at most their sum.
LEMMA SumMoves ==
    ASSUME NEW S, IsFiniteSet(S), NEW C \in SUBSET S, NEW z \in S, z \notin C, NEW f, NEW g,
           \A x \in S : f[x] \in Int /\ g[x] \in Int,
           \A x \in C : g[x] = 0,
           \A x \in S : x \notin C /\ x # z => g[x] <= f[x],
           f[z] = 0, g[z] <= SumFunctionOnSet(f, C)
    PROVE  SumFunctionOnSet(g, S) <= SumFunctionOnSet(f, S)
<1> DEFINE R == S \ {z}
           Q == R \ C
<1>1. IsFiniteSet(R) /\ IsFiniteSet(Q) /\ IsFiniteSet(C)
  BY FS_Subset
<1>2. R = Q \union C /\ (\A x \in Q : x \notin C)
  OBVIOUS
<1>3. /\ \A x \in S : f[x] \in Int
      /\ \A x \in S : g[x] \in Int
      /\ \A x \in Q \union C : f[x] \in Int
      /\ \A x \in Q \union C : g[x] \in Int
      /\ \A x \in Q : f[x] \in Int
      /\ \A x \in Q : g[x] \in Int
      /\ \A x \in C : f[x] \in Int
  OBVIOUS
<1>4. \A x \in Q : f[x] \in Int /\ g[x] \in Int /\ g[x] <= f[x]
  OBVIOUS
<1>5. SumFunctionOnSet(f, S) = f[z] + SumFunctionOnSet(f, R)
  BY <1>3, SumRemove
<1>6. SumFunctionOnSet(g, S) = g[z] + SumFunctionOnSet(g, R)
  BY <1>3, SumRemove
<1> HIDE DEF R, Q
<1>7. SumFunctionOnSet(f, Q \union C) = SumFunctionOnSet(f, Q) + SumFunctionOnSet(f, C)
  BY <1>1, <1>2, <1>3, SumUnion
<1>8. SumFunctionOnSet(g, Q \union C) = SumFunctionOnSet(g, Q) + SumFunctionOnSet(g, C)
  BY <1>1, <1>2, <1>3, SumUnion
<1>9. SumFunctionOnSet(g, C) = 0
  BY <1>1, SumOfZeros
<1>10. SumFunctionOnSet(g, Q) <= SumFunctionOnSet(f, Q)
  BY <1>1, <1>4, SumMonotone
<1>11. /\ SumFunctionOnSet(f, Q) \in Int
       /\ SumFunctionOnSet(g, Q) \in Int
       /\ SumFunctionOnSet(f, C) \in Int
  BY <1>1, <1>3, SumType
<1>12. g[z] \in Int /\ f[z] \in Int
  OBVIOUS
<1> QED
  BY <1>2, <1>5, <1>6, <1>7, <1>8, <1>9, <1>10, <1>11, <1>12

\* Renaming the indices one to one does not change a sum.
LEMMA SumRenamed ==
    ASSUME NEW S, IsFiniteSet(S), NEW m, NEW f, NEW g,
           \A x \in S : f[x] \in Int /\ f[x] = g[m[x]],
           \A x, y \in S : m[x] = m[y] => x = y
    PROVE  SumFunctionOnSet(f, S) = SumFunctionOnSet(g, {m[x] : x \in S})
<1> DEFINE Img(s) == {m[x] : x \in s}
           Same(s) == IsFiniteSet(Img(s)) /\ SumFunctionOnSet(f, s) = SumFunctionOnSet(g, Img(s))
           good == {n \in Nat : \A s \in SUBSET S : Cardinality(s) = n => Same(s)}
<1>1. ASSUME NEW n \in Nat, \A k \in Nat : k < n => k \in good PROVE n \in good
  <2> SUFFICES ASSUME NEW s \in SUBSET S, Cardinality(s) = n PROVE Same(s)
    OBVIOUS
  <2>1. CASE s = {}
    <3>1. Img(s) = {}
      BY <2>1
    <3>2. SumFunctionOnSet(f, s) = 0 /\ SumFunctionOnSet(g, Img(s)) = 0
      BY <2>1, <3>1, SumEmpty
    <3> QED
      BY <3>1, <3>2, FS_EmptySet
  <2>2. CASE s # {}
    <3>1. PICK x : x \in s
      BY <2>2
    <3> DEFINE t == s \ {x}
    <3>2. /\ t \in SUBSET S /\ IsFiniteSet(s) /\ IsFiniteSet(t)
          /\ Cardinality(t) \in Nat /\ Cardinality(t) < n
      <4>1. /\ t \in SUBSET S /\ IsFiniteSet(s) /\ IsFiniteSet(t)
            /\ Cardinality(s) \in Nat /\ Cardinality(t) \in Nat /\ Cardinality(t) = Cardinality(s) - 1
        BY <3>1, TakeOne
      <4> QED
        BY <4>1
    <3>3. Same(t)
      BY <3>2, <1>1
    <3>4. Img(s) = Img(t) \union {m[x]}
      BY <3>1
    <3>5. m[x] \notin Img(t)
      BY <3>1
    <3>6. (\A y \in s : f[y] \in Int) /\ (\A y \in Img(t) \union {m[x]} : g[y] \in Int)
      BY <3>1
    <3>7. f[x] = g[m[x]]
      BY <3>1
    <3>8. SumFunctionOnSet(f, s) = f[x] + SumFunctionOnSet(f, t)
      BY <3>1, <3>2, <3>6, SumRemove
    <3> HIDE DEF Img
    <3>9. SumFunctionOnSet(g, Img(t) \union {m[x]}) = g[m[x]] + SumFunctionOnSet(g, Img(t))
      BY <3>3, <3>5, <3>6, SumInsert
    <3>10. IsFiniteSet(Img(t) \union {m[x]})
      BY <3>3, FS_AddElement
    <3> QED
      BY <3>3, <3>4, <3>7, <3>8, <3>9, <3>10
  <2> QED
    BY <2>1, <2>2
<1>2. \A n \in Nat : n \in good
  <2> HIDE DEF good
  <2> QED
    BY <1>1, StrongInduction
<1>3. Cardinality(S) \in good
  BY <1>2, FS_CardinalityType
<1> QED
  BY <1>3

=============================================================================

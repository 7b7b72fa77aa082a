---------------------------- MODULE SumTheorems ----------------------------
(* Facts about SumFunctionOnSet of the community module Functions, for     *)
(* finite sets and integer values.  The sum is a recursive function over   *)
(* the subsets of the set.  Inductions are arguments by a least            *)
(* counterexample: a nonempty set of naturals has a least element.         *)
EXTENDS Integers, FiniteSets, Functions, WellFoundedInduction, FiniteSetTheorems, TLAPS

\* A nonempty set of natural numbers has a least element.
LEMMA LeastNatural ==
  ASSUME NEW T, T \subseteq Nat, T # {}
  PROVE  \E x \in T : \A y \in T : x <= y
<1> DEFINE R == {ss \in Nat \X Nat : ss[1] < ss[2]}
<1>1. IsWellFoundedOn(R, Nat)
  BY NatLessThanWellFounded DEF OpToRel
<1>2. \A x, y \in Nat : x < y => <<x, y>> \in R
  OBVIOUS
<1> HIDE DEF R
<1>3. PICK x \in T : \A y \in T : ~(<<y, x>> \in R)
  BY <1>1, WFMin
<1>4. \A y \in T : x <= y
  <2> TAKE y \in T
  <2>1. x \in Nat /\ y \in Nat /\ ~(<<y, x>> \in R)
    BY <1>3
  <2>2. ~(y < x)
    BY <1>2, <2>1
  <2> QED BY <2>1, <2>2
<1> QED BY <1>4

\* The element the sum of s takes first.
First(s) == CHOOSE x \in s : TRUE

\* The recursion of the sum: g[T] is the sum of f over T, for the subsets T of S.
Sums(f, S, g) ==
  g = [s \in SUBSET S |-> IF s = {} THEN 0 ELSE f[First(s)] + g[s \ {First(s)}]]

\* What taking the first element out of a finite set does.
LEMMA FirstFacts ==
  ASSUME NEW S, IsFiniteSet(S), NEW T \in SUBSET S, T # {}
  PROVE  /\ First(T) \in T /\ T \ {First(T)} \in SUBSET S
         /\ IsFiniteSet(T) /\ Cardinality(T) \in Nat /\ Cardinality(T) # 0
         /\ Cardinality(T \ {First(T)}) = Cardinality(T) - 1
<1>1. First(T) \in T
  BY DEF First
<1>2. IsFiniteSet(T)
  BY FS_Subset
<1>3. Cardinality(T) \in Nat /\ Cardinality(T) # 0
  BY <1>2, FS_CardinalityType, FS_EmptySet
<1>4. Cardinality(T \ {First(T)}) = Cardinality(T) - 1
  BY <1>1, <1>2, FS_RemoveElement
<1> QED BY <1>1, <1>2, <1>3, <1>4

\* The recursion has a solution, with integer values.
LEMMA SumsExist ==
  ASSUME NEW S, IsFiniteSet(S), NEW f, \A x \in S : f[x] \in Int
  PROVE  \E g \in [SUBSET S -> Int] : Sums(f, S, g)
<1> DEFINE Upto(n, g) == \A T \in SUBSET S : Cardinality(T) <= n =>
                           g[T] = IF T = {} THEN 0 ELSE f[First(T)] + g[T \ {First(T)}]
           Bad == {n \in Nat : ~ \E g \in [SUBSET S -> Int] : Upto(n, g)}
<1>0. \A T \in SUBSET S : Cardinality(T) \in Nat /\ IsFiniteSet(T)
  BY FS_Subset, FS_CardinalityType
<1>1. Bad = {}
  <2> SUFFICES ASSUME Bad # {} PROVE FALSE
    OBVIOUS
  <2>1. PICK n \in Bad : \A m \in Bad : n <= m
    BY LeastNatural
  <2>2. n \in Nat /\ ~ \E g \in [SUBSET S -> Int] : Upto(n, g)
    OBVIOUS
  <2>3. CASE n = 0
    <3> DEFINE z == [T \in SUBSET S |-> 0]
    <3>1. z \in [SUBSET S -> Int]
      OBVIOUS
    <3>2. \A T \in SUBSET S : Cardinality(T) <= 0 => T = {}
      BY <1>0, FS_EmptySet
    <3>3. Upto(n, z)
      BY <2>3, <3>2
    <3> QED BY <2>2, <3>1, <3>3
  <2>4. CASE n # 0
    <3>1. n - 1 \in Nat /\ n - 1 \notin Bad
      <4>1. n - 1 \in Nat /\ ~(n <= n - 1)
        BY <2>2, <2>4
      <4> HIDE DEF Bad
      <4> QED BY <2>1, <4>1
    <3>2. PICK g \in [SUBSET S -> Int] : Upto(n - 1, g)
      BY <3>1
    <3> DEFINE h == [T \in SUBSET S |-> IF Cardinality(T) <= n - 1 THEN g[T]
                                        ELSE f[First(T)] + g[T \ {First(T)}]]
    <3>3. \A T \in SUBSET S : Cardinality(T) > n - 1 => T # {}
      <4>1. ~(Cardinality({}) > n - 1)
        BY <3>1, FS_EmptySet
      <4> QED BY <4>1
    <3>4. h \in [SUBSET S -> Int]
      <4> SUFFICES ASSUME NEW T \in SUBSET S, ~(Cardinality(T) <= n - 1)
                   PROVE  f[First(T)] + g[T \ {First(T)}] \in Int
        OBVIOUS
      <4>1. T # {}
        BY <1>0, <3>1, <3>3
      <4>2. First(T) \in S /\ T \ {First(T)} \in SUBSET S
        BY <4>1, FirstFacts
      <4> QED BY <4>2
    <3>5. Upto(n, h)
      <4> SUFFICES ASSUME NEW T \in SUBSET S, Cardinality(T) <= n
                   PROVE  h[T] = IF T = {} THEN 0 ELSE f[First(T)] + h[T \ {First(T)}]
        OBVIOUS
      <4>1. CASE T = {}
        <5>1. Cardinality(T) <= n - 1
          BY <4>1, <3>1, FS_EmptySet
        <5>2. h[T] = g[T] /\ g[T] = 0
          BY <4>1, <5>1, <3>2
        <5> QED BY <4>1, <5>2
      <4>2. CASE T # {}
        <5> DEFINE U == T \ {First(T)}
        <5>1. U \in SUBSET S /\ Cardinality(T) \in Nat /\ Cardinality(U) = Cardinality(T) - 1
          BY <4>2, FirstFacts
        <5>2. Cardinality(U) <= n - 1
          BY <2>2, <5>1
        <5>3. h[U] = g[U]
          BY <5>1, <5>2
        <5>4. h[T] = f[First(T)] + g[U]
          BY <3>2, <4>2
        <5> QED BY <4>2, <5>3, <5>4
      <4> QED BY <4>1, <4>2
    <3> HIDE DEF h
    <3> QED BY <2>2, <3>4, <3>5
  <2> QED BY <2>3, <2>4
<1>2. PICK g \in [SUBSET S -> Int] : Upto(Cardinality(S), g)
  BY <1>0, <1>1
<1>3. \A T \in SUBSET S : Cardinality(T) <= Cardinality(S)
  BY FS_Subset
<1>4. Sums(f, S, g)
  BY <1>2, <1>3 DEF Sums
<1> QED BY <1>4

\* Sums of functions that agree on a set agree, whatever sets they were taken in.
LEMMA SumsAgree ==
  ASSUME NEW S, IsFiniteSet(S), NEW f, NEW g, Sums(f, S, g),
         NEW R, IsFiniteSet(R), NEW e, NEW h, Sums(e, R, h),
         NEW V \in SUBSET (S \cap R), \A x \in V : f[x] = e[x]
  PROVE  g[V] = h[V]
<1> DEFINE Bad == {n \in Nat : \E T \in SUBSET V : Cardinality(T) = n /\ g[T] # h[T]}
<1>1. Bad = {}
  <2> SUFFICES ASSUME Bad # {} PROVE FALSE
    OBVIOUS
  <2>1. PICK n \in Bad : \A m \in Bad : n <= m
    BY LeastNatural
  <2>2. PICK T \in SUBSET V : Cardinality(T) = n /\ g[T] # h[T]
    OBVIOUS
  <2>3. T \in SUBSET S /\ T \in SUBSET R
    OBVIOUS
  <2>4. T # {}
    BY <2>2, <2>3 DEF Sums
  <2> DEFINE U == T \ {First(T)}
  <2>5. /\ First(T) \in T /\ U \in SUBSET V /\ n \in Nat /\ n # 0
        /\ Cardinality(U) = n - 1
    BY <2>2, <2>3, <2>4, FirstFacts
  <2>6. g[T] = f[First(T)] + g[U] /\ h[T] = e[First(T)] + h[U]
    BY <2>3, <2>4 DEF Sums
  <2>7. g[U] # h[U]
    BY <2>2, <2>5, <2>6
  <2>8. n - 1 \in Bad
    BY <2>5, <2>7
  <2>9. ~(n <= n - 1)
    BY <2>5
  <2> HIDE DEF Bad
  <2> QED BY <2>1, <2>8, <2>9
<1>2. Cardinality(V) \in Nat
  BY FS_Subset, FS_CardinalityType
<1> QED BY <1>1, <1>2

\* SumFunctionOnSet solves the recursion.
LEMMA SumSolves ==
  ASSUME NEW S, IsFiniteSet(S), NEW f, \A x \in S : f[x] \in Int
  PROVE  \E g \in [SUBSET S -> Int] : Sums(f, S, g) /\ SumFunctionOnSet(f, S) = g[S]
<1> DEFINE c == CHOOSE g : Sums(f, S, g)
<1>1. SumFunctionOnSet(f, S) = c[S]
  BY DEF SumFunctionOnSet, FoldFunctionOnSet, MapThenFoldSet, Sums, First
<1>2. PICK g \in [SUBSET S -> Int] : Sums(f, S, g)
  BY SumsExist
<1>3. Sums(f, S, c)
  BY <1>2
<1> HIDE DEF c
<1>4. c[S] = g[S]
  BY <1>2, <1>3, SumsAgree
<1> QED BY <1>1, <1>2, <1>4

\* A sum of integers is an integer.
LEMMA SumInt ==
  ASSUME NEW S, IsFiniteSet(S), NEW f, \A x \in S : f[x] \in Int
  PROVE  SumFunctionOnSet(f, S) \in Int
<1>1. PICK g \in [SUBSET S -> Int] : Sums(f, S, g) /\ SumFunctionOnSet(f, S) = g[S]
  BY SumSolves
<1>2. g[S] \in Int
  OBVIOUS
<1> QED BY <1>1, <1>2

\* Sums of functions that agree on the set agree.
LEMMA SumSame ==
  ASSUME NEW S, IsFiniteSet(S), NEW f, NEW e, \A x \in S : f[x] \in Int /\ e[x] = f[x]
  PROVE  SumFunctionOnSet(e, S) = SumFunctionOnSet(f, S)
<1>1. PICK g \in [SUBSET S -> Int] : Sums(f, S, g) /\ SumFunctionOnSet(f, S) = g[S]
  BY SumSolves
<1>2. PICK h \in [SUBSET S -> Int] : Sums(e, S, h) /\ SumFunctionOnSet(e, S) = h[S]
  BY SumSolves
<1>3. h[S] = g[S]
  BY <1>1, <1>2, SumsAgree
<1> QED BY <1>1, <1>2, <1>3

\* Nothing sums up to zero.
LEMMA SumEmpty ==
  ASSUME NEW f
  PROVE  SumFunctionOnSet(f, {}) = 0
<1>1. PICK g \in [SUBSET {} -> Int] : Sums(f, {}, g) /\ SumFunctionOnSet(f, {}) = g[{}]
  BY SumSolves, FS_EmptySet
<1> QED BY <1>1 DEF Sums

\* The first element can be taken out of a sum.
LEMMA SumFirst ==
  ASSUME NEW S, IsFiniteSet(S), NEW f, \A x \in S : f[x] \in Int, S # {}
  PROVE  SumFunctionOnSet(f, S) = f[First(S)] + SumFunctionOnSet(f, S \ {First(S)})
<1> DEFINE U == S \ {First(S)}
<1>1. PICK g \in [SUBSET S -> Int] : Sums(f, S, g) /\ SumFunctionOnSet(f, S) = g[S]
  BY SumSolves
<1>2. IsFiniteSet(U) /\ \A x \in U : f[x] \in Int
  BY FS_Subset
<1>3. PICK h \in [SUBSET U -> Int] : Sums(f, U, h) /\ SumFunctionOnSet(f, U) = h[U]
  BY <1>2, SumSolves
<1>4. g[U] = h[U]
  BY <1>1, <1>2, <1>3, SumsAgree
<1>5. g[S] = f[First(S)] + g[U]
  BY <1>1 DEF Sums
<1> QED BY <1>1, <1>3, <1>4, <1>5

\* So can any other: the sum does not depend on the order.
THEOREM SumTakeOut ==
  ASSUME NEW S, IsFiniteSet(S), NEW f, \A x \in S : f[x] \in Int, NEW a \in S
  PROVE  SumFunctionOnSet(f, S) = f[a] + SumFunctionOnSet(f, S \ {a})
<1> DEFINE Sum(T) == SumFunctionOnSet(f, T)
           Bad == {n \in Nat : \E T \in SUBSET S : \E x \in T :
                                 Cardinality(T) = n /\ Sum(T) # f[x] + Sum(T \ {x})}
<1>0. \A T \in SUBSET S : IsFiniteSet(T) /\ Cardinality(T) \in Nat /\ Sum(T) \in Int
  <2> TAKE T \in SUBSET S
  <2>1. IsFiniteSet(T) /\ Cardinality(T) \in Nat
    BY FS_Subset, FS_CardinalityType
  <2> QED BY <2>1, SumInt
<1>1. Bad = {}
  <2> SUFFICES ASSUME Bad # {} PROVE FALSE
    OBVIOUS
  <2>1. PICK n \in Bad : \A m \in Bad : n <= m
    BY LeastNatural
  <2>a. PICK T \in SUBSET S :
          \E x \in T : Cardinality(T) = n /\ Sum(T) # f[x] + Sum(T \ {x})
    OBVIOUS
  <2>2. PICK x \in T : Cardinality(T) = n /\ Sum(T) # f[x] + Sum(T \ {x})
    BY <2>a
  <2> DEFINE p == First(T)
             U == T \ {p}
             W == T \ {x}
             Z == (T \ {x}) \ {p}
  <2>3. /\ p \in T /\ U \in SUBSET S /\ n \in Nat /\ n # 0 /\ IsFiniteSet(T)
        /\ Cardinality(U) = n - 1
    BY <2>2, FirstFacts
  <2>4. Sum(T) = f[p] + Sum(U)
    BY <2>3, SumFirst
  <2>5. p # x
    BY <2>2, <2>4
  <2>6. Cardinality(W) = n - 1 /\ W \in SUBSET S /\ p \in W /\ x \in U
    BY <2>2, <2>3, <2>5, FS_RemoveElement
  <2>7. n - 1 \in Nat /\ n - 1 \notin Bad
    <3>1. n - 1 \in Nat /\ ~(n <= n - 1)
      BY <2>3
    <3> HIDE DEF Bad
    <3> QED BY <2>1, <3>1
  <2>8. Z = U \ {x} /\ Z \in SUBSET S
    OBVIOUS
  <2> HIDE DEF p, U, W, Z
  <2>9. Sum(U) = f[x] + Sum(U \ {x})
    BY <2>3, <2>6, <2>7
  <2>10. Sum(W) = f[p] + Sum(W \ {p})
    BY <2>6, <2>7
  <2>11. W \ {p} = Z
    BY DEF W, Z
  <2>12. f[p] \in Int /\ f[x] \in Int /\ Sum(Z) \in Int /\ x \in S /\ p \in S
    BY <1>0, <2>3, <2>8
  <2> HIDE DEF Sum, Bad
  <2>13. Sum(T) = f[p] + (f[x] + Sum(Z)) /\ Sum(W) = f[p] + Sum(Z)
    BY <2>4, <2>8, <2>9, <2>10, <2>11
  <2>14. Sum(T) = f[x] + Sum(W)
    BY <2>12, <2>13
  <2> QED BY <2>2, <2>14 DEF W
<1>2. Cardinality(S) \in Nat
  BY <1>0
<1> QED BY <1>1, <1>2

\* An element that is not in the set yet adds its value.
THEOREM SumInsert ==
  ASSUME NEW S, IsFiniteSet(S), NEW f, NEW a, a \notin S, \A x \in S \cup {a} : f[x] \in Int
  PROVE  SumFunctionOnSet(f, S \cup {a}) = SumFunctionOnSet(f, S) + f[a]
<1>1. IsFiniteSet(S \cup {a}) /\ (S \cup {a}) \ {a} = S
  BY FS_AddElement
<1>2. SumFunctionOnSet(f, S) \in Int /\ f[a] \in Int
  BY SumInt
<1>3. SumFunctionOnSet(f, S \cup {a}) = f[a] + SumFunctionOnSet(f, S)
  BY <1>1, SumTakeOut
<1> QED BY <1>2, <1>3

\* When one value changes, the sum changes by as much.
THEOREM SumChange ==
  ASSUME NEW S, IsFiniteSet(S), NEW f, NEW e, NEW a \in S,
         \A x \in S : f[x] \in Int /\ e[x] \in Int,
         \A x \in S \ {a} : e[x] = f[x]
  PROVE  /\ SumFunctionOnSet(e, S) = SumFunctionOnSet(f, S) + e[a] - f[a]
         /\ SumFunctionOnSet(e, S) \in Int /\ SumFunctionOnSet(f, S) \in Int
<1> DEFINE U == S \ {a}
<1>1. IsFiniteSet(U)
  BY FS_RemoveElement
<1>2. SumFunctionOnSet(e, U) = SumFunctionOnSet(f, U) /\ SumFunctionOnSet(f, U) \in Int
  BY <1>1, SumSame, SumInt
<1>3. SumFunctionOnSet(f, S) = f[a] + SumFunctionOnSet(f, U)
  BY SumTakeOut
<1>4. SumFunctionOnSet(e, S) = e[a] + SumFunctionOnSet(e, U)
  BY SumTakeOut
<1>5. e[a] \in Int /\ f[a] \in Int
  OBVIOUS
<1>6. SumFunctionOnSet(e, S) \in Int /\ SumFunctionOnSet(f, S) \in Int
  BY SumInt
<1> QED BY <1>2, <1>3, <1>4, <1>5, <1>6

\* What moves from one element to another leaves the sum as it is.
THEOREM SumMove ==
  ASSUME NEW S, IsFiniteSet(S), NEW f, NEW e, NEW a \in S, NEW b \in S, a # b,
         \A x \in S : f[x] \in Int /\ e[x] \in Int,
         \A x \in S \ {a, b} : e[x] = f[x], e[a] + e[b] = f[a] + f[b]
  PROVE  SumFunctionOnSet(e, S) = SumFunctionOnSet(f, S)
<1> DEFINE m == [x \in S |-> IF x = a THEN e[a] ELSE f[x]]
<1>1. /\ \A x \in S : m[x] \in Int
      /\ \A x \in S \ {a} : m[x] = f[x]
      /\ \A x \in S \ {b} : e[x] = m[x]
      /\ m[a] = e[a] /\ m[b] = f[b]
  OBVIOUS
<1> HIDE DEF m
<1>2. /\ SumFunctionOnSet(m, S) = SumFunctionOnSet(f, S) + m[a] - f[a]
      /\ SumFunctionOnSet(f, S) \in Int
  BY <1>1, SumChange
<1>3. SumFunctionOnSet(e, S) = SumFunctionOnSet(m, S) + e[b] - m[b]
  <2>1. \A x \in S : m[x] \in Int /\ e[x] \in Int
    BY <1>1
  <2>2. \A x \in S \ {b} : e[x] = m[x]
    BY <1>1
  <2> QED BY <2>1, <2>2, SumChange
<1>4. f[a] \in Int /\ f[b] \in Int /\ e[a] \in Int /\ e[b] \in Int
  OBVIOUS
<1> QED BY <1>1, <1>2, <1>3, <1>4

\* Zeros sum up to zero.
THEOREM SumZero ==
  ASSUME NEW S, IsFiniteSet(S), NEW f, \A x \in S : f[x] = 0
  PROVE  SumFunctionOnSet(f, S) = 0
<1> DEFINE z == [s \in SUBSET S |-> 0]
<1>1. PICK g \in [SUBSET S -> Int] : Sums(f, S, g) /\ SumFunctionOnSet(f, S) = g[S]
  <2>1. \A x \in S : f[x] \in Int
    OBVIOUS
  <2> QED BY <2>1, SumSolves
<1>2. Sums(f, S, z)
  <2>1. \A s \in SUBSET S : s # {} => First(s) \in S /\ s \ {First(s)} \in SUBSET S
    BY FirstFacts
  <2> QED BY <2>1 DEF Sums
<1>3. z[S] = g[S]
  BY <1>1, <1>2, SumsAgree
<1> QED BY <1>1, <1>3

\* Natural numbers add up to a natural number.
THEOREM SumNatural ==
  ASSUME NEW S, IsFiniteSet(S), NEW f, \A x \in S : f[x] \in Nat
  PROVE  SumFunctionOnSet(f, S) \in Nat
<1> DEFINE Sum(T) == SumFunctionOnSet(f, T)
           Bad == {n \in Nat : \E T \in SUBSET S : Cardinality(T) = n /\ Sum(T) \notin Nat}
<1>0. \A T \in SUBSET S : IsFiniteSet(T) /\ Cardinality(T) \in Nat
  BY FS_Subset, FS_CardinalityType
<1>1. Bad = {}
  <2> SUFFICES ASSUME Bad # {} PROVE FALSE
    OBVIOUS
  <2>1. PICK n \in Bad : \A m \in Bad : n <= m
    BY LeastNatural
  <2>2. PICK T \in SUBSET S : Cardinality(T) = n /\ Sum(T) \notin Nat
    OBVIOUS
  <2>3. T # {}
    BY <2>2, SumEmpty
  <2> DEFINE p == First(T)
             U == T \ {p}
  <2>4. /\ p \in T /\ U \in SUBSET S /\ n \in Nat /\ n # 0 /\ IsFiniteSet(T)
        /\ Cardinality(U) = n - 1
    BY <2>2, <2>3, FirstFacts
  <2>5. Sum(T) = f[p] + Sum(U)
    <3>1. \A x \in T : f[x] \in Int
      OBVIOUS
    <3> QED BY <2>3, <2>4, <3>1, SumFirst
  <2>6. n - 1 \in Nat /\ n - 1 \notin Bad
    <3>1. n - 1 \in Nat /\ ~(n <= n - 1)
      BY <2>4
    <3> HIDE DEF Bad
    <3> QED BY <2>1, <3>1
  <2> HIDE DEF p, U
  <2>7. Sum(U) \in Nat /\ f[p] \in Nat
    BY <2>4, <2>6
  <2> HIDE DEF Sum, Bad
  <2> QED BY <2>2, <2>5, <2>7
<1>2. Cardinality(S) \in Nat
  BY <1>0
<1> QED BY <1>1, <1>2
============================================================================

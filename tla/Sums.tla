------------------------------- MODULE Sums --------------------------------
(***************************************************************************)
(* What SumFunctionOnSet of the community modules computes: a sum that     *)
(* does not depend on the order in which its recursion takes the elements, *)
(* so that one element more, or one value changed, adds what it should.    *)
(***************************************************************************)
EXTENDS Functions, Integers, NaturalsInduction, WellFoundedInduction, FiniteSetTheorems, TLAPS

\* Induction over a set of naturals: the theorem with an operator as its
\* parameter is replaced by one about a set, from the least element of the rest.
LEMMA SetInduction ==
    ASSUME NEW S, 0 \in S, \A n \in Nat : n \in S => n + 1 \in S
    PROVE  Nat \subseteq S
<1> DEFINE T == Nat \ S
<1> SUFFICES ASSUME T # {} PROVE FALSE
  OBVIOUS
<1>1. PICK m \in T : \A n \in T : ~(<<n, m>> \in OpToRel(<, Nat))
  BY NatLessThanWellFounded, WFMin
<1>2. \A n \in T : ~(n < m)
  BY <1>1 DEF OpToRel
<1>3. m - 1 \in Nat /\ m - 1 \notin T /\ m = (m - 1) + 1
  BY <1>2
<1> QED BY <1>1, <1>3

\* The recursion of SumFunctionOnSet(g, D), as an equation for its function.
Adds(it, g, D) ==
    it = [s \in SUBSET D |-> IF s = {} THEN 0
                             ELSE g[CHOOSE x \in s : TRUE] + it[s \ {CHOOSE x \in s : TRUE}]]

LEMMA SumIsAdded ==
    ASSUME NEW g, NEW D
    PROVE  SumFunctionOnSet(g, D) = (CHOOSE it : Adds(it, g, D))[D]
BY DEF SumFunctionOnSet, FoldFunctionOnSet, MapThenFoldSet, Adds
-----------------------------------------------------------------------------
(* The equation has a solution over a finite set.                           *)

Least(D, n) == {s \in SUBSET D : Cardinality(s) <= n}
AddsUpTo(it, g, D, n) ==
    /\ it \in [Least(D, n) -> Int]
    /\ \A s \in Least(D, n) :
          it[s] = IF s = {} THEN 0
                  ELSE g[CHOOSE x \in s : TRUE] + it[s \ {CHOOSE x \in s : TRUE}]

\* An element less leaves a smaller set.
LEMMA OneLess ==
    ASSUME NEW D, IsFiniteSet(D), NEW s \in SUBSET D, NEW x \in s
    PROVE  /\ IsFiniteSet(s) /\ s \ {x} \in SUBSET D /\ s = (s \ {x}) \cup {x}
           /\ Cardinality(s) \in Nat /\ Cardinality(s \ {x}) = Cardinality(s) - 1
           /\ Cardinality(s) > 0
<1>1. IsFiniteSet(s)
  BY FS_Subset
<1>2. Cardinality(s) \in Nat /\ Cardinality(s \ {x}) = Cardinality(s) - 1
  BY <1>1, FS_RemoveElement, FS_CardinalityType
<1>3. Cardinality(s \ {x}) \in Nat
  BY <1>1, FS_Subset, FS_CardinalityType
<1> QED BY <1>1, <1>2, <1>3

LEMMA SolutionUpTo ==
    ASSUME NEW D, IsFiniteSet(D), NEW g, \A y \in D : g[y] \in Int, NEW n \in Nat
    PROVE  \E it : AddsUpTo(it, g, D, n)
<1> DEFINE S == {k \in Nat : \E it : AddsUpTo(it, g, D, k)}
<1>1. 0 \in S
  <2> DEFINE it0 == [s \in Least(D, 0) |-> 0]
  <2>1. \A s \in Least(D, 0) : s = {}
    <3> SUFFICES ASSUME NEW s \in Least(D, 0), s # {} PROVE FALSE
      OBVIOUS
    <3>1. PICK x \in s : TRUE
      OBVIOUS
    <3>2. s \in SUBSET D /\ Cardinality(s) <= 0
      BY DEF Least
    <3>3. Cardinality(s) \in Nat /\ Cardinality(s) > 0
      BY <3>1, <3>2, OneLess
    <3> QED BY <3>2, <3>3
  <2>2. AddsUpTo(it0, g, D, 0)
    BY <2>1 DEF AddsUpTo
  <2> QED BY <2>2
<1>2. ASSUME NEW k \in Nat, k \in S PROVE k + 1 \in S
  <2>1. PICK it : AddsUpTo(it, g, D, k)
    BY <1>2
  <2> DEFINE Value(s) == IF s = {} THEN 0
                         ELSE g[CHOOSE x \in s : TRUE] + it[s \ {CHOOSE x \in s : TRUE}]
             jt == [s \in Least(D, k + 1) |-> Value(s)]
  <2>2. ASSUME NEW s \in Least(D, k + 1), s # {}
        PROVE  /\ (CHOOSE x \in s : TRUE) \in s
               /\ s \ {CHOOSE x \in s : TRUE} \in Least(D, k)
    <3>1. (CHOOSE x \in s : TRUE) \in s
      BY <2>2
    <3>2. PICK y \in s : y = (CHOOSE x \in s : TRUE)
      BY <3>1
    <3>3. s \in SUBSET D /\ Cardinality(s) <= k + 1
      BY <2>2 DEF Least
    <3>4. /\ s \ {y} \in SUBSET D /\ Cardinality(s) \in Nat
          /\ Cardinality(s \ {y}) = Cardinality(s) - 1
      BY <3>2, <3>3, OneLess
    <3>5. s \ {y} \in Least(D, k)
      BY <3>3, <3>4 DEF Least
    <3> QED BY <3>2, <3>5
  <2>3. \A s \in Least(D, k) : s \in Least(D, k + 1) /\ jt[s] = it[s]
    <3> SUFFICES ASSUME NEW s \in Least(D, k) PROVE s \in Least(D, k + 1) /\ jt[s] = it[s]
      OBVIOUS
    <3>1. s \in Least(D, k + 1)
      <4>1. Cardinality(s) \in Nat
        BY FS_Subset, FS_CardinalityType DEF Least
      <4> QED BY <4>1 DEF Least
    <3> QED BY <3>1, <2>1 DEF AddsUpTo
  <2>4. jt \in [Least(D, k + 1) -> Int]
    <3> SUFFICES ASSUME NEW s \in Least(D, k + 1) PROVE Value(s) \in Int
      OBVIOUS
    <3>1. CASE s = {}
      BY <3>1
    <3>2. CASE s # {}
      <4>1. it[s \ {CHOOSE x \in s : TRUE}] \in Int
        BY <2>1, <2>2, <3>2 DEF AddsUpTo
      <4>2. g[CHOOSE x \in s : TRUE] \in Int
        BY <2>2, <3>2 DEF Least
      <4> QED BY <4>1, <4>2
    <3> QED BY <3>1, <3>2
  <2>5. \A s \in Least(D, k + 1) :
           jt[s] = IF s = {} THEN 0
                   ELSE g[CHOOSE x \in s : TRUE] + jt[s \ {CHOOSE x \in s : TRUE}]
    <3> SUFFICES ASSUME NEW s \in Least(D, k + 1)
                 PROVE  jt[s] = IF s = {} THEN 0
                                ELSE g[CHOOSE x \in s : TRUE] + jt[s \ {CHOOSE x \in s : TRUE}]
      OBVIOUS
    <3>1. jt[s] = Value(s)
      OBVIOUS
    <3>2. CASE s = {}
      BY <3>1, <3>2
    <3>3. CASE s # {}
      <4>1. jt[s \ {CHOOSE x \in s : TRUE}] = it[s \ {CHOOSE x \in s : TRUE}]
        BY <2>2, <2>3, <3>3
      <4> QED BY <3>1, <3>3, <4>1
    <3> QED BY <3>2, <3>3
  <2>6. AddsUpTo(jt, g, D, k + 1)
    BY <2>4, <2>5 DEF AddsUpTo
  <2> QED BY <2>6
<1> HIDE DEF S
<1>3. n \in S
  BY <1>1, <1>2, SetInduction
<1> QED BY <1>3 DEF S

LEMMA Solution ==
    ASSUME NEW D, IsFiniteSet(D), NEW g, \A y \in D : g[y] \in Int
    PROVE  \E it \in [SUBSET D -> Int] : Adds(it, g, D)
<1>1. Cardinality(D) \in Nat
  BY FS_CardinalityType
<1>2. PICK it : AddsUpTo(it, g, D, Cardinality(D))
  BY <1>1, SolutionUpTo
<1>3. Least(D, Cardinality(D)) = SUBSET D
  BY FS_Subset DEF Least
<1>4. /\ it \in [SUBSET D -> Int]
      /\ \A s \in SUBSET D :
            it[s] = IF s = {} THEN 0
                    ELSE g[CHOOSE x \in s : TRUE] + it[s \ {CHOOSE x \in s : TRUE}]
  BY <1>2, <1>3 DEF AddsUpTo
<1>5. Adds(it, g, D)
  BY <1>4, Zenon DEF Adds
<1> QED BY <1>4, <1>5
-----------------------------------------------------------------------------
(* It has one solution, and the order of the elements makes no difference.  *)

LEMMA Unfolded ==
    ASSUME NEW g, NEW D, NEW it, Adds(it, g, D), NEW s \in SUBSET D
    PROVE  /\ s = {} => it[s] = 0
           /\ s # {} => \E x \in s : /\ x = (CHOOSE y \in s : TRUE)
                                     /\ it[s] = g[x] + it[s \ {x}]
<1>1. it[s] = IF s = {} THEN 0
              ELSE g[CHOOSE x \in s : TRUE] + it[s \ {CHOOSE x \in s : TRUE}]
  BY Zenon DEF Adds
<1> QED BY <1>1

LEMMA OneSolution ==
    ASSUME NEW D, NEW E, IsFiniteSet(D), NEW g, NEW h, NEW it, NEW jt,
           Adds(it, g, D), Adds(jt, h, E),
           NEW r \in SUBSET (D \cap E), \A x \in r : g[x] = h[x]
    PROVE  it[r] = jt[r]
<1> DEFINE S == {n \in Nat : \A s \in SUBSET r : Cardinality(s) <= n => it[s] = jt[s]}
<1>1. 0 \in S
  <2> SUFFICES ASSUME NEW s \in SUBSET r, Cardinality(s) <= 0 PROVE it[s] = jt[s]
    OBVIOUS
  <2>1. s = {}
    <3> SUFFICES ASSUME NEW x \in s PROVE FALSE
      OBVIOUS
    <3>1. s \in SUBSET D
      OBVIOUS
    <3>2. Cardinality(s) \in Nat /\ Cardinality(s) > 0
      BY <3>1, OneLess
    <3> QED BY <3>2
  <2> QED BY <2>1, Unfolded
<1>2. ASSUME NEW n \in Nat, n \in S PROVE n + 1 \in S
  <2> SUFFICES ASSUME NEW s \in SUBSET r, Cardinality(s) <= n + 1 PROVE it[s] = jt[s]
    OBVIOUS
  <2>0. s \in SUBSET D /\ s \in SUBSET E
    OBVIOUS
  <2>1. CASE s = {}
    BY <2>0, <2>1, Unfolded
  <2>2. CASE s # {}
    <3>1. PICK x \in s : x = (CHOOSE y \in s : TRUE) /\ it[s] = g[x] + it[s \ {x}]
      BY <2>0, <2>2, Unfolded
    <3>2. PICK w \in s : w = (CHOOSE y \in s : TRUE) /\ jt[s] = h[w] + jt[s \ {w}]
      BY <2>0, <2>2, Unfolded
    <3>0. w = x
      BY <3>1, <3>2, Zenon
    <3>3. s \ {x} \in SUBSET r /\ Cardinality(s \ {x}) <= n
      BY <2>0, OneLess
    <3>4. it[s \ {x}] = jt[s \ {x}]
      BY <1>2, <3>3
    <3> QED BY <3>1, <3>2, <3>0, <3>4
  <2> QED BY <2>1, <2>2
<1>3. IsFiniteSet(r) /\ Cardinality(r) \in Nat
  BY FS_Subset, FS_CardinalityType
<1> HIDE DEF S
<1>4. Cardinality(r) \in S
  BY <1>1, <1>2, <1>3, SetInduction
<1> QED BY <1>3, <1>4 DEF S

\* Taking z out of the set takes its value out of the sum.
TakesOut(it, g, r, z) == it[r] = g[z] + it[r \ {z}]

LEMMA AnyOrder ==
    ASSUME NEW D, IsFiniteSet(D), NEW g, \A y \in D : g[y] \in Int, NEW it \in [SUBSET D -> Int],
           Adds(it, g, D), NEW r \in SUBSET D, NEW z \in r
    PROVE  TakesOut(it, g, r, z)
<1> DEFINE S == {n \in Nat : \A s \in SUBSET r : Cardinality(s) <= n =>
                                \A x \in s : it[s] = g[x] + it[s \ {x}]}
<1>1. 0 \in S
  <2> SUFFICES ASSUME NEW s \in SUBSET r, Cardinality(s) <= 0, NEW x \in s PROVE FALSE
    OBVIOUS
  <2>1. s \in SUBSET D
    OBVIOUS
  <2>2. Cardinality(s) \in Nat /\ Cardinality(s) > 0
    BY <2>1, OneLess
  <2> QED BY <2>2
<1>2. ASSUME NEW n \in Nat, n \in S PROVE n + 1 \in S
  <2> SUFFICES ASSUME NEW s \in SUBSET r, Cardinality(s) <= n + 1, NEW x \in s
               PROVE  it[s] = g[x] + it[s \ {x}]
    OBVIOUS
  <2>0. s \in SUBSET D
    OBVIOUS
  <2>1. PICK y \in s : it[s] = g[y] + it[s \ {y}]
    BY <2>0, Unfolded
  <2>2. CASE x = y
    BY <2>1, <2>2
  <2>3. CASE x # y
    <3>1. /\ Cardinality(s \ {x}) <= n /\ s \ {x} \in SUBSET r /\ y \in s \ {x}
          /\ Cardinality(s \ {y}) <= n /\ s \ {y} \in SUBSET r /\ x \in s \ {y}
      BY <2>0, <2>3, OneLess
    <3>2. it[s \ {x}] = g[y] + it[(s \ {x}) \ {y}]
      BY <1>2, <3>1
    <3>3. it[s \ {y}] = g[x] + it[(s \ {y}) \ {x}]
      BY <1>2, <3>1
    <3>4. (s \ {y}) \ {x} = (s \ {x}) \ {y} /\ (s \ {x}) \ {y} \in SUBSET D
      BY <2>0
    <3>5. g[x] \in Int /\ g[y] \in Int /\ it[(s \ {x}) \ {y}] \in Int
      BY <2>0, <3>4
    <3>6. it[s] = g[y] + (g[x] + it[(s \ {x}) \ {y}])
      BY <2>1, <3>3, <3>4
    <3>7. ASSUME NEW a \in Int, NEW b \in Int, NEW k \in Int PROVE b + (a + k) = a + (b + k)
      OBVIOUS
    <3> QED BY <3>2, <3>5, <3>6, <3>7
  <2> QED BY <2>2, <2>3
<1>3. IsFiniteSet(r) /\ Cardinality(r) \in Nat
  BY FS_Subset, FS_CardinalityType
<1> HIDE DEF S
<1>4. Cardinality(r) \in S
  BY <1>1, <1>2, <1>3, SetInduction
<1> QED BY <1>3, <1>4 DEF S, TakesOut

-----------------------------------------------------------------------------
(* What SumFunctionOnSet computes.                                          *)

LEMMA SumSolves ==
    ASSUME NEW D, IsFiniteSet(D), NEW g, \A y \in D : g[y] \in Int
    PROVE  \E it \in [SUBSET D -> Int] : Adds(it, g, D) /\ SumFunctionOnSet(g, D) = it[D]
<1>1. PICK it \in [SUBSET D -> Int] : Adds(it, g, D)
  BY Solution
<1> DEFINE jt == CHOOSE f : Adds(f, g, D)
<1>2. Adds(jt, g, D)
  BY <1>1
<1> HIDE DEF jt
<1>3. it[D] = jt[D]
  BY <1>1, <1>2, OneSolution
<1> QED BY <1>1, <1>3, SumIsAdded DEF jt

THEOREM SumOfNone ==
    ASSUME NEW g PROVE SumFunctionOnSet(g, {}) = 0
<1> DEFINE it0 == [s \in SUBSET {} |-> 0]
           jt == CHOOSE it : Adds(it, g, {})
<1>1. Adds(it0, g, {})
  BY DEF Adds
<1>2. Adds(jt, g, {})
  BY <1>1
<1> HIDE DEF jt
<1>3. jt[{}] = 0
  BY <1>2, Unfolded
<1> QED BY <1>3, SumIsAdded DEF jt
\* The sum over a set, as far as it is defined, is a number.
THEOREM SumType ==
    ASSUME NEW D, IsFiniteSet(D), NEW g, \A y \in D : g[y] \in Int
    PROVE  SumFunctionOnSet(g, D) \in Int
<1>1. \E it \in [SUBSET D -> Int] : SumFunctionOnSet(g, D) = it[D]
  BY SumSolves
<1> QED BY <1>1

\* Taking any one element out takes its value out of the sum.
THEOREM SumOfOneLess ==
    ASSUME NEW D, IsFiniteSet(D), NEW g, \A y \in D : g[y] \in Int,
           NEW x \in D, NEW E, E = D \ {x}
    PROVE  SumFunctionOnSet(g, D) = g[x] + SumFunctionOnSet(g, E)
<1>1. IsFiniteSet(E) /\ E \in SUBSET (D \cap E) /\ \A y \in E : g[y] \in Int
  BY FS_RemoveElement
<1>2. PICK it \in [SUBSET D -> Int] : Adds(it, g, D) /\ SumFunctionOnSet(g, D) = it[D]
  BY SumSolves
<1>3. it[D] = g[x] + it[E]
  <2>1. D \in SUBSET D
    OBVIOUS
  <2>2. TakesOut(it, g, D, x)
    BY <1>2, <2>1, AnyOrder
  <2> QED BY <2>2 DEF TakesOut
<1>4. PICK jt \in [SUBSET E -> Int] : Adds(jt, g, E) /\ SumFunctionOnSet(g, E) = jt[E]
  BY <1>1, SumSolves
<1>5. it[E] = jt[E]
  BY <1>1, <1>2, <1>4, OneSolution
<1> QED BY <1>2, <1>3, <1>4, <1>5

\* An element more adds its value, wherever the recursion finds it.
THEOREM SumOfOneMore ==
    ASSUME NEW D, IsFiniteSet(D), NEW x, x \notin D,
           NEW E, E = D \cup {x}, NEW g, \A y \in E : g[y] \in Int
    PROVE  SumFunctionOnSet(g, E) = g[x] + SumFunctionOnSet(g, D)
<1>1. IsFiniteSet(E) /\ E \ {x} = D /\ x \in E /\ \A y \in E : g[y] \in Int
  BY FS_AddElement
<1>2. SumFunctionOnSet(g, E) = g[x] + SumFunctionOnSet(g, D)
  BY <1>1, SumOfOneLess
<1> QED BY <1>2

\* Only the values over the set count.
THEOREM SumOfSame ==
    ASSUME NEW D, IsFiniteSet(D), NEW g, \A y \in D : g[y] \in Int,
           NEW h, \A y \in D : g[y] = h[y]
    PROVE  SumFunctionOnSet(g, D) = SumFunctionOnSet(h, D)
<1>1. \E it \in [SUBSET D -> Int] : Adds(it, g, D) /\ SumFunctionOnSet(g, D) = it[D]
  BY SumSolves
<1>2. \E jt \in [SUBSET D -> Int] : Adds(jt, h, D) /\ SumFunctionOnSet(h, D) = jt[D]
  BY SumSolves
<1> QED BY <1>1, <1>2, OneSolution

\* One value changed changes the sum by as much.
THEOREM SumOfChanged ==
    ASSUME NEW D, IsFiniteSet(D), NEW g, \A y \in D : g[y] \in Int, NEW x \in D,
           NEW h, NEW d \in Int, h[x] = g[x] + d, \A y \in D \ {x} : h[y] = g[y]
    PROVE  SumFunctionOnSet(h, D) = SumFunctionOnSet(g, D) + d
<1> DEFINE E == D \ {x}
<1>1. IsFiniteSet(E) /\ D = E \cup {x} /\ x \notin E /\ E \subseteq D /\ \A y \in E : h[y] = g[y]
  BY FS_RemoveElement
<1> HIDE DEF E
<1>2. SumFunctionOnSet(g, D) = g[x] + SumFunctionOnSet(g, E)
  BY <1>1, SumOfOneMore
<1>3. \A y \in D : h[y] \in Int
  BY <1>1
<1>4. SumFunctionOnSet(h, D) = h[x] + SumFunctionOnSet(h, E)
  BY <1>1, <1>3, SumOfOneMore
<1>5. SumFunctionOnSet(g, E) = SumFunctionOnSet(h, E) /\ SumFunctionOnSet(g, E) \in Int
  BY <1>1, SumOfSame, SumType
<1> QED BY <1>2, <1>4, <1>5

\* The sum of what two functions add up to is the sum of both.
THEOREM SumOfBoth ==
    ASSUME NEW D, IsFiniteSet(D), NEW g, NEW h, NEW f,
           \A y \in D : g[y] \in Int /\ h[y] \in Int /\ f[y] = g[y] + h[y]
    PROVE  SumFunctionOnSet(f, D) = SumFunctionOnSet(g, D) + SumFunctionOnSet(h, D)
<1> DEFINE S == {n \in Nat : \A s \in SUBSET D : Cardinality(s) <= n =>
                   SumFunctionOnSet(f, s) = SumFunctionOnSet(g, s) + SumFunctionOnSet(h, s)}
<1>1. 0 \in S
  <2> SUFFICES ASSUME NEW s \in SUBSET D, Cardinality(s) <= 0
               PROVE  SumFunctionOnSet(f, s) = SumFunctionOnSet(g, s) + SumFunctionOnSet(h, s)
    OBVIOUS
  <2>1. s = {}
    <3> SUFFICES ASSUME NEW x \in s PROVE FALSE
      OBVIOUS
    <3>1. Cardinality(s) \in Nat /\ Cardinality(s) > 0
      BY OneLess
    <3> QED BY <3>1
  <2>2. /\ SumFunctionOnSet(f, s) = 0 /\ SumFunctionOnSet(g, s) = 0
        /\ SumFunctionOnSet(h, s) = 0
    BY <2>1, SumOfNone
  <2> QED BY <2>2
<1>2. ASSUME NEW n \in Nat, n \in S PROVE n + 1 \in S
  <2> SUFFICES ASSUME NEW s \in SUBSET D, Cardinality(s) <= n + 1
               PROVE  SumFunctionOnSet(f, s) = SumFunctionOnSet(g, s) + SumFunctionOnSet(h, s)
    OBVIOUS
  <2>1. CASE s = {}
    <3>1. /\ SumFunctionOnSet(f, s) = 0 /\ SumFunctionOnSet(g, s) = 0
          /\ SumFunctionOnSet(h, s) = 0
      BY <2>1, SumOfNone
    <3> QED BY <3>1
  <2>2. CASE s # {}
    <3>1. PICK x \in s : TRUE
      BY <2>2
    <3>2. PICK r \in SUBSET D : r = s \ {x}
      OBVIOUS
    <3>3. IsFiniteSet(s) /\ IsFiniteSet(r) /\ Cardinality(r) <= n
      <4>1. /\ IsFiniteSet(s) /\ Cardinality(s) \in Nat
            /\ Cardinality(s \ {x}) = Cardinality(s) - 1
        BY <3>1, OneLess
      <4>2. IsFiniteSet(r)
        BY FS_Subset
      <4> QED BY <3>2, <4>1, <4>2
    <3>4. SumFunctionOnSet(f, r) = SumFunctionOnSet(g, r) + SumFunctionOnSet(h, r)
      BY <1>2, <3>3
    <3>5. SumFunctionOnSet(g, r) \in Int /\ SumFunctionOnSet(h, r) \in Int
      BY <3>3, SumType
    <3>6. \A y \in s : f[y] \in Int /\ g[y] \in Int /\ h[y] \in Int
      OBVIOUS
    <3>7. SumFunctionOnSet(g, s) = g[x] + SumFunctionOnSet(g, r)
      BY <3>1, <3>2, <3>3, <3>6, SumOfOneLess
    <3>8. SumFunctionOnSet(h, s) = h[x] + SumFunctionOnSet(h, r)
      BY <3>1, <3>2, <3>3, <3>6, SumOfOneLess
    <3>9. SumFunctionOnSet(f, s) = f[x] + SumFunctionOnSet(f, r)
      BY <3>1, <3>2, <3>3, <3>6, SumOfOneLess
    <3>10. g[x] \in Int /\ h[x] \in Int /\ f[x] = g[x] + h[x]
      BY <3>1
    <3> QED BY <3>4, <3>5, <3>7, <3>8, <3>9, <3>10
  <2> QED BY <2>1, <2>2
<1>3. Cardinality(D) \in Nat
  BY FS_CardinalityType
<1> HIDE DEF S
<1>4. Cardinality(D) \in S
  BY <1>1, <1>2, <1>3, SetInduction
<1> QED BY <1>3, <1>4 DEF S
=============================================================================

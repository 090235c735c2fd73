-------------------------- MODULE GraphWalkProofs --------------------------
(* The walks of GraphWalk stay within their scratch, visit what can be reached
   and, breadth first, find shortest paths, on graphs of any size.

   The operators here take a graph g as a value; Shape is that of a state.  *)
EXTENDS GraphWalk, FiniteSetTheorems, TLAPS

(***************************************************************************)
(* Numbers.                                                                *)
(***************************************************************************)
(* Division with remainder. *)
LEMMA DivMod ==
  ASSUME NEW M \in Nat \ {0}, NEW p \in Int
  PROVE  /\ p \div M \in Int
         /\ p % M \in 0 .. (M - 1)
         /\ p = M * (p \div M) + (p % M)
  OBVIOUS

(* A set of numbers that has a member has a least one. *)
LEMMA LeastNat ==
  ASSUME NEW T, T \subseteq Nat, T # {}
  PROVE  \E m \in T : \A k \in T : m <= k
<1> DEFINE R == {ss \in Nat \X Nat : ss[1] < ss[2]}
<1>1. IsWellFoundedOn(R, Nat)
  BY NatLessThanWellFounded, Zenon DEF OpToRel
<1>2. \A x, y \in Nat : y < x => <<y, x>> \in R
  OBVIOUS
<1> HIDE DEF R
<1>3. PICK x \in T : \A y \in T : ~(<<y, x>> \in R)
  BY <1>1, WFMin
<1>4. ASSUME NEW y \in T PROVE x <= y
  <2>1. x \in Nat /\ y \in Nat
    OBVIOUS
  <2>2. ~(y < x)
    BY <1>2, <1>3, <2>1
  <2> QED
    BY <2>1, <2>2
<1> QED
  BY <1>4

(* A set of numbers that is closed under the next one has them all. *)
LEMMA Induction ==
  ASSUME NEW B, B \subseteq Nat, 0 \in B, \A k \in B : k + 1 \in B
  PROVE  \A k \in Nat : k \in B
<1> DEFINE T == Nat \ B
<1> SUFFICES ASSUME T # {} PROVE FALSE
  OBVIOUS
<1>1. PICK m \in T : \A k \in T : m <= k
  BY LeastNat
<1>2. m \in Nat /\ m # 0
  OBVIOUS
<1>3. m - 1 \in Nat /\ m - 1 \notin T
  BY <1>1, <1>2
<1>4. m \in B
  BY <1>2, <1>3
<1> QED
  BY <1>4

(* A difference smaller than M either way is a multiple of M only when it is
   zero, and below zero it wraps to the top of the range.                   *)
LEMMA ModOfSmall ==
  ASSUME NEW M \in Nat \ {0}, NEW d \in Int, -M < d, d < M
  PROVE  d % M = IF d >= 0 THEN d ELSE d + M
<1>1. CASE d >= 0
  BY <1>1
<1>2. CASE d < 0
  BY <1>2
<1> QED
  BY <1>1, <1>2

Shape == [directed |-> directed, edges |-> edges]

Records == [out : Vertices, in : Vertices]

IsGraph(g) ==
  /\ g.directed \in BOOLEAN
  /\ \E n \in 0 .. MaxEdges : g.edges \in [0 .. n - 1 -> Records]

Lists == {"out", "in"}

(* The slots on list l of vertex v, and the far end of one. *)
On(g, l, v) == {e \in DOMAIN g.edges : g.edges[e][l] = v}

Far(g, l, e) == IF l = "out" THEN g.edges[e].in ELSE g.edges[e].out

Adjacent(g, v) ==
  {Far(g, "out", e) : e \in On(g, "out", v)} \cup
  (IF g.directed THEN {} ELSE {Far(g, "in", e) : e \in On(g, "in", v)})

(* A place on a list: one of its slots, or its end. *)
Place(g, l, v, e) == e = NoIndex \/ e \in On(g, l, v)

(* The list up to a place leads only into S. *)
Scanned(g, S, l, v, e) == \A f \in On(g, l, v) : f < e => Far(g, l, f) \in S

(***************************************************************************)
(* Lists.                                                                  *)
(***************************************************************************)
LEMMA GraphFacts ==
  ASSUME NEW g, IsGraph(g)
  PROVE  /\ \A e \in DOMAIN g.edges : e \in Nat /\ e < MaxCapacity /\ e < NoIndex /\ e # NoIndex
         /\ \A e \in DOMAIN g.edges : \A l \in Lists : g.edges[e][l] \in Vertices /\ Far(g, l, e) \in Vertices
         /\ \A v : \A l \in Lists : \A e \in On(g, l, v) : e \in DOMAIN g.edges /\ g.edges[e][l] = v
         /\ NoIndex \in Nat /\ NoIndex \notin DOMAIN g.edges
<1>1. PICK n \in 0 .. MaxEdges : g.edges \in [0 .. n - 1 -> Records]
  BY DEF IsGraph
<1>2. \A e \in DOMAIN g.edges : e \in Nat /\ e < MaxCapacity /\ e < NoIndex /\ e # NoIndex
  BY <1>1, WalkAssumption DEF NoIndex, CursorIn
<1>3. \A e \in DOMAIN g.edges : g.edges[e] \in Records
  BY <1>1
<1>4. \A e \in DOMAIN g.edges : \A l \in Lists : g.edges[e][l] \in Vertices /\ Far(g, l, e) \in Vertices
  BY <1>3 DEF Records, Lists, Far
<1> QED
  BY <1>2, <1>4, WalkAssumption DEF On, NoIndex, CursorIn

LEMMA LowestFacts ==
  ASSUME NEW S, S \subseteq Nat
  PROVE  /\ S = {} => LowestOf(S) = NoIndex
         /\ S # {} => LowestOf(S) \in S /\ \A e \in S : LowestOf(S) <= e
<1>1. CASE S = {}
  BY <1>1 DEF LowestOf
<1>2. CASE S # {}
  <2>1. \E m \in S : \A k \in S : m <= k
    BY <1>2, LeastNat
  <2> QED
    BY <1>2, <2>1 DEF LowestOf
<1> QED
  BY <1>1, <1>2

(* The lowest slot of a part of a list is a place of it, and passes over none
   of the part.                                                             *)
LEMMA LowestOnList ==
  ASSUME NEW g, IsGraph(g), NEW l \in Lists, NEW v, NEW S, S \subseteq On(g, l, v)
  PROVE  Place(g, l, v, LowestOf(S)) /\ \A e \in S : LowestOf(S) <= e
<1>1. \A e \in On(g, l, v) : e \in Nat
  BY GraphFacts
<1>2. S \subseteq Nat
  BY <1>1
<1>3. CASE S = {}
  BY <1>2, <1>3, LowestFacts DEF Place
<1>4. CASE S # {}
  BY <1>2, <1>4, LowestFacts DEF Place
<1> QED
  BY <1>3, <1>4

LEMMA HeadFacts ==
  ASSUME IsGraph(Shape), NEW l \in Lists, NEW v, NEW S
  PROVE  Place(Shape, l, v, HeadOf(l, v)) /\ Scanned(Shape, S, l, v, HeadOf(l, v))
<1> DEFINE g == Shape
           h == HeadOf(l, v)
<1>1. h = LowestOf(On(g, l, v))
  BY DEF HeadOf, On, Shape
<1>2. Place(g, l, v, h) /\ \A e \in On(g, l, v) : h <= e
  BY <1>1, LowestOnList
<1>3. \A e \in On(g, l, v) : e \in Nat
  BY GraphFacts
<1>4. h \in Nat
  BY <1>2, <1>3, GraphFacts DEF Place
<1> HIDE DEF h, g
<1>5. Scanned(g, S, l, v, h)
  BY <1>2, <1>3, <1>4 DEF Scanned
<1> QED
  BY <1>2, <1>5 DEF h, g

(* Going on along a list passes over one slot. *)
LEMMA NextFacts ==
  ASSUME IsGraph(Shape), NEW l \in Lists, NEW v, NEW e \in On(Shape, l, v), NEW S,
         Scanned(Shape, S, l, v, e), Across(l, e) \in S
  PROVE  Place(Shape, l, v, NextOf(l, e)) /\ Scanned(Shape, S, l, v, NextOf(l, e))
<1> DEFINE g == Shape
           T == {f \in On(g, l, v) : f > e}
           n == NextOf(l, e)
<1>1. n = LowestOf(T)
  BY DEF NextOf, On, Shape
<1>2. T \subseteq On(g, l, v)
  OBVIOUS
<1>3. Place(g, l, v, n) /\ \A f \in T : n <= f
  <2> HIDE DEF T, n, g
  <2> QED
    BY <1>1, <1>2, LowestOnList DEF g
<1>4. \A f \in On(g, l, v) : f \in Nat
  BY GraphFacts
<1>5. n \in Nat
  BY <1>3, <1>4, GraphFacts DEF Place
<1>6. Far(g, l, e) \in S
  BY DEF Far, Across, Shape
<1>7. \A f \in On(g, l, v) : f < n => f < e \/ f = e
  <2> SUFFICES ASSUME NEW f \in On(g, l, v), f < n, f > e PROVE FALSE
    BY <1>4
  <2>1. f \in T
    OBVIOUS
  <2> QED
    BY <1>3, <1>4, <1>5, <2>1
<1> HIDE DEF n, g, T
<1>8. Scanned(g, S, l, v, n)
  BY <1>6, <1>7 DEF Scanned, g
<1> QED
  BY <1>3, <1>8 DEF n, g
(***************************************************************************)
(* What is near.                                                           *)
(***************************************************************************)
(* g does on 0 .. n what iterating step from a does. *)
Iterates(g, n, a, step) ==
  /\ g[0] = a
  /\ \A k \in 1 .. n : g[k] = step[g[k - 1]]

LEMMA IteratesAgree ==
  ASSUME NEW a, NEW step, NEW m \in Nat, NEW n \in Nat, NEW g, NEW h,
         Iterates(g, m, a, step), Iterates(h, n, a, step)
  PROVE  \A k \in Nat : k <= m /\ k <= n => g[k] = h[k]
<1> DEFINE B == {k \in Nat : k <= m /\ k <= n => g[k] = h[k]}
<1>1. 0 \in B
  BY DEF Iterates
<1>2. ASSUME NEW k \in B PROVE k + 1 \in B
  <2> SUFFICES ASSUME k + 1 <= m, k + 1 <= n PROVE g[k + 1] = h[k + 1]
    OBVIOUS
  <2>1. k + 1 \in 1 .. m /\ k + 1 \in 1 .. n /\ (k + 1) - 1 = k /\ g[k] = h[k]
    OBVIOUS
  <2> QED
    BY <2>1 DEF Iterates
<1>3. \A k \in Nat : k \in B
  <2> HIDE DEF B
  <2>1. B \subseteq Nat
    BY DEF B
  <2> QED
    BY <1>1, <1>2, <2>1, Induction
<1> QED
  BY <1>3

LEMMA IteratesExist ==
  ASSUME NEW S, NEW a \in S, NEW step \in [S -> S], NEW n \in Nat
  PROVE  \E g \in [0 .. n -> S] : Iterates(g, n, a, step)
<1> DEFINE B == {k \in Nat : \E g \in [0 .. k -> S] : Iterates(g, k, a, step)}
<1>1. 0 \in B
  <2>1. [k \in 0 .. 0 |-> a] \in [0 .. 0 -> S] /\ Iterates([k \in 0 .. 0 |-> a], 0, a, step)
    BY DEF Iterates
  <2> QED
    BY <2>1
<1>2. ASSUME NEW k \in B PROVE k + 1 \in B
  <2>1. PICK g \in [0 .. k -> S] : Iterates(g, k, a, step)
    OBVIOUS
  <2> DEFINE h == [i \in 0 .. k + 1 |-> IF i = k + 1 THEN step[g[k]] ELSE g[i]]
  <2>2. h \in [0 .. k + 1 -> S] /\ h[0] = g[0] /\ h[k + 1] = step[g[k]] /\ \A i \in 0 .. k : h[i] = g[i]
    OBVIOUS
  <2> HIDE DEF h
  <2>3. \A i \in 1 .. k + 1 : h[i] = step[h[i - 1]]
    <3> SUFFICES ASSUME NEW i \in 1 .. k + 1 PROVE h[i] = step[h[i - 1]]
      OBVIOUS
    <3>1. i - 1 \in 0 .. k
      OBVIOUS
    <3>2. CASE i = k + 1
      BY <2>2, <3>1, <3>2
    <3>3. CASE i # k + 1
      <4>1. i \in 1 .. k
        BY <3>3
      <4> QED
        BY <2>1, <2>2, <3>1, <4>1 DEF Iterates
    <3> QED
      BY <3>2, <3>3
  <2>4. Iterates(h, k + 1, a, step)
    <3>1. h[0] = a
      BY <2>1, <2>2 DEF Iterates
    <3> QED
      BY <2>3, <3>1 DEF Iterates
  <2>5. k + 1 \in Nat
    OBVIOUS
  <2> QED
    BY <2>2, <2>4, <2>5
<1>3. \A k \in Nat : k \in B
  <2> HIDE DEF B
  <2>1. B \subseteq Nat
    BY DEF B
  <2> QED
    BY <1>1, <1>2, <2>1, Induction
<1> QED
  BY <1>3

(* A recursive function on the numbers exists. *)
LEMMA Recursion ==
  ASSUME NEW S, NEW a \in S, NEW step \in [S -> S]
  PROVE  \E f \in [Nat -> S] : f = [n \in Nat |-> IF n = 0 THEN a ELSE step[f[n - 1]]]
<1> DEFINE run == [n \in Nat |-> CHOOSE g : g \in [0 .. n -> S] /\ Iterates(g, n, a, step)]
           f == [n \in Nat |-> run[n][n]]
<1>1. \A n \in Nat : run[n] \in [0 .. n -> S] /\ Iterates(run[n], n, a, step)
  BY IteratesExist
<1> HIDE DEF run
<1>2. f \in [Nat -> S]
  BY <1>1
<1>3. ASSUME NEW n \in Nat PROVE f[n] = IF n = 0 THEN a ELSE step[f[n - 1]]
  <2>1. CASE n = 0
    BY <1>1, <2>1 DEF Iterates
  <2>2. CASE n # 0
    <3>1. n - 1 \in Nat /\ n \in 1 .. n /\ n - 1 <= n
      BY <2>2
    <3>2. run[n][n] = step[run[n][n - 1]]
      BY <1>1, <3>1 DEF Iterates
    <3>3. run[n][n - 1] = run[n - 1][n - 1]
      BY <1>1, <3>1, IteratesAgree
    <3> QED
      BY <2>2, <3>1, <3>2, <3>3
  <2> QED
    BY <2>1, <2>2
<1> HIDE DEF f
<1>4. f = [n \in Nat |-> IF n = 0 THEN a ELSE step[f[n - 1]]]
  <2>1. f = [n \in Nat |-> f[n]]
    BY <1>2
  <2> QED
    BY <1>3, <2>1
<1> QED
  BY <1>2, <1>4

LEMMA AdjacentFacts ==
  ASSUME NEW g, IsGraph(g), NEW v
  PROVE  Adjacent(g, v) \subseteq Vertices
  BY GraphFacts DEF Adjacent, Lists

LEMMA NeighborsAdjacent == \A v : Neighbors(v) = Adjacent(Shape, v)
  BY DEF Neighbors, Adjacent, Shape, On, Far

(* One edge further. *)
Around(g, S) == S \cup UNION {Adjacent(g, u) : u \in S}

(* B[k] is what is at most k edges from v. *)
Balls(g, v, B) ==
  /\ B \in [Nat -> SUBSET Vertices]
  /\ B[0] = {v}
  /\ \A k \in Nat : B[k + 1] = Around(g, B[k])

LEMMA WithinIsBall ==
  ASSUME IsGraph(Shape), NEW v \in Vertices
  PROVE  \E B : Balls(Shape, v, B) /\ \A k \in Nat : B[k] = Within(v, k)
<1> DEFINE Ball(f) == f = [n \in Nat |-> IF n = 0 THEN {v}
                                         ELSE f[n - 1] \cup UNION {Neighbors(u) : u \in f[n - 1]}]
           step == [S \in SUBSET Vertices |-> Around(Shape, S)]
           C == CHOOSE f : Ball(f)
<1>1. step \in [SUBSET Vertices -> SUBSET Vertices]
  BY AdjacentFacts DEF Around
<1>2. PICK f \in [Nat -> SUBSET Vertices] : f = [n \in Nat |-> IF n = 0 THEN {v} ELSE step[f[n - 1]]]
  <2> DEFINE T == SUBSET Vertices
             a == {v}
  <2>1. a \in T /\ step \in [T -> T]
    BY <1>1
  <2> HIDE DEF step, T, a
  <2>2. \E f \in [Nat -> T] : f = [n \in Nat |-> IF n = 0 THEN a ELSE step[f[n - 1]]]
    BY ONLY <2>1, Recursion
  <2> QED
    BY <2>2 DEF T, a
<1>3. \A S \in SUBSET Vertices : step[S] = S \cup UNION {Neighbors(u) : u \in S}
  BY NeighborsAdjacent DEF Around
<1> HIDE DEF step
<1>4. Ball(f)
  <2>1. \A n \in Nat : n # 0 => f[n - 1] \in SUBSET Vertices
    BY <1>2
  <2> QED
    BY <1>2, <1>3, <2>1
<1>5. Ball(C)
  BY <1>4
<1>6. \A k \in Nat : Within(v, k) = C[k]
  BY DEF Within
<1> HIDE DEF C
<1>7. /\ C[0] = {v}
      /\ \A k \in Nat : C[k + 1] = Around(Shape, C[k])
  <2>1. C[0] = {v}
    BY <1>5
  <2>2. ASSUME NEW k \in Nat PROVE C[k + 1] = Around(Shape, C[k])
    <3>1. k + 1 \in Nat /\ k + 1 # 0 /\ (k + 1) - 1 = k
      OBVIOUS
    <3>2. C[k + 1] = C[k] \cup UNION {Neighbors(u) : u \in C[k]}
      BY <1>5, <3>1
    <3> QED
      BY <3>2, NeighborsAdjacent DEF Around
  <2> QED
    BY <2>1, <2>2
<1>8. \A k \in Nat : C[k] \in SUBSET Vertices
  <2> DEFINE T == {k \in Nat : C[k] \in SUBSET Vertices}
  <2>1. 0 \in T
    BY <1>7
  <2>2. ASSUME NEW k \in T PROVE k + 1 \in T
    BY <1>7, AdjacentFacts DEF Around
  <2>3. \A k \in Nat : k \in T
    <3> HIDE DEF T
    <3>1. T \subseteq Nat
      BY DEF T
    <3> QED
      BY <2>1, <2>2, <3>1, Induction
  <2> QED
    BY <2>3
<1>9. Balls(Shape, v, [k \in Nat |-> C[k]])
  BY <1>7, <1>8 DEF Balls
<1> QED
  BY <1>6, <1>9
LEMMA VerticesFacts == IsFiniteSet(Vertices) /\ Cardinality(Vertices) = VertexCapacity
<1>1. 0 \in Int /\ VertexCapacity - 1 \in Int
  BY WalkAssumption
<1>2. IsFiniteSet(Vertices) /\ Cardinality(Vertices) = IF 0 > VertexCapacity - 1 THEN 0 ELSE (VertexCapacity - 1) - 0 + 1
  BY <1>1, FS_Interval DEF Vertices
<1> QED
  BY <1>2, WalkAssumption

LEMMA BallsGrow ==
  ASSUME NEW g, NEW v, NEW B, Balls(g, v, B), NEW k \in Nat
  PROVE  \A m \in Nat : B[k] \subseteq B[k + m]
<1> DEFINE T == {m \in Nat : B[k] \subseteq B[k + m]}
<1>1. 0 \in T
  OBVIOUS
<1>2. ASSUME NEW m \in T PROVE m + 1 \in T
  <2>1. k + m \in Nat /\ (k + m) + 1 = k + (m + 1)
    OBVIOUS
  <2>2. B[k + (m + 1)] = Around(g, B[k + m])
    BY <2>1 DEF Balls
  <2> QED
    BY <2>2 DEF Around
<1>3. \A m \in Nat : m \in T
  <2> HIDE DEF T
  <2>1. T \subseteq Nat
    BY DEF T
  <2> QED
    BY <1>1, <1>2, <2>1, Induction
<1> QED
  BY <1>3

LEMMA BallsMonotone ==
  ASSUME NEW g, NEW v, NEW B, Balls(g, v, B), NEW k \in Nat, NEW m \in Nat, k <= m
  PROVE  B[k] \subseteq B[m]
<1>1. m - k \in Nat /\ k + (m - k) = m
  OBVIOUS
<1>2. B[k] \subseteq B[k + (m - k)]
  BY <1>1, BallsGrow
<1> QED
  BY <1>1, <1>2

(* What has v and is closed has all that is near v. *)
LEMMA BallsInside ==
  ASSUME NEW g, NEW v, NEW B, Balls(g, v, B), NEW S, v \in S, \A u \in S : Adjacent(g, u) \subseteq S
  PROVE  \A k \in Nat : B[k] \subseteq S
<1> DEFINE T == {k \in Nat : B[k] \subseteq S}
<1>1. 0 \in T
  BY DEF Balls
<1>2. ASSUME NEW k \in T PROVE k + 1 \in T
  BY DEF Balls, Around
<1>3. \A k \in Nat : k \in T
  <2> HIDE DEF T
  <2>1. T \subseteq Nat
    BY DEF T
  <2> QED
    BY <1>1, <1>2, <2>1, Induction
<1> QED
  BY <1>3

(* Once nothing is added, nothing ever is. *)
LEMMA BallsStay ==
  ASSUME NEW g, NEW v, NEW B, Balls(g, v, B), NEW k \in Nat, B[k + 1] = B[k]
  PROVE  \A m \in Nat : B[k + m] = B[k]
<1> DEFINE T == {m \in Nat : B[k + m] = B[k]}
<1>1. 0 \in T
  OBVIOUS
<1>2. ASSUME NEW m \in T PROVE m + 1 \in T
  <2>1. k + m \in Nat /\ (k + m) + 1 = k + (m + 1) /\ B[k + m] = B[k]
    OBVIOUS
  <2>2. B[k + (m + 1)] = Around(g, B[k + m]) /\ B[k + 1] = Around(g, B[k])
    BY <2>1 DEF Balls
  <2> QED
    BY <2>1, <2>2
<1>3. \A m \in Nat : m \in T
  <2> HIDE DEF T
  <2>1. T \subseteq Nat
    BY DEF T
  <2> QED
    BY <1>1, <1>2, <2>1, Induction
<1> QED
  BY <1>3

(* Each ball that has more than the one before it has one more at least. *)
LEMMA BallsFill ==
  ASSUME NEW g, NEW v, NEW B, Balls(g, v, B)
  PROVE  \A n \in Nat : (\E k \in Nat : k < n /\ B[k + 1] = B[k]) \/ Cardinality(B[n]) >= n + 1
<1> DEFINE Still(n) == \E k \in Nat : k < n /\ B[k + 1] = B[k]
           T == {n \in Nat : Still(n) \/ Cardinality(B[n]) >= n + 1}
<1>0. \A n \in Nat : IsFiniteSet(B[n]) /\ Cardinality(B[n]) \in Nat
  <2>1. \A n \in Nat : B[n] \in SUBSET Vertices
    BY DEF Balls
  <2> QED
    BY <2>1, VerticesFacts, FS_Subset, FS_CardinalityType
<1>1. 0 \in T
  <2>1. B[0] = {v}
    BY DEF Balls
  <2>2. Cardinality(B[0]) = 1
    BY <2>1, FS_Singleton
  <2> QED
    BY <2>2
<1>2. ASSUME NEW n \in T PROVE n + 1 \in T
  <2>1. CASE Still(n)
    <3>1. Still(n + 1)
      BY <2>1
    <3> QED
      BY <3>1
  <2>2. CASE B[n + 1] = B[n]
    <3>1. Still(n + 1)
      BY <2>2
    <3> QED
      BY <3>1
  <2>3. CASE Cardinality(B[n]) >= n + 1 /\ B[n + 1] # B[n]
    <3>1. n \in Nat /\ n + 1 \in Nat /\ n <= n + 1
      OBVIOUS
    <3>2. B[n] \subseteq B[n + 1]
      BY <3>1, BallsMonotone
    <3>3. Cardinality(B[n]) <= Cardinality(B[n + 1]) /\ Cardinality(B[n]) # Cardinality(B[n + 1])
      BY <1>0, <2>3, <3>1, <3>2, FS_Subset
    <3>4. Cardinality(B[n + 1]) >= (n + 1) + 1
      BY <1>0, <2>3, <3>1, <3>3
    <3> QED
      BY <3>1, <3>4
  <2> QED
    BY <2>1, <2>2, <2>3
<1>3. \A n \in Nat : n \in T
  <2> HIDE DEF T
  <2>1. T \subseteq Nat
    BY DEF T
  <2> QED
    BY <1>1, <1>2, <2>1, Induction
<1> QED
  BY <1>3

(* The ball as wide as there are vertices is closed. *)
LEMMA ReachClosed ==
  ASSUME NEW g, NEW v, NEW B, Balls(g, v, B)
  PROVE  \A u \in B[VertexCapacity] : Adjacent(g, u) \subseteq B[VertexCapacity]
<1> DEFINE n == VertexCapacity
<1>0. n \in Nat
  BY WalkAssumption
<1>1. Cardinality(B[n]) <= n /\ Cardinality(B[n]) \in Nat
  <2>1. B[n] \in SUBSET Vertices
    BY <1>0 DEF Balls
  <2> QED
    BY <2>1, VerticesFacts, FS_Subset, FS_CardinalityType
<1>2. ~(Cardinality(B[n]) >= n + 1)
  BY <1>0, <1>1
<1>3. PICK k \in Nat : k < n /\ B[k + 1] = B[k]
  BY <1>0, <1>2, BallsFill
<1>4. /\ n - k \in Nat /\ k + (n - k) = n
      /\ n + 1 - k \in Nat /\ k + (n + 1 - k) = n + 1
  BY <1>0, <1>3
<1>5. B[k + (n - k)] = B[k] /\ B[k + (n + 1 - k)] = B[k]
  <2>1. \A m \in Nat : B[k + m] = B[k]
    BY <1>3, BallsStay
  <2> HIDE DEF n
  <2> QED
    BY <1>4, <2>1
<1>6. B[n + 1] = B[n]
  BY <1>4, <1>5
<1>7. B[n + 1] = Around(g, B[n])
  BY <1>0 DEF Balls
<1> QED
  BY <1>6, <1>7 DEF Around
LEMMA BallsUnique ==
  ASSUME NEW g, NEW v, NEW B, NEW C, Balls(g, v, B), Balls(g, v, C)
  PROVE  \A k \in Nat : B[k] = C[k]
<1> DEFINE T == {k \in Nat : B[k] = C[k]}
<1>1. 0 \in T
  BY DEF Balls
<1>2. ASSUME NEW k \in T PROVE k + 1 \in T
  BY DEF Balls
<1>3. \A k \in Nat : k \in T
  <2> HIDE DEF T
  <2>1. T \subseteq Nat
    BY DEF T
  <2> QED
    BY <1>1, <1>2, <2>1, Induction
<1> QED
  BY <1>3

(* The balls around v. *)
Near(g, v) == CHOOSE B : Balls(g, v, B)

LEMMA NearFacts ==
  ASSUME IsGraph(Shape), NEW v \in Vertices
  PROVE  Balls(Shape, v, Near(Shape, v)) /\ \A k \in Nat : Within(v, k) = Near(Shape, v)[k]
<1>1. PICK B : Balls(Shape, v, B) /\ \A k \in Nat : B[k] = Within(v, k)
  BY WithinIsBall
<1>2. Balls(Shape, v, Near(Shape, v))
  BY <1>1 DEF Near
<1>3. \A k \in Nat : B[k] = Near(Shape, v)[k]
  BY <1>1, <1>2, BallsUnique
<1> QED
  BY <1>1, <1>2, <1>3

(***************************************************************************)
(* Breadth first.                                                          *)
(***************************************************************************)
(* The frontier q of a walk from s, of which h entries were visited, and S,
   what has been marked.                                                    *)
Frontier(g, s, q, h, S) ==
  /\ q \in Seq(Vertices) /\ Len(q) >= 1 /\ q[1] = s
  /\ h \in 0 .. Len(q)
  /\ \A i, j \in 1 .. Len(q) : q[i] = q[j] => i = j
  /\ S = {q[i] : i \in 1 .. Len(q)}
  /\ \A i \in 1 .. h - 1 : Adjacent(g, q[i]) \subseteq S

(* Its depths d: they never decrease, they span two levels at most from the
   entry that is being visited, and they are distances.                     *)
Depths(g, s, q, d, h) ==
  /\ d \in Seq(Nat) /\ Len(d) = Len(q) /\ d[1] = 0
  /\ \A i, j \in 1 .. Len(q) : i <= j => d[i] <= d[j]
  /\ d[Len(q)] <= IF h = 0 THEN 0 ELSE d[h] + 1
  /\ \A i \in 1 .. Len(q) : /\ q[i] \in Near(g, s)[d[i]]
                            /\ d[i] > 0 => q[i] \notin Near(g, s)[d[i] - 1]

(* What is no further than the entry being visited has been marked. *)
LEMMA NearMarked ==
  ASSUME NEW g, NEW s, NEW q, NEW d, NEW h, NEW S, Balls(g, s, Near(g, s)),
         Frontier(g, s, q, h, S), Depths(g, s, q, d, h), h >= 1
  PROVE  \A k \in Nat : k <= d[h] => Near(g, s)[k] \subseteq S
<1> DEFINE B == Near(g, s)
           T == {k \in Nat : k <= d[h] => B[k] \subseteq S}
<1>0. /\ h \in 1 .. Len(q) /\ Len(q) \in Nat /\ Len(d) = Len(q)
      /\ \A i \in 1 .. Len(q) : d[i] \in Nat
  BY DEF Frontier, Depths
<1> HIDE DEF B
<1>1. 0 \in T
  <2>1. B[0] = {s}
    BY DEF Balls, B
  <2>2. s \in S
    BY <1>0 DEF Frontier
  <2> QED
    BY <2>1, <2>2
<1>2. ASSUME NEW k \in T PROVE k + 1 \in T
  <2> SUFFICES ASSUME k + 1 <= d[h], NEW u \in B[k] PROVE u \in S /\ Adjacent(g, u) \subseteq S
    BY DEF Balls, Around, B
  <2>1. k \in Nat /\ k < d[h] /\ B[k] \subseteq S
    BY <1>0
  <2>2. PICK i \in 1 .. Len(q) : u = q[i]
    BY <2>1 DEF Frontier
  <2>3. d[i] <= k
    <3> SUFFICES ASSUME d[i] > k PROVE FALSE
      BY <1>0, <2>1
    <3>1. d[i] - 1 \in Nat /\ k <= d[i] - 1 /\ d[i] > 0
      BY <1>0, <2>1
    <3>2. B[k] \subseteq B[d[i] - 1]
      BY <2>1, <3>1, BallsMonotone DEF B
    <3> QED
      BY <2>2, <3>1, <3>2 DEF Depths, B
  <2>4. i < h
    <3> SUFFICES ASSUME h <= i PROVE FALSE
      BY <1>0
    <3>1. d[h] <= d[i]
      BY <1>0 DEF Depths
    <3> QED
      BY <1>0, <2>1, <2>3, <3>1
  <2>5. i \in 1 .. h - 1
    BY <1>0, <2>4
  <2>6. Adjacent(g, q[i]) \subseteq S
    BY <2>5 DEF Frontier
  <2> QED
    BY <2>1, <2>2, <2>6
<1>3. \A k \in Nat : k \in T
  <2> HIDE DEF T
  <2>1. T \subseteq Nat
    BY DEF T
  <2> QED
    BY <1>1, <1>2, <2>1, Induction
<1> QED
  BY <1>3 DEF B

(* An entry goes in behind the others. *)
LEMMA FrontierPush ==
  ASSUME NEW g, NEW s, NEW q, NEW h, NEW S, Frontier(g, s, q, h, S), h >= 1,
         NEW v \in Vertices, v \notin S
  PROVE  Frontier(g, s, Append(q, v), h, S \cup {v})
<1> DEFINE p == Append(q, v)
           n == Len(q)
<1>1. /\ n \in Nat /\ n >= 1 /\ h \in 1 .. n /\ p \in Seq(Vertices) /\ Len(p) = n + 1
      /\ p[n + 1] = v /\ \A i \in 1 .. n : p[i] = q[i]
  BY DEF Frontier
<1> HIDE DEF p
<1>2. \A i \in 1 .. n : q[i] # v
  BY DEF Frontier
<1>3. \A i, j \in 1 .. n + 1 : p[i] = p[j] => i = j
  <2> SUFFICES ASSUME NEW i \in 1 .. n + 1, NEW j \in 1 .. n + 1, p[i] = p[j] PROVE i = j
    OBVIOUS
  <2>1. CASE i = n + 1 \/ j = n + 1
    BY <1>1, <1>2, <2>1
  <2>2. CASE i # n + 1 /\ j # n + 1
    <3>1. i \in 1 .. n /\ j \in 1 .. n
      BY <1>1, <2>2
    <3> QED
      BY <1>1, <3>1 DEF Frontier
  <2> QED
    BY <2>1, <2>2
<1>4. S \cup {v} = {p[i] : i \in 1 .. n + 1}
  <2>1. S = {q[i] : i \in 1 .. n}
    BY DEF Frontier
  <2>2. \A i \in 1 .. n + 1 : i \in 1 .. n \/ i = n + 1
    BY <1>1
  <2>3. \A i \in 1 .. n : i \in 1 .. n + 1
    BY <1>1
  <2>4. n + 1 \in 1 .. n + 1
    BY <1>1
  <2> QED
    BY <1>1, <2>1, <2>2, <2>3, <2>4
<1>5. \A i \in 1 .. h - 1 : Adjacent(g, p[i]) \subseteq S
  <2> SUFFICES ASSUME NEW i \in 1 .. h - 1 PROVE Adjacent(g, p[i]) \subseteq S
    OBVIOUS
  <2>1. i \in 1 .. n
    BY <1>1
  <2> QED
    BY <1>1, <2>1 DEF Frontier
<1>6. Frontier(g, s, p, h, S \cup {v})
  <2>1. p[1] = s
    BY <1>1 DEF Frontier
  <2>2. h \in 0 .. n + 1
    BY <1>1
  <2>3. Len(p) >= 1 /\ h \in 0 .. Len(p)
    BY <1>1, <2>2
  <2>4. /\ \A i, j \in 1 .. Len(p) : p[i] = p[j] => i = j
        /\ S \cup {v} = {p[i] : i \in 1 .. Len(p)}
    BY <1>1, <1>3, <1>4
  <2>5. \A i \in 1 .. h - 1 : Adjacent(g, p[i]) \subseteq S \cup {v}
    BY <1>5
  <2>6. p \in Seq(Vertices)
    BY <1>1
  <2> HIDE DEF n
  <2> QED
    BY ONLY <2>1, <2>3, <2>4, <2>5, <2>6 DEF Frontier
<1> QED
  BY <1>6 DEF p

LEMMA DepthsPush ==
  ASSUME NEW g, NEW s, NEW q, NEW d, NEW h, NEW S, Balls(g, s, Near(g, s)),
         Frontier(g, s, q, h, S), Depths(g, s, q, d, h), h >= 1,
         NEW v \in Vertices, v \notin S, v \in Adjacent(g, q[h])
  PROVE  Depths(g, s, Append(q, v), Append(d, d[h] + 1), h)
<1> DEFINE p == Append(q, v)
           n == Len(q)
           x == d[h] + 1
           e == Append(d, x)
           B == Near(g, s)
<1>1. /\ n \in Nat /\ n >= 1 /\ h \in 1 .. n /\ Len(p) = n + 1
      /\ p[n + 1] = v /\ \A i \in 1 .. n : p[i] = q[i]
  BY DEF Frontier
<1>2. Len(d) = n /\ (\A i \in 1 .. n : d[i] \in Nat) /\ x \in Nat /\ x > 0 /\ x - 1 = d[h] /\ d[h] \in Nat
  BY <1>1 DEF Depths
<1>3. e \in Seq(Nat) /\ Len(e) = n + 1 /\ e[n + 1] = x /\ \A i \in 1 .. n : e[i] = d[i]
  BY <1>1, <1>2 DEF Depths
<1>4. v \in B[x] /\ v \notin B[x - 1]
  <2>1. q[h] \in B[d[h]]
    BY <1>1 DEF Depths
  <2>2. B[x] = Around(g, B[d[h]])
    BY <1>2 DEF Balls
  <2>3. B[d[h]] \subseteq S
    BY <1>2, NearMarked
  <2> QED
    BY <1>2, <2>1, <2>2, <2>3 DEF Around
<1>5. \A i \in 1 .. n : d[i] <= x
  <2> SUFFICES ASSUME NEW i \in 1 .. n PROVE d[i] <= x
    OBVIOUS
  <2>0. n \in 1 .. n /\ i <= n /\ h # 0 /\ d[n] \in Nat
    BY <1>1, <1>2
  <2>1. d[i] <= d[n] /\ d[n] <= x
    BY <2>0 DEF Depths
  <2> QED
    BY <1>2, <2>0, <2>1
<1> HIDE DEF p, x, e, B
<1>6. \A i, j \in 1 .. n + 1 : i <= j => e[i] <= e[j]
  <2> SUFFICES ASSUME NEW i \in 1 .. n + 1, NEW j \in 1 .. n + 1, i <= j PROVE e[i] <= e[j]
    OBVIOUS
  <2>1. CASE j = n + 1
    <3>1. i = n + 1 \/ i \in 1 .. n
      BY <1>1
    <3> QED
      BY <1>2, <1>3, <1>5, <2>1, <3>1
  <2>2. CASE j # n + 1
    <3>1. i \in 1 .. n /\ j \in 1 .. n
      BY <1>1, <2>2
    <3> QED
      BY <1>3, <3>1 DEF Depths
  <2> QED
    BY <2>1, <2>2
<1>7. \A i \in 1 .. n + 1 : p[i] \in B[e[i]] /\ (e[i] > 0 => p[i] \notin B[e[i] - 1])
  <2> SUFFICES ASSUME NEW i \in 1 .. n + 1
               PROVE  p[i] \in B[e[i]] /\ (e[i] > 0 => p[i] \notin B[e[i] - 1])
    OBVIOUS
  <2>1. CASE i = n + 1
    BY <1>1, <1>3, <1>4, <2>1
  <2>2. CASE i # n + 1
    <3>1. i \in 1 .. n
      BY <1>1, <2>2
    <3> QED
      BY <1>1, <1>3, <3>1 DEF Depths, B
  <2> QED
    BY <2>1, <2>2
<1>8. Depths(g, s, p, e, h)
  <2>1. e[1] = 0 /\ e[h] = d[h] /\ e[n + 1] <= e[h] + 1
    <3>1. 1 \in 1 .. n /\ x <= x
      BY <1>1, <1>2
    <3>2. d[1] = 0
      BY DEF Depths
    <3>3. x = d[h] + 1
      BY DEF x
    <3> QED
      BY ONLY <1>1, <1>3, <3>1, <3>2, <3>3
  <2>2. h # 0
    BY <1>1
  <2> QED
    BY <1>1, <1>3, <1>6, <1>7, <2>1, <2>2 DEF Depths, B
<1> QED
  BY <1>8 DEF p, e, x

(* The next entry is visited when the one before it is through. *)
LEMMA FrontierVisit ==
  ASSUME NEW g, NEW s, NEW q, NEW d, NEW h, NEW S, Frontier(g, s, q, h, S), Depths(g, s, q, d, h),
         h < Len(q), h > 0 => Adjacent(g, q[h]) \subseteq S
  PROVE  Frontier(g, s, q, h + 1, S) /\ Depths(g, s, q, d, h + 1)
<1> DEFINE n == Len(q)
<1>1. n \in Nat /\ h \in 0 .. n /\ h + 1 \in 1 .. n /\ \A i \in 1 .. n : d[i] \in Nat
  BY DEF Frontier, Depths
<1>2. \A i \in 1 .. h : Adjacent(g, q[i]) \subseteq S
  <2> SUFFICES ASSUME NEW i \in 1 .. h PROVE Adjacent(g, q[i]) \subseteq S
    OBVIOUS
  <2>1. CASE i = h
    BY <1>1, <2>1
  <2>2. CASE i # h
    <3>1. i \in 1 .. h - 1
      BY <1>1, <2>2
    <3> QED
      BY <3>1 DEF Frontier
  <2> QED
    BY <2>1, <2>2
<1>3. d[n] <= d[h + 1] + 1
  <2>1. CASE h = 0
    BY <1>1, <2>1 DEF Depths
  <2>2. CASE h # 0
    <3>1. h \in 1 .. n
      BY <1>1, <2>2
    <3>2. d[h] <= d[h + 1] /\ d[n] <= d[h] + 1
      BY <1>1, <2>2, <3>1 DEF Depths
    <3>3. d[h] \in Nat /\ d[h + 1] \in Nat /\ d[n] \in Nat
      BY <1>1, <3>1
    <3> QED
      BY <3>2, <3>3
  <2> QED
    BY <2>1, <2>2
<1>4. (h + 1) - 1 = h /\ h + 1 # 0 /\ h + 1 \in 0 .. n
  BY <1>1
<1>5. Frontier(g, s, q, h + 1, S)
  BY <1>2, <1>4 DEF Frontier
<1>6. Depths(g, s, q, d, h + 1)
  BY <1>3, <1>4 DEF Depths
<1> QED
  BY <1>5, <1>6
(***************************************************************************)
(* Depth first.                                                            *)
(***************************************************************************)
(* A cursor of vertex v, which is through when it is NoIndex. *)
Cursor(g, v, c) ==
  \/ c = NoIndex
  \/ /\ c \in Nat /\ EdgeOf(c) \in On(g, ListOf(c), v)
     /\ ListOf(c) = "in" => ~g.directed

(* What the cursor has passed leads only into S. *)
Passed(g, S, v, c) ==
  IF c = NoIndex THEN Adjacent(g, v) \subseteq S
  ELSE /\ Scanned(g, S, ListOf(c), v, EdgeOf(c))
       /\ ListOf(c) = "in" => Scanned(g, S, "out", v, NoIndex)

LEMMA CursorWords ==
  ASSUME NEW e \in Nat, e < MaxCapacity
  PROVE  /\ EdgeOf(e) = e /\ ListOf(e) = "out" /\ e # NoIndex
         /\ InCursor(e) = e + CursorIn /\ InCursor(e) # NoIndex /\ InCursor(e) \in Nat
         /\ EdgeOf(InCursor(e)) = e /\ ListOf(InCursor(e)) = "in"
<1> DEFINE M == CursorIn
<1>1. M = MaxCapacity + 1 /\ M \in Nat \ {0} /\ NoIndex = 2 * M - 1 /\ e < M - 1 /\ e \in Int
  BY WalkAssumption DEF CursorIn, NoIndex
<1>2. InCursor(e) = e + M
  BY <1>1 DEF InCursor
<1> HIDE DEF M
<1>3. e % M = e
  BY <1>1, ModOfSmall
<1>4. (e + M) % M = e
  <2> DEFINE p == e + M
             q == p \div M
             r == p % M
  <2>1. p \in Int /\ p = e + M
    BY <1>1
  <2> HIDE DEF p
  <2>2. q \in Int /\ r \in 0 .. (M - 1) /\ p = M * q + r
    BY <1>1, <2>1, DivMod
  <2> HIDE DEF q, r
  <2>3. q >= 2 => M * q >= 2 * M
    BY <1>1, <2>2
  <2>4. q <= 0 => M * q <= 0
    BY <1>1, <2>2
  <2>5. q = 1
    BY <1>1, <2>1, <2>2, <2>3, <2>4
  <2>6. r = e
    BY <1>1, <2>1, <2>2, <2>5
  <2> QED
    BY <2>6 DEF p, r
<1>5. e # NoIndex /\ e + M # NoIndex /\ e + M \in Nat /\ ~(e >= M) /\ e + M >= M
  BY <1>1
<1> QED
  BY <1>2, <1>3, <1>4, <1>5 DEF EdgeOf, ListOf, M

LEMMA ListsScanned ==
  ASSUME NEW g, IsGraph(g), NEW S, NEW v, Scanned(g, S, "out", v, NoIndex),
         g.directed \/ Scanned(g, S, "in", v, NoIndex)
  PROVE  Adjacent(g, v) \subseteq S
<1>1. \A l \in Lists : \A e \in On(g, l, v) : e < NoIndex
  BY GraphFacts
<1> QED
  BY <1>1 DEF Scanned, Adjacent, Lists

LEMMA PassedMore ==
  ASSUME NEW g, NEW S, NEW T, S \subseteq T, NEW v, NEW c, Passed(g, S, v, c)
  PROVE  Passed(g, T, v, c)
  BY DEF Passed, Scanned

LEMMA OutCursor ==
  ASSUME NEW g, IsGraph(g), NEW S, NEW v, NEW e, e # NoIndex,
         Place(g, "out", v, e), Scanned(g, S, "out", v, e)
  PROVE  Cursor(g, v, e) /\ Passed(g, S, v, e)
<1>1. e \in On(g, "out", v)
  BY DEF Place
<1>2. e \in Nat /\ e < MaxCapacity
  BY <1>1, GraphFacts DEF Lists
<1>3. EdgeOf(e) = e /\ ListOf(e) = "out"
  BY <1>2, CursorWords
<1> QED
  BY <1>1, <1>2, <1>3 DEF Cursor, Passed

LEMMA InCursorFacts ==
  ASSUME NEW g, IsGraph(g), ~g.directed, NEW S, NEW v, NEW e,
         Place(g, "in", v, e), Scanned(g, S, "in", v, e), Scanned(g, S, "out", v, NoIndex)
  PROVE  Cursor(g, v, InCursor(e)) /\ Passed(g, S, v, InCursor(e))
<1>1. CASE e = NoIndex
  <2>1. InCursor(e) = NoIndex
    BY <1>1 DEF InCursor
  <2>2. Adjacent(g, v) \subseteq S
    BY <1>1, ListsScanned
  <2> QED
    BY <2>1, <2>2 DEF Cursor, Passed
<1>2. CASE e # NoIndex
  <2>1. e \in On(g, "in", v)
    BY <1>2 DEF Place
  <2>2. e \in Nat /\ e < MaxCapacity
    BY <2>1, GraphFacts DEF Lists
  <2>3. /\ InCursor(e) # NoIndex /\ InCursor(e) \in Nat
        /\ EdgeOf(InCursor(e)) = e /\ ListOf(InCursor(e)) = "in"
    BY <2>2, CursorWords
  <2> QED
    BY <2>1, <2>3 DEF Cursor, Passed
<1> QED
  BY <1>1, <1>2

(* The cursor that follows a scanned out-list. *)
LEMMA AfterOut ==
  ASSUME IsGraph(Shape), NEW S, NEW v, Scanned(Shape, S, "out", v, NoIndex),
         NEW c, c = IF Incident THEN InCursor(HeadOf("in", v)) ELSE NoIndex
  PROVE  Cursor(Shape, v, c) /\ Passed(Shape, S, v, c)
<1>0. Shape.directed = directed /\ directed \in BOOLEAN /\ Incident = ~directed
  BY DEF Shape, Incident, IsGraph
<1>1. CASE directed
  <2>1. Adjacent(Shape, v) \subseteq S
    BY <1>0, <1>1, ListsScanned
  <2> QED
    BY <1>0, <1>1, <2>1 DEF Cursor, Passed
<1>2. CASE ~directed
  <2>1. Place(Shape, "in", v, HeadOf("in", v)) /\ Scanned(Shape, S, "in", v, HeadOf("in", v))
    BY HeadFacts DEF Lists
  <2> QED
    BY <1>0, <1>2, <2>1, InCursorFacts
<1> QED
  BY <1>0, <1>1, <1>2

LEMMA FirstCursorFacts ==
  ASSUME IsGraph(Shape), NEW S, NEW v
  PROVE  Cursor(Shape, v, FirstCursor(v)) /\ Passed(Shape, S, v, FirstCursor(v))
<1> DEFINE h == HeadOf("out", v)
<1>1. Place(Shape, "out", v, h) /\ Scanned(Shape, S, "out", v, h)
  BY HeadFacts DEF Lists
<1>2. CASE h # NoIndex
  <2>1. FirstCursor(v) = h
    BY <1>2 DEF FirstCursor
  <2> QED
    BY <1>1, <1>2, <2>1, OutCursor
<1>3. CASE h = NoIndex
  <2>1. FirstCursor(v) = IF Incident THEN InCursor(HeadOf("in", v)) ELSE NoIndex
    BY <1>3 DEF FirstCursor
  <2> QED
    BY <1>1, <1>3, <2>1, AfterOut
<1> QED
  BY <1>2, <1>3

LEMMA NextCursorFacts ==
  ASSUME IsGraph(Shape), NEW S, NEW v, NEW c, c # NoIndex, Cursor(Shape, v, c), Passed(Shape, S, v, c),
         Across(ListOf(c), EdgeOf(c)) \in S
  PROVE  Cursor(Shape, v, NextCursor(v, c)) /\ Passed(Shape, S, v, NextCursor(v, c))
<1> DEFINE l == ListOf(c)
           e == EdgeOf(c)
           n == NextOf(l, e)
<1>1. l \in Lists
  BY DEF ListOf, Lists
<1>2. e \in On(Shape, l, v) /\ Scanned(Shape, S, l, v, e)
  BY DEF Cursor, Passed
<1>3. Place(Shape, l, v, n) /\ Scanned(Shape, S, l, v, n)
  <2> HIDE DEF l, e
  <2> QED
    BY <1>1, <1>2, NextFacts DEF l, e
<1>4. CASE l = "in"
  <2>1. NextCursor(v, c) = InCursor(n)
    BY <1>4 DEF NextCursor
  <2>2. ~Shape.directed /\ Scanned(Shape, S, "out", v, NoIndex)
    BY <1>4 DEF Cursor, Passed
  <2> HIDE DEF n, l
  <2> QED
    BY <1>3, <1>4, <2>1, <2>2, InCursorFacts
<1>5. CASE l = "out" /\ n # NoIndex
  <2>1. NextCursor(v, c) = n
    BY <1>5 DEF NextCursor
  <2> HIDE DEF n, l
  <2> QED
    BY <1>3, <1>5, <2>1, OutCursor
<1>6. CASE l = "out" /\ n = NoIndex
  <2>1. NextCursor(v, c) = IF Incident THEN InCursor(HeadOf("in", v)) ELSE NoIndex
    BY <1>6 DEF NextCursor
  <2> HIDE DEF n, l
  <2> QED
    BY <1>3, <1>6, <2>1, AfterOut
<1> QED
  BY <1>1, <1>4, <1>5, <1>6 DEF Lists

(* The vertices q that are being walked, with their cursors c, and S, what has
   been marked.                                                             *)
Stack(g, q, c, S) ==
  /\ q \in Seq(Vertices) /\ c \in Seq(Nat) /\ Len(c) = Len(q)
  /\ \A i, j \in 1 .. Len(q) : q[i] = q[j] => i = j
  /\ \A i \in 1 .. Len(q) : q[i] \in S /\ Cursor(g, q[i], c[i]) /\ Passed(g, S, q[i], c[i])

(* A marked vertex is being walked, or the walk is through with it. *)
Through(g, q, S) ==
  \A v \in S : (\E i \in 1 .. Len(q) : q[i] = v) \/ Adjacent(g, v) \subseteq S

LEMMA StackAdvance ==
  ASSUME NEW g, NEW q, NEW c, NEW S, NEW T, Stack(g, q, c, S), S \subseteq T, Len(q) > 0,
         NEW d \in Nat, Cursor(g, q[Len(q)], d), Passed(g, T, q[Len(q)], d)
  PROVE  Stack(g, q, [c EXCEPT ![Len(q)] = d], T)
<1> DEFINE n == Len(q)
           e == [c EXCEPT ![n] = d]
<1>1. n \in Nat /\ n \in 1 .. n /\ n = Len(c) /\ c \in Seq(Nat)
  BY DEF Stack
<1>2. e \in Seq(Nat) /\ Len(e) = n /\ e[n] = d /\ \A i \in 1 .. n : i # n => e[i] = c[i]
  BY <1>1
<1> HIDE DEF e
<1>3. \A i \in 1 .. n : q[i] \in T /\ Cursor(g, q[i], e[i]) /\ Passed(g, T, q[i], e[i])
  <2> SUFFICES ASSUME NEW i \in 1 .. n PROVE q[i] \in T /\ Cursor(g, q[i], e[i]) /\ Passed(g, T, q[i], e[i])
    OBVIOUS
  <2>1. q[i] \in S /\ Cursor(g, q[i], c[i]) /\ Passed(g, S, q[i], c[i])
    BY DEF Stack
  <2>2. Passed(g, T, q[i], c[i])
    BY <2>1, PassedMore
  <2> QED
    BY <1>2, <2>1, <2>2
<1> QED
  BY <1>1, <1>2, <1>3 DEF Stack, e

LEMMA StackPush ==
  ASSUME NEW g, NEW q, NEW c, NEW S, NEW T, Stack(g, q, c, T), S \subseteq T,
         \A i \in 1 .. Len(q) : q[i] \in S,
         NEW v \in Vertices, v \in T, v \notin S, NEW d \in Nat, Cursor(g, v, d), Passed(g, T, v, d)
  PROVE  Stack(g, Append(q, v), Append(c, d), T)
<1> DEFINE n == Len(q)
           p == Append(q, v)
           e == Append(c, d)
<1>1. n \in Nat /\ n = Len(c) /\ c \in Seq(Nat) /\ q \in Seq(Vertices)
  BY DEF Stack
<1>2. /\ p \in Seq(Vertices) /\ Len(p) = n + 1 /\ p[n + 1] = v /\ \A i \in 1 .. n : p[i] = q[i]
      /\ e \in Seq(Nat) /\ Len(e) = n + 1 /\ e[n + 1] = d /\ \A i \in 1 .. n : e[i] = c[i]
  BY <1>1
<1>3. \A i \in 1 .. n + 1 : i = n + 1 \/ i \in 1 .. n
  BY <1>1
<1> HIDE DEF p, e
<1>4. \A i \in 1 .. n + 1 : p[i] \in T /\ Cursor(g, p[i], e[i]) /\ Passed(g, T, p[i], e[i])
  BY <1>2, <1>3 DEF Stack
<1>5. \A i, j \in 1 .. n + 1 : p[i] = p[j] => i = j
  <2>1. \A i \in 1 .. n : q[i] # v
    OBVIOUS
  <2>2. \A i, j \in 1 .. n : q[i] = q[j] => i = j
    BY DEF Stack
  <2> QED
    BY ONLY <1>2, <1>3, <2>1, <2>2
<1>6. Stack(g, p, e, T)
  BY <1>2, <1>4, <1>5 DEF Stack
<1> QED
  BY <1>6 DEF p, e

LEMMA StackPop ==
  ASSUME NEW g, NEW q, NEW c, NEW S, Stack(g, q, c, S), Through(g, q, S), Len(q) > 0, c[Len(q)] = NoIndex
  PROVE  LET n == Len(q) IN Stack(g, SubSeq(q, 1, n - 1), SubSeq(c, 1, n - 1), S)
                            /\ Through(g, SubSeq(q, 1, n - 1), S)
<1> DEFINE n == Len(q)
           p == SubSeq(q, 1, n - 1)
           e == SubSeq(c, 1, n - 1)
<1>1. n \in Nat /\ n \in 1 .. n /\ n = Len(c) /\ c \in Seq(Nat) /\ q \in Seq(Vertices)
  BY DEF Stack
<1>2. /\ p \in Seq(Vertices) /\ Len(p) = n - 1 /\ \A i \in 1 .. n - 1 : p[i] = q[i]
      /\ e \in Seq(Nat) /\ Len(e) = n - 1 /\ \A i \in 1 .. n - 1 : e[i] = c[i]
  BY <1>1
<1>3. \A i \in 1 .. n - 1 : i \in 1 .. n
  BY <1>1
<1>3a. \A i \in 1 .. n : i = n \/ i \in 1 .. n - 1
  BY <1>1
<1> HIDE DEF p, e
<1>4. Stack(g, p, e, S)
  BY <1>2, <1>3 DEF Stack
<1>5. Adjacent(g, q[n]) \subseteq S
  BY <1>1 DEF Stack, Passed
<1>6. Through(g, p, S)
  <2> SUFFICES ASSUME NEW v \in S, ~(Adjacent(g, v) \subseteq S) PROVE \E i \in 1 .. Len(p) : p[i] = v
    BY DEF Through
  <2>1. PICK i \in 1 .. n : q[i] = v
    BY DEF Through
  <2>2. i \in 1 .. n - 1
    BY <1>3a, <1>5, <2>1
  <2> QED
    BY <1>2, <2>1, <2>2
<1> QED
  BY <1>4, <1>6 DEF p, e
(***************************************************************************)
(* The invariant.                                                          *)
(***************************************************************************)
(* What the callback was told: which vertices, and each of them once. *)
Told(o) == {o[i][1] : i \in 1 .. Len(o)}

Once(o) == \A i, j \in 1 .. Len(o) : o[i][1] = o[j][1] => i = j

(* A scan at place s on the lists of v. *)
Scanning(g, v, s, S) ==
  /\ Place(g, s.list, v, s.edge) /\ Scanned(g, S, s.list, v, s.edge)
  /\ s.list = "in" => ~g.directed /\ Scanned(g, S, "out", v, NoIndex)

Base ==
  /\ IsGraph(Shape)
  /\ pc \in {"idle", "start", "loop", "scan", "done"}
  /\ call \in [walk : {"none", "bfs", "dfs", "reach"}, start : Vertices, target : Vertices]
  /\ scan \in [list : Lists, edge : DOMAIN edges \cup {NoIndex}]
  /\ visits \in [order : Seq(Vertices \X Nat), stopped : BOOLEAN]
  /\ found \in BOOLEAN
  /\ pc = "idle" <=> call.walk = "none"
  /\ pc = "scan" => call.walk # "dfs"
  /\ visits.stopped => pc = "done"

(* Before a walk begins its scratch is not in use. *)
Fresh ==
  pc \in {"idle", "start"} =>
    /\ work = <<>> /\ work2 = <<>> /\ head = 0 /\ visits.order = <<>>
    /\ visited = IF pc = "idle" THEN {} ELSE {call.start}

(* Only what can be reached is marked. *)
Marks ==
  pc # "idle" => call.start \in visited /\ visited \subseteq Near(Shape, call.start)[VertexCapacity]

Sought ==
  /\ found <=> (call.walk = "reach" /\ call.target \in Told(visits.order))
  /\ call.walk = "reach" => (visits.stopped <=> found)

BreadthFirst ==
  call.walk \in {"bfs", "reach"} /\ pc # "start" =>
    /\ Frontier(Shape, call.start, work, head, visited)
    /\ Depths(Shape, call.start, work, work2, head)
    /\ visits.order = [i \in 1 .. head |-> <<work[i], work2[i]>>]
    /\ pc = "loop" /\ head > 0 => Adjacent(Shape, work[head]) \subseteq visited
    /\ pc = "scan" => head > 0 /\ Scanning(Shape, work[head], scan, visited)
    /\ pc = "done" /\ ~visits.stopped => head = Len(work) /\ Adjacent(Shape, work[head]) \subseteq visited

DepthFirst ==
  call.walk = "dfs" /\ pc # "start" =>
    /\ head = 0
    /\ Stack(Shape, work, work2, visited)
    /\ Once(visits.order) /\ visited = Told(visits.order)
    /\ ~visits.stopped => Through(Shape, work, visited)
    /\ pc = "done" /\ ~visits.stopped => work = <<>>

WalkInv == Base /\ Fresh /\ Marks /\ Sought /\ BreadthFirst /\ DepthFirst

LEMMA ToldAppend ==
  ASSUME NEW o \in Seq(Vertices \X Nat), NEW v \in Vertices, NEW d \in Nat
  PROVE  /\ Append(o, <<v, d>>) \in Seq(Vertices \X Nat)
         /\ Told(Append(o, <<v, d>>)) = Told(o) \cup {v}
         /\ Once(o) /\ v \notin Told(o) => Once(Append(o, <<v, d>>))
<1> DEFINE n == Len(o)
           x == <<v, d>>
           p == Append(o, x)
<1>1. n \in Nat /\ x \in Vertices \X Nat /\ x[1] = v
  OBVIOUS
<1>2. p \in Seq(Vertices \X Nat) /\ Len(p) = n + 1 /\ p[n + 1] = x /\ \A i \in 1 .. n : p[i] = o[i]
  BY <1>1
<1>3. \A i \in 1 .. n + 1 : i = n + 1 \/ i \in 1 .. n
  BY <1>1
<1>4. n + 1 \in 1 .. n + 1 /\ \A i \in 1 .. n : i \in 1 .. n + 1
  BY <1>1
<1> HIDE DEF p, x
<1>5. Told(p) = Told(o) \cup {v}
  <2>1. Told(p) \subseteq Told(o) \cup {v}
    BY <1>1, <1>2, <1>3 DEF Told
  <2>2. Told(o) \subseteq Told(p)
    BY <1>2, <1>4 DEF Told
  <2>3. v \in Told(p)
    BY <1>1, <1>2, <1>4 DEF Told
  <2> QED
    BY <2>1, <2>2, <2>3
<1>6. Once(o) /\ v \notin Told(o) => Once(p)
  <2> SUFFICES ASSUME Once(o), v \notin Told(o), NEW i \in 1 .. n + 1, NEW j \in 1 .. n + 1, p[i][1] = p[j][1]
               PROVE  i = j
    BY <1>2 DEF Once
  <2>1. \A k \in 1 .. n : o[k][1] # v
    BY DEF Told
  <2>2. CASE i \in 1 .. n /\ j \in 1 .. n
    BY <1>2, <2>2 DEF Once
  <2>3. CASE i = n + 1 \/ j = n + 1
    BY <1>1, <1>2, <1>3, <2>1, <2>3
  <2> QED
    BY <1>3, <2>2, <2>3
<1> QED
  BY <1>2, <1>5, <1>6 DEF p, x

(* What the callback is told, and what it answers, goes on record. *)
LEMMA VisitFacts ==
  ASSUME Base, Sought, ~visits.stopped, NEW v \in Vertices, NEW d \in Nat, NEW more \in BOOLEAN,
         Visit(v, d, more), UNCHANGED call
  PROVE  /\ visits' \in [order : Seq(Vertices \X Nat), stopped : BOOLEAN]
         /\ visits'.order = Append(visits.order, <<v, d>>) /\ visits'.stopped = ~more
         /\ Told(visits'.order) = Told(visits.order) \cup {v}
         /\ Once(visits.order) /\ v \notin Told(visits.order) => Once(visits'.order)
         /\ found' \in BOOLEAN /\ Sought'
<1>1. visits' = [order |-> Append(visits.order, <<v, d>>), stopped |-> ~more]
  BY DEF Visit
<1>2. visits.order \in Seq(Vertices \X Nat) /\ visits.stopped = FALSE /\ found \in BOOLEAN
  BY DEF Base
<1>3. /\ Append(visits.order, <<v, d>>) \in Seq(Vertices \X Nat)
      /\ Told(visits'.order) = Told(visits.order) \cup {v}
      /\ Once(visits.order) /\ v \notin Told(visits.order) => Once(visits'.order)
  BY <1>1, <1>2, ToldAppend
<1>4. /\ call.walk = "reach" => (more <=> v # call.target)
      /\ found' = (found \/ (call.walk = "reach" /\ v = call.target))
  BY DEF Visit
<1>5. Sought'
  BY <1>1, <1>2, <1>3, <1>4 DEF Sought
<1> QED
  BY <1>1, <1>2, <1>3, <1>4, <1>5

LEMMA InitInv == Init => WalkInv
<1> SUFFICES ASSUME Init PROVE WalkInv
  OBVIOUS
<1>1. IsGraph(Shape)
  BY DEF Init, IsGraph, Shape, Records
<1>2. 0 \in Vertices
  BY WalkAssumption DEF Vertices
<1>3. Base
  <2>1. <<>> \in Seq(Vertices \X Nat)
    OBVIOUS
  <2>2. call \in [walk : {"none", "bfs", "dfs", "reach"}, start : Vertices, target : Vertices]
    BY <1>2 DEF Init
  <2>3. scan \in [list : Lists, edge : DOMAIN edges \cup {NoIndex}]
    BY DEF Init, NoScan, Lists
  <2>4. visits \in [order : Seq(Vertices \X Nat), stopped : BOOLEAN]
    BY <2>1 DEF Init
  <2> QED
    BY <1>1, <2>2, <2>3, <2>4 DEF Init, Base
<1>4. Told(<<>>) = {}
  BY DEF Told
<1> QED
  BY <1>3, <1>4 DEF Init, WalkInv, Fresh, Marks, Sought, BreadthFirst, DepthFirst

(* A step of a walk leaves the graph as it is. *)
LEMMA ShapeKept == UNCHANGED graph => Shape' = Shape /\ edges' = edges
  BY DEF graph, Shape
(* The start can be reached, and so can what is next to what can be. *)
LEMMA ReachFacts ==
  ASSUME IsGraph(Shape), NEW s \in Vertices
  PROVE  /\ s \in Near(Shape, s)[VertexCapacity]
         /\ \A u \in Near(Shape, s)[VertexCapacity] :
              Adjacent(Shape, u) \subseteq Near(Shape, s)[VertexCapacity]
<1> DEFINE B == Near(Shape, s)
           g == Shape
<1>1. Balls(g, s, B)
  BY NearFacts
<1>2. VertexCapacity \in Nat /\ 0 \in Nat /\ 0 <= VertexCapacity
  BY WalkAssumption
<1> HIDE DEF B, g
<1>3. B[0] \subseteq B[VertexCapacity]
  BY <1>1, <1>2, BallsMonotone
<1>4. s \in B[VertexCapacity]
  BY <1>1, <1>3 DEF Balls
<1>5. \A u \in B[VertexCapacity] : Adjacent(g, u) \subseteq B[VertexCapacity]
  BY <1>1, ReachClosed
<1> QED
  BY <1>4, <1>5 DEF B, g

LEMMA CallInv ==
  ASSUME WalkInv, NEW walk \in {"bfs", "dfs", "reach"}, NEW start \in Vertices, NEW target \in Vertices,
         Call(walk, start, target)
  PROVE  WalkInv'
<1>1. /\ pc' = "start" /\ call' = [walk |-> walk, start |-> start, target |-> target]
      /\ visited' = {start} /\ found' = FALSE /\ visits' = [order |-> <<>>, stopped |-> FALSE]
      /\ work' = <<>> /\ work2' = <<>> /\ head' = 0 /\ scan' = NoScan
      /\ Shape' = Shape /\ edges' = edges
  BY ShapeKept DEF Call, Marked
<1>2. Base'
  <2>1. <<>> \in Seq(Vertices \X Nat)
    OBVIOUS
  <2>2. visits' \in [order : Seq(Vertices \X Nat), stopped : BOOLEAN]
    BY <1>1, <2>1
  <2>3. scan' \in [list : Lists, edge : DOMAIN edges' \cup {NoIndex}]
    BY <1>1 DEF NoScan, Lists
  <2>4. call' \in [walk : {"none", "bfs", "dfs", "reach"}, start : Vertices, target : Vertices]
    BY <1>1
  <2>5. IsGraph(Shape)'
    BY <1>1 DEF WalkInv, Base
  <2> QED
    BY <1>1, <2>2, <2>3, <2>4, <2>5 DEF Base
<1>3. Fresh'
  BY <1>1 DEF Fresh
<1>4. Marks'
  BY <1>1, ReachFacts DEF WalkInv, Base, Marks
<1>5. Sought'
  <2>1. Told(<<>>) = {}
    BY DEF Told
  <2> QED
    BY <1>1, <2>1 DEF Sought
<1> QED
  BY <1>1, <1>2, <1>3, <1>4, <1>5 DEF WalkInv, BreadthFirst, DepthFirst

LEMMA BfsStartInv ==
  ASSUME WalkInv, BfsStart
  PROVE  WalkInv'
<1>1. /\ pc = "start" /\ call.walk # "dfs" /\ pc' = "loop"
      /\ work' = <<call.start>> /\ work2' = <<0>> /\ head' = 0
      /\ UNCHANGED <<call, scan, visited, found, visits>> /\ Shape' = Shape /\ edges' = edges
  BY ShapeKept DEF BfsStart
<1>2. Base /\ Fresh /\ Marks /\ Sought
  BY DEF WalkInv
<1>3. Base' /\ Fresh' /\ Marks' /\ Sought'
  BY <1>1, <1>2 DEF Base, Fresh, Marks, Sought
<1>4. visited = {call.start} /\ visits.order = <<>> /\ ~visits.stopped /\ call.start \in Vertices /\ IsGraph(Shape)
  BY <1>1, <1>2 DEF Fresh, Base
<1> DEFINE s == call.start
           q == <<s>>
           d == <<0>>
<1>5. /\ q \in Seq(Vertices) /\ Len(q) = 1 /\ q[1] = s /\ d \in Seq(Nat) /\ Len(d) = 1 /\ d[1] = 0
      /\ \A i \in 1 .. 1 : i = 1
  BY <1>4
<1>6. Near(Shape, s)[0] = {s}
  <2>1. Balls(Shape, s, Near(Shape, s))
    BY <1>4, NearFacts
  <2> QED
    BY <2>1 DEF Balls
<1> HIDE DEF q, d, s
<1>7. Frontier(Shape, s, q, 0, {s})
  BY <1>5 DEF Frontier
<1>8. Depths(Shape, s, q, d, 0)
  BY <1>5, <1>6 DEF Depths
<1>9. BreadthFirst'
  <2>1. visits.order = [i \in 1 .. 0 |-> <<work'[i], work2'[i]>>]
    BY <1>4
  <2> QED
    BY <1>1, <1>4, <1>7, <1>8, <2>1 DEF BreadthFirst, s, q, d
<1> QED
  BY <1>1, <1>3, <1>9 DEF WalkInv, DepthFirst

LEMMA BfsDoneInv ==
  ASSUME WalkInv, BfsDone
  PROVE  WalkInv'
<1>1. /\ pc = "loop" /\ call.walk # "dfs" /\ head = Len(work) /\ pc' = "done"
      /\ UNCHANGED <<call, work, work2, head, scan, visited, found, visits>> /\ Shape' = Shape /\ edges' = edges
  BY ShapeKept DEF BfsDone, scratch
<1>2. Base /\ Fresh /\ Marks /\ Sought /\ BreadthFirst
  BY DEF WalkInv
<1>3. Base' /\ Fresh' /\ Marks' /\ Sought'
  BY <1>1, <1>2 DEF Base, Fresh, Marks, Sought
<1>4. BreadthFirst'
  <2>1. call.walk \in {"bfs", "reach"}
    BY <1>1, <1>2 DEF Base
  <2>2. head > 0
    BY <1>1, <1>2, <2>1 DEF BreadthFirst, Frontier
  <2> QED
    BY <1>1, <1>2, <2>1, <2>2 DEF BreadthFirst
<1> QED
  BY <1>1, <1>3, <1>4 DEF WalkInv, DepthFirst

LEMMA DfsDoneInv ==
  ASSUME WalkInv, DfsDone
  PROVE  WalkInv'
<1>1. /\ pc = "loop" /\ call.walk = "dfs" /\ Len(work) = 0 /\ pc' = "done"
      /\ UNCHANGED <<call, work, work2, head, scan, visited, found, visits>> /\ Shape' = Shape /\ edges' = edges
  BY ShapeKept DEF DfsDone, scratch, Top
<1>2. Base /\ Fresh /\ Marks /\ Sought /\ DepthFirst
  BY DEF WalkInv
<1>3. Base' /\ Fresh' /\ Marks' /\ Sought'
  BY <1>1, <1>2 DEF Base, Fresh, Marks, Sought
<1>4. DepthFirst'
  <2>1. work = <<>>
    BY <1>1, <1>2 DEF DepthFirst, Stack
  <2> QED
    BY <1>1, <1>2, <2>1 DEF DepthFirst
<1> QED
  BY <1>1, <1>3, <1>4 DEF WalkInv, BreadthFirst
LEMMA BfsVisitInv ==
  ASSUME WalkInv, NEW more \in BOOLEAN, BfsVisit(more)
  PROVE  WalkInv'
<1> DEFINE v == work[head + 1]
           n == work2[head + 1]
<1>1. /\ pc = "loop" /\ call.walk # "dfs" /\ head < Len(work) /\ head' = head + 1
      /\ Visit(v, n, more) /\ pc' = IF more THEN "scan" ELSE "done"
      /\ scan' = [list |-> "out", edge |-> HeadOf("out", v)]
      /\ UNCHANGED <<call, work, work2, visited>> /\ Shape' = Shape /\ edges' = edges
  BY ShapeKept DEF BfsVisit
<1>2. Base /\ Fresh /\ Marks /\ Sought /\ BreadthFirst
  BY DEF WalkInv
<1>3. call.walk \in {"bfs", "reach"} /\ IsGraph(Shape) /\ ~visits.stopped
  BY <1>1, <1>2 DEF Base
<1>4. /\ Frontier(Shape, call.start, work, head, visited) /\ Depths(Shape, call.start, work, work2, head)
      /\ visits.order = [i \in 1 .. head |-> <<work[i], work2[i]>>]
      /\ head > 0 => Adjacent(Shape, work[head]) \subseteq visited
  BY <1>1, <1>2, <1>3 DEF BreadthFirst
<1>5. head \in Nat /\ head + 1 \in 1 .. Len(work) /\ v \in Vertices /\ n \in Nat
  <2>1. head \in 0 .. Len(work) /\ work \in Seq(Vertices) /\ work2 \in Seq(Nat) /\ Len(work2) = Len(work)
    BY <1>4 DEF Frontier, Depths
  <2>2. head + 1 \in 1 .. Len(work)
    BY <1>1, <2>1
  <2> QED
    BY <2>1, <2>2
<1>6. /\ visits' \in [order : Seq(Vertices \X Nat), stopped : BOOLEAN]
      /\ visits'.order = Append(visits.order, <<v, n>>) /\ visits'.stopped = ~more
      /\ found' \in BOOLEAN /\ Sought'
  <2> HIDE DEF v, n
  <2> QED
    BY <1>1, <1>2, <1>3, <1>5, VisitFacts
<1>7. Place(Shape, "out", v, HeadOf("out", v)) /\ Scanned(Shape, visited, "out", v, HeadOf("out", v))
  BY <1>3, HeadFacts DEF Lists
<1>8. scan' \in [list : Lists, edge : DOMAIN edges' \cup {NoIndex}]
  <2>1. HeadOf("out", v) \in DOMAIN edges \cup {NoIndex}
    BY <1>7 DEF Place, On, Shape
  <2> QED
    BY <1>1, <2>1 DEF Lists
<1>9. Base'
  BY <1>1, <1>2, <1>3, <1>6, <1>8 DEF Base
<1>10. Fresh' /\ Marks' /\ DepthFirst'
  BY <1>1, <1>2, <1>3 DEF Fresh, Marks, DepthFirst
<1>11. /\ Frontier(Shape, call.start, work, head + 1, visited)
       /\ Depths(Shape, call.start, work, work2, head + 1)
  BY <1>1, <1>4, FrontierVisit
<1>12. visits'.order = [i \in 1 .. head' |-> <<work'[i], work2'[i]>>]
  <2> DEFINE o == [i \in 1 .. head |-> <<work[i], work2[i]>>]
             x == <<v, n>>
             p == [i \in 1 .. head + 1 |-> <<work[i], work2[i]>>]
  <2>1. Len(o) = head /\ Append(o, x) = [i \in 1 .. Len(o) + 1 |-> IF i <= Len(o) THEN o[i] ELSE x]
    BY <1>5
  <2>2. \A i \in 1 .. head + 1 : (i <= head => i \in 1 .. head) /\ (~(i <= head) => i = head + 1)
    BY <1>5
  <2>3. \A i \in 1 .. head + 1 : p[i] = IF i <= head THEN o[i] ELSE x
    BY <2>2
  <2>4. p = [i \in 1 .. head + 1 |-> IF i <= head THEN o[i] ELSE x]
    <3> HIDE DEF o, x
    <3> QED
      BY <2>3
  <2>5. Append(o, x) = p
    BY <2>1, <2>4
  <2> QED
    BY <1>1, <1>4, <1>6, <2>5
<1>13. BreadthFirst'
  <2>1. pc' = "scan" \/ (pc' = "done" /\ visits'.stopped)
    BY <1>1, <1>6
  <2>2. Scanning(Shape, v, scan', visited)
    BY <1>1, <1>7 DEF Scanning
  <2>3. head' > 0 /\ work'[head'] = v
    BY <1>1, <1>5
  <2> HIDE DEF v
  <2> QED
    BY <1>1, <1>11, <1>12, <2>1, <2>2, <2>3 DEF BreadthFirst
<1> QED
  BY <1>6, <1>9, <1>10, <1>13 DEF WalkInv

LEMMA BfsEdgeInv ==
  ASSUME WalkInv, BfsEdge
  PROVE  WalkInv'
<1> DEFINE l == scan.list
           e == scan.edge
           v == Across(l, e)
           g == Shape
           s == call.start
           u == work[head]
<1>1. /\ pc = "scan" /\ e # NoIndex /\ Push(v) /\ scan' = [scan EXCEPT !.edge = NextOf(l, e)]
      /\ UNCHANGED <<pc, call, head, found, visits>> /\ Shape' = g /\ edges' = edges
  BY ShapeKept DEF BfsEdge
<1>2. Base /\ Fresh /\ Marks /\ Sought /\ BreadthFirst
  BY DEF WalkInv
<1>3. /\ call.walk \in {"bfs", "reach"} /\ IsGraph(g) /\ s \in Vertices
      /\ scan \in [list : Lists, edge : DOMAIN edges \cup {NoIndex}] /\ l \in Lists
  BY <1>1, <1>2 DEF Base
<1>4. /\ Frontier(g, s, work, head, visited) /\ Depths(g, s, work, work2, head)
      /\ visits.order = [i \in 1 .. head |-> <<work[i], work2[i]>>]
      /\ head > 0 /\ Scanning(g, u, scan, visited)
  BY <1>1, <1>2, <1>3 DEF BreadthFirst
<1>5. /\ e \in On(g, l, u) /\ Scanned(g, visited, l, u, e)
      /\ l = "in" => ~g.directed /\ Scanned(g, visited, "out", u, NoIndex)
  BY <1>1, <1>4 DEF Scanning, Place
<1>6. v = Far(g, l, e) /\ v \in Vertices /\ v \in Adjacent(g, u)
  <2>1. v = Far(g, l, e)
    BY DEF Across, Far, Shape
  <2>2. v \in Vertices
    <3>1. e \in DOMAIN g.edges
      BY <1>5 DEF On
    <3> HIDE DEF g, l, e, v
    <3> QED
      BY <1>3, <2>1, <3>1, GraphFacts
  <2>3. v \in Adjacent(g, u)
    <3> HIDE DEF g, e, v, u
    <3> QED
      BY <1>3, <1>5, <2>1 DEF Adjacent, Lists
  <2> QED
    BY <2>1, <2>2, <2>3
<1>7. head \in 1 .. Len(work) /\ head >= 1 /\ u \in visited
  BY <1>4 DEF Frontier
<1>8. /\ visited' = visited \cup {v}
      /\ Frontier(g, s, work', head, visited') /\ Depths(g, s, work', work2', head)
      /\ \A i \in 1 .. head : work'[i] = work[i] /\ work2'[i] = work2[i]
  <2>1. CASE v \in visited
    <3>1. UNCHANGED <<work, work2, visited>>
      BY <1>1, <2>1 DEF Push
    <3> HIDE DEF g, s, v
    <3> QED
      BY <1>4, <2>1, <3>1
  <2>2. CASE v \notin visited
    <3>1. visited' = visited \cup {v} /\ work' = Append(work, v) /\ work2' = Append(work2, work2[head] + 1)
      BY <1>1, <2>2 DEF Push
    <3>2. Balls(g, s, Near(g, s))
      BY <1>3, NearFacts
    <3> HIDE DEF g, s, v
    <3>3. Frontier(g, s, work', head, visited')
      BY <1>4, <1>6, <1>7, <2>2, <3>1, FrontierPush
    <3>4. Depths(g, s, work', work2', head)
      BY <1>4, <1>6, <1>7, <2>2, <3>1, <3>2, DepthsPush DEF u
    <3>5. \A i \in 1 .. head : work'[i] = work[i] /\ work2'[i] = work2[i]
      BY <1>4, <1>7, <3>1 DEF Frontier, Depths
    <3> QED
      BY <3>1, <3>3, <3>4, <3>5
  <2> QED
    BY <2>1, <2>2
<1>9. Place(g, l, u, NextOf(l, e)) /\ Scanned(g, visited', l, u, NextOf(l, e))
  <2>1. Scanned(g, visited', l, u, e) /\ v \in visited'
    BY <1>5, <1>8 DEF Scanned
  <2> HIDE DEF l, e, u
  <2> QED
    BY <1>3, <1>5, <2>1, NextFacts
<1>10. scan' \in [list : Lists, edge : DOMAIN edges' \cup {NoIndex}] /\ scan'.list = l /\ scan'.edge = NextOf(l, e)
  <2>1. NextOf(l, e) \in DOMAIN edges \cup {NoIndex}
    BY <1>9 DEF Place, On, Shape
  <2> QED
    BY <1>1, <1>3, <2>1
<1> HIDE DEF l, e, v
<1>11. Base' /\ Fresh' /\ Sought'
  <2>1. IsGraph(Shape)'
    BY <1>1, <1>3
  <2> QED
    BY <1>1, <1>2, <1>10, <2>1 DEF Base, Fresh, Sought
<1>12. Marks'
  <2>1. v \in Near(g, s)[VertexCapacity]
    BY <1>1, <1>2, <1>3, <1>6, <1>7, ReachFacts DEF Marks
  <2> QED
    BY <1>1, <1>2, <1>8, <2>1 DEF Marks
<1>13. BreadthFirst'
  <2>1. work'[head] = u
    BY <1>7, <1>8
  <2>2. Scanning(g, u, scan', visited')
    BY <1>5, <1>8, <1>9, <1>10 DEF Scanning, Scanned
  <2>3. visits'.order = [i \in 1 .. head' |-> <<work'[i], work2'[i]>>]
    BY <1>1, <1>4, <1>8
  <2> HIDE DEF u, g, s
  <2> QED
    BY <1>1, <1>4, <1>8, <2>1, <2>2, <2>3 DEF BreadthFirst, s
<1> QED
  BY <1>1, <1>3, <1>11, <1>12, <1>13 DEF WalkInv, DepthFirst

LEMMA BfsListDoneInv ==
  ASSUME WalkInv, BfsListDone
  PROVE  WalkInv'
<1> DEFINE g == Shape
           u == work[head]
           h == HeadOf("in", u)
<1>1. /\ pc = "scan" /\ scan.edge = NoIndex
      /\ UNCHANGED <<call, work, work2, head, visited, found, visits>> /\ Shape' = g /\ edges' = edges
  BY ShapeKept DEF BfsListDone
<1>2. Base /\ Fresh /\ Marks /\ Sought /\ BreadthFirst
  BY DEF WalkInv
<1>3. /\ call.walk \in {"bfs", "reach"} /\ IsGraph(g) /\ scan.list \in Lists
  BY <1>1, <1>2 DEF Base
<1>4. /\ Frontier(g, call.start, work, head, visited) /\ Depths(g, call.start, work, work2, head)
      /\ visits.order = [i \in 1 .. head |-> <<work[i], work2[i]>>]
      /\ head > 0 /\ Scanned(g, visited, scan.list, u, NoIndex)
      /\ scan.list = "in" => ~g.directed /\ Scanned(g, visited, "out", u, NoIndex)
  BY <1>1, <1>2, <1>3 DEF BreadthFirst, Scanning
<1>5. g.directed = directed /\ directed \in BOOLEAN
  BY <1>3 DEF Shape, IsGraph
<1>6. CASE scan.list = "out" /\ Incident
  <2>1. scan' = [list |-> "in", edge |-> h] /\ pc' = pc
    BY <1>6 DEF BfsListDone
  <2>2. Place(g, "in", u, h) /\ Scanned(g, visited, "in", u, h)
    BY <1>3, HeadFacts DEF Lists
  <2>3. scan' \in [list : Lists, edge : DOMAIN edges' \cup {NoIndex}]
    <3>1. h \in DOMAIN edges \cup {NoIndex}
      BY <2>2 DEF Place, On, Shape
    <3> QED
      BY <1>1, <2>1, <3>1 DEF Lists
  <2>4. Base'
    BY <1>1, <1>2, <2>1, <2>3 DEF Base
  <2>5. Fresh' /\ Marks' /\ Sought' /\ DepthFirst'
    BY <1>1, <1>2, <1>3, <2>1 DEF Fresh, Marks, Sought, DepthFirst
  <2>6. Scanning(g, u, scan', visited)
    BY <1>4, <1>5, <1>6, <2>1, <2>2 DEF Scanning, Incident
  <2>7. BreadthFirst'
    <3> HIDE DEF g, u
    <3> QED
      BY <1>1, <1>4, <2>1, <2>6 DEF BreadthFirst, u
  <2> QED
    BY <2>4, <2>5, <2>7 DEF WalkInv
<1>7. CASE ~(scan.list = "out" /\ Incident)
  <2>1. pc' = "loop" /\ scan' = scan
    BY <1>7 DEF BfsListDone
  <2>2. Base' /\ Fresh' /\ Marks' /\ Sought' /\ DepthFirst'
    BY <1>1, <1>2, <1>3, <2>1 DEF Base, Fresh, Marks, Sought, DepthFirst
  <2>3. Adjacent(g, u) \subseteq visited
    <3>1. /\ Scanned(g, visited, "out", u, NoIndex)
          /\ g.directed \/ Scanned(g, visited, "in", u, NoIndex)
      BY <1>3, <1>4, <1>5, <1>7 DEF Lists, Incident
    <3> HIDE DEF g, u
    <3> QED
      BY <1>3, <3>1, ListsScanned
  <2>4. BreadthFirst'
    <3> HIDE DEF g, u
    <3> QED
      BY <1>1, <1>4, <2>1, <2>3 DEF BreadthFirst, u
  <2> QED
    BY <2>2, <2>4 DEF WalkInv
<1> QED
  BY <1>6, <1>7
LEMMA DfsStartInv ==
  ASSUME WalkInv, NEW more \in BOOLEAN, DfsStart(more)
  PROVE  WalkInv'
<1> DEFINE s == call.start
           c == FirstCursor(s)
           g == Shape
<1>1. /\ pc = "start" /\ call.walk = "dfs" /\ Visit(s, 0, more)
      /\ UNCHANGED <<call, head, scan, visited>> /\ Shape' = g /\ edges' = edges
      /\ pc' = IF more THEN "loop" ELSE "done"
      /\ IF more THEN work' = <<s>> /\ work2' = <<c>> ELSE work' = work /\ work2' = work2
  BY ShapeKept DEF DfsStart
<1>2. Base /\ Fresh /\ Marks /\ Sought
  BY DEF WalkInv
<1>3. s \in Vertices /\ IsGraph(g) /\ ~visits.stopped
  BY <1>1, <1>2 DEF Base
<1>4. /\ visited = {s} /\ visits.order = <<>> /\ head = 0 /\ work = <<>> /\ work2 = <<>>
  BY <1>1, <1>2 DEF Fresh
<1>5. /\ visits' \in [order : Seq(Vertices \X Nat), stopped : BOOLEAN]
      /\ visits'.stopped = ~more
      /\ Told(visits'.order) = Told(visits.order) \cup {s}
      /\ Once(visits.order) /\ s \notin Told(visits.order) => Once(visits'.order)
      /\ found' \in BOOLEAN /\ Sought'
  <2> HIDE DEF s
  <2> QED
    BY <1>1, <1>2, <1>3, VisitFacts
<1>6. Once(visits'.order) /\ Told(visits'.order) = {s}
  <2>1. Told(<<>>) = {} /\ Once(<<>>)
    BY DEF Told, Once
  <2> QED
    BY <1>4, <1>5, <2>1
<1>7. Base' /\ Fresh' /\ Marks'
  <2>1. scan' \in [list : Lists, edge : DOMAIN edges' \cup {NoIndex}]
    BY <1>1, <1>2 DEF Base
  <2> QED
    BY <1>1, <1>2, <1>5, <2>1 DEF Base, Fresh, Marks
<1>8. Stack(g, <<>>, <<>>, {s}) /\ Through(g, <<s>>, {s})
  <2>1. Len(<<s>>) = 1 /\ <<s>>[1] = s /\ 1 \in 1 .. 1
    OBVIOUS
  <2>2. Through(g, <<s>>, {s})
    BY <2>1 DEF Through
  <2> QED
    BY <2>2 DEF Stack
<1>9. Stack(g, <<s>>, <<c>>, {s})
  <2>1. Cursor(g, s, c) /\ Passed(g, {s}, s, c)
    <3> HIDE DEF s
    <3> QED
      BY <1>3, FirstCursorFacts
  <2>2. c \in Nat
    BY <1>3, <2>1, GraphFacts DEF Cursor
  <2> DEFINE p == <<s>>
             q == <<c>>
  <2>3. /\ p \in Seq(Vertices) /\ q \in Seq(Nat) /\ Len(p) = 1 /\ Len(q) = 1 /\ p[1] = s /\ q[1] = c
        /\ \A i \in 1 .. 1 : i = 1
    BY <1>3, <2>2
  <2> HIDE DEF p, q, s, c, g
  <2>4. Stack(g, p, q, {s})
    BY <2>1, <2>3 DEF Stack
  <2> QED
    BY <2>4 DEF p, q
<1>10. DepthFirst'
  <2> HIDE DEF s, g, c
  <2> QED
    BY <1>1, <1>4, <1>5, <1>6, <1>8, <1>9 DEF DepthFirst
<1> QED
  BY <1>1, <1>5, <1>7, <1>10 DEF WalkInv, BreadthFirst

LEMMA DfsPopInv ==
  ASSUME WalkInv, DfsPop
  PROVE  WalkInv'
<1>1. /\ pc = "loop" /\ call.walk = "dfs" /\ Len(work) > 0 /\ work2[Len(work)] = NoIndex
      /\ work' = SubSeq(work, 1, Len(work) - 1) /\ work2' = SubSeq(work2, 1, Len(work) - 1)
      /\ UNCHANGED <<pc, call, head, scan, visited, found, visits>> /\ Shape' = Shape /\ edges' = edges
  BY ShapeKept DEF DfsPop, Top
<1>2. Base /\ Fresh /\ Marks /\ Sought /\ DepthFirst
  BY DEF WalkInv
<1>3. Base' /\ Fresh' /\ Marks' /\ Sought'
  BY <1>1, <1>2 DEF Base, Fresh, Marks, Sought
<1>4. Stack(Shape, work, work2, visited) /\ Through(Shape, work, visited)
  BY <1>1, <1>2 DEF DepthFirst, Base
<1>5. Stack(Shape, work', work2', visited) /\ Through(Shape, work', visited)
  BY <1>1, <1>4, StackPop
<1>6. DepthFirst'
  BY <1>1, <1>2, <1>5 DEF DepthFirst
<1> QED
  BY <1>1, <1>3, <1>6 DEF WalkInv, BreadthFirst

LEMMA DfsEdgeInv ==
  ASSUME WalkInv, NEW more \in BOOLEAN, DfsEdge(more)
  PROVE  WalkInv'
<1> DEFINE n == Len(work)
           u == work[n]
           c == work2[n]
           v == Across(ListOf(c), EdgeOf(c))
           d == NextCursor(u, c)
           g == Shape
           S == visited \cup {v}
<1>1. /\ pc = "loop" /\ call.walk = "dfs" /\ n > 0 /\ c # NoIndex
      /\ UNCHANGED <<call, head, scan>> /\ Shape' = g /\ edges' = edges
  BY ShapeKept DEF DfsEdge, Top
<1>2. Base /\ Fresh /\ Marks /\ Sought /\ DepthFirst
  BY DEF WalkInv
<1>3. call.start \in Vertices /\ IsGraph(g) /\ ~visits.stopped
  BY <1>1, <1>2 DEF Base
<1>4. /\ head = 0 /\ Stack(g, work, work2, visited) /\ Through(g, work, visited)
      /\ Once(visits.order) /\ visited = Told(visits.order)
  BY <1>1, <1>2, <1>3 DEF DepthFirst
<1>5. n \in Nat /\ n \in 1 .. n /\ u \in visited /\ Cursor(g, u, c) /\ Passed(g, visited, u, c) /\ u \in Vertices
  <2>1. n \in Nat /\ work \in Seq(Vertices)
    BY <1>4 DEF Stack
  <2>2. n \in 1 .. n
    BY <1>1, <2>1
  <2> QED
    BY <1>4, <2>1, <2>2 DEF Stack
<1>6. v \in Vertices /\ v \in Adjacent(g, u)
  <2> DEFINE l == ListOf(c)
             e == EdgeOf(c)
  <2>1. l \in Lists /\ e \in On(g, l, u) /\ (l = "in" => ~g.directed)
    BY <1>1, <1>5 DEF Cursor, ListOf, Lists
  <2>2. v = Far(g, l, e)
    BY DEF Across, Far, Shape
  <2>3. e \in DOMAIN g.edges
    BY <2>1 DEF On
  <2> HIDE DEF g, l, e, v, u
  <2>4. v \in Vertices
    BY <1>3, <2>1, <2>2, <2>3, GraphFacts
  <2>5. v \in Adjacent(g, u)
    BY <2>1, <2>2 DEF Adjacent, Lists
  <2> QED
    BY <2>4, <2>5
<1>7. Cursor(g, u, d) /\ Passed(g, S, u, d) /\ d \in Nat
  <2>1. Passed(g, S, u, c) /\ v \in S
    BY <1>5, PassedMore
  <2> HIDE DEF S, u, c
  <2>2. Cursor(g, u, d) /\ Passed(g, S, u, d)
    BY <1>1, <1>3, <1>5, <2>1, NextCursorFacts
  <2>3. d \in Nat
    BY <1>3, <2>2, GraphFacts DEF Cursor
  <2> QED
    BY <2>2, <2>3
<1>8. Stack(g, work, [work2 EXCEPT ![n] = d], S) /\ Advanced = [work2 EXCEPT ![n] = d]
  <2>1. Advanced = [work2 EXCEPT ![n] = d]
    BY DEF Advanced, Top
  <2> HIDE DEF d, g, S
  <2> QED
    BY <1>1, <1>4, <1>7, <2>1, StackAdvance DEF S
<1> DEFINE w == [work2 EXCEPT ![n] = d]
<1>9. v \in Near(g, call.start)[VertexCapacity]
  BY <1>1, <1>2, <1>3, <1>5, <1>6, ReachFacts DEF Marks
<1>10. \A i \in 1 .. n : work[i] \in visited
  BY <1>4 DEF Stack
<1>11. CASE v \in visited
  <2>1. work2' = w /\ UNCHANGED <<pc, work, visited, found, visits>>
    BY <1>8, <1>11 DEF DfsEdge, Top
  <2>2. Base' /\ Fresh' /\ Marks' /\ Sought'
    BY <1>1, <1>2, <2>1 DEF Base, Fresh, Marks, Sought
  <2>3. S = visited
    BY <1>11
  <2> HIDE DEF S, g, w, v
  <2>4. DepthFirst'
    BY <1>1, <1>4, <1>8, <2>1, <2>3 DEF DepthFirst, w
  <2> QED
    BY <1>1, <2>2, <2>4 DEF WalkInv, BreadthFirst
<1>12. CASE v \notin visited
  <2>1. /\ visited' = S /\ Visit(v, n, more)
        /\ IF more THEN work' = Append(work, v) /\ work2' = Append(w, FirstCursor(v)) /\ pc' = pc
                   ELSE pc' = "done" /\ work2' = w /\ work' = work
    BY <1>8, <1>12 DEF DfsEdge, Top
  <2>2. /\ visits' \in [order : Seq(Vertices \X Nat), stopped : BOOLEAN]
        /\ visits'.stopped = ~more
        /\ Told(visits'.order) = Told(visits.order) \cup {v}
        /\ Once(visits.order) /\ v \notin Told(visits.order) => Once(visits'.order)
        /\ found' \in BOOLEAN /\ Sought'
    <3> HIDE DEF v, n, g
    <3> QED
      BY <1>1, <1>2, <1>3, <1>5, <1>6, <2>1, VisitFacts
  <2>3. Once(visits'.order) /\ visited' = Told(visits'.order)
    <3> HIDE DEF v
    <3> QED
      BY <1>4, <1>12, <2>1, <2>2 DEF S
  <2>4. pc' = IF more THEN "loop" ELSE "done"
    BY <1>1, <2>1
  <2>5. Base' /\ Fresh'
    <3>1. scan' \in [list : Lists, edge : DOMAIN edges' \cup {NoIndex}]
      BY <1>1, <1>2 DEF Base
    <3> QED
      BY <1>1, <1>2, <2>2, <2>4, <3>1 DEF Base, Fresh
  <2>6. Marks'
    <3> HIDE DEF v
    <3> QED
      BY <1>1, <1>2, <1>9, <2>1 DEF Marks, S
  <2>7. CASE more
    <3> DEFINE f == FirstCursor(v)
    <3>1. Cursor(g, v, f) /\ Passed(g, S, v, f) /\ f \in Nat
      <4> HIDE DEF v, S
      <4>1. Cursor(g, v, f) /\ Passed(g, S, v, f)
        BY <1>3, FirstCursorFacts
      <4> QED
        BY <1>3, <4>1, GraphFacts DEF Cursor
    <3>2. Stack(g, Append(work, v), Append(w, f), S)
      <4>1. visited \subseteq S /\ v \in S
        OBVIOUS
      <4> HIDE DEF v, f, g, S, w, n
      <4> QED
        BY <1>6, <1>8, <1>10, <1>12, <3>1, <4>1, StackPush DEF w, n
    <3>3. Through(g, Append(work, v), S)
      <4> DEFINE p == Append(work, v)
      <4>1. Len(p) = n + 1 /\ p[n + 1] = v /\ n + 1 \in 1 .. n + 1
            /\ \A i \in 1 .. n : i \in 1 .. n + 1 /\ p[i] = work[i]
        BY <1>4, <1>5 DEF Stack
      <4> HIDE DEF p, v
      <4>2. \A x \in S : (\E i \in 1 .. n + 1 : p[i] = x) \/ Adjacent(g, x) \subseteq visited
        BY <1>4, <4>1 DEF Through, S
      <4> QED
        BY <4>1, <4>2 DEF Through, p
    <3>4. DepthFirst'
      <4>1. work' = Append(work, v) /\ work2' = Append(w, f) /\ pc' = "loop"
        BY <2>1, <2>4, <2>7
      <4> HIDE DEF v, f, g, S, w
      <4> QED
        BY <1>1, <1>4, <2>1, <2>3, <3>2, <3>3, <4>1 DEF DepthFirst
    <3> QED
      BY <1>1, <2>2, <2>5, <2>6, <3>4 DEF WalkInv, BreadthFirst
  <2>8. CASE ~more
    <3>1. DepthFirst'
      <4>1. work' = work /\ work2' = w /\ pc' = "done" /\ visits'.stopped
        BY <2>1, <2>2, <2>8
      <4> HIDE DEF v, g, S, d
      <4> QED
        BY <1>1, <1>4, <1>8, <2>1, <2>3, <4>1 DEF DepthFirst
    <3> QED
      BY <1>1, <2>2, <2>5, <2>6, <3>1 DEF WalkInv, BreadthFirst
  <2> QED
    BY <2>7, <2>8
<1> QED
  BY <1>11, <1>12
LEMMA StepInv == WalkInv /\ [Next]_vars => WalkInv'
<1> SUFFICES ASSUME WalkInv, [Next]_vars PROVE WalkInv'
  OBVIOUS
<1>1. CASE UNCHANGED vars
  <2>1. /\ UNCHANGED <<pc, call, work, work2, head, scan, visited, found, visits>>
        /\ Shape' = Shape /\ edges' = edges
    BY <1>1, ShapeKept DEF vars, scratch
  <2> QED
    BY <2>1 DEF WalkInv, Base, Fresh, Marks, Sought, BreadthFirst, DepthFirst
<1>2. ASSUME NEW start \in Vertices, NEW target \in Vertices, NEW walk \in {"bfs", "dfs", "reach"},
             Call(walk, start, target)
      PROVE  WalkInv'
  BY <1>2, CallInv
<1>3. ASSUME NEW more \in BOOLEAN, BfsVisit(more) \/ DfsStart(more) \/ DfsEdge(more)
      PROVE  WalkInv'
  BY <1>3, BfsVisitInv, DfsStartInv, DfsEdgeInv
<1>4. CASE Step
  BY <1>3, <1>4, BfsStartInv, BfsEdgeInv, BfsListDoneInv, BfsDoneInv, DfsPopInv, DfsDoneInv DEF Step
<1> QED
  BY <1>1, <1>2, <1>4 DEF Next

THEOREM WalkInvHolds == Spec => []WalkInv
<1> QED
  BY InitInv, StepInv, PTL DEF Spec

(* No more places than vertices, when the entries differ. *)
LEMMA OncePerVertex ==
  ASSUME NEW n \in Nat, NEW f, \A i \in 1 .. n : f[i] \in Vertices,
         \A i, j \in 1 .. n : f[i] = f[j] => i = j
  PROVE  /\ n <= VertexCapacity
         /\ n = Cardinality({f[i] : i \in 1 .. n})
<1> DEFINE S == {f[i] : i \in 1 .. n}
           F == [i \in 1 .. n |-> f[i]]
<1>1. 1 \in Int /\ n \in Int /\ IsFiniteSet(1 .. n) /\ Cardinality(1 .. n) = n
  <2>1. IsFiniteSet(1 .. n) /\ Cardinality(1 .. n) = IF 1 > n THEN 0 ELSE n - 1 + 1
    BY FS_Interval
  <2> QED
    BY <2>1
<1>2. F \in Surjection(1 .. n, S)
  BY DEF Surjection
<1>3. IsFiniteSet(S) /\ Cardinality(S) <= n /\ (Cardinality(S) = n <=> F \in Injection(1 .. n, S))
  BY <1>1, <1>2, FS_Surjection
<1>4. F \in Injection(1 .. n, S)
  BY DEF Injection, IsInjective
<1>5. S \subseteq Vertices
  OBVIOUS
<1>6. Cardinality(S) <= VertexCapacity
  <2> HIDE DEF S
  <2> QED
    BY <1>5, VerticesFacts, FS_Subset
<1> QED
  BY <1>3, <1>4, <1>6

(* The frontier and the stack have no more entries than there are vertices. *)
LEMMA EntriesFit ==
  ASSUME WalkInv
  PROVE  /\ Len(work) \in Nat /\ Len(work) <= VertexCapacity /\ Len(work2) = Len(work)
         /\ \A i \in 1 .. Len(work) : work[i] \in Vertices
         /\ head \in 0 .. Len(work) /\ DOMAIN work = 1 .. Len(work) /\ DOMAIN work2 = 1 .. Len(work)
<1>1. CASE pc \in {"idle", "start"}
  BY <1>1, WalkAssumption DEF WalkInv, Fresh
<1>2. CASE pc \notin {"idle", "start"}
  <2>1. call.walk \in {"bfs", "reach"} \/ call.walk = "dfs"
    BY <1>2 DEF WalkInv, Base
  <2>2. /\ work \in Seq(Vertices) /\ Len(work2) = Len(work) /\ head \in 0 .. Len(work)
        /\ \A i, j \in 1 .. Len(work) : work[i] = work[j] => i = j
        /\ DOMAIN work2 = 1 .. Len(work2)
    <3>1. CASE call.walk \in {"bfs", "reach"}
      BY <1>2, <3>1 DEF WalkInv, BreadthFirst, Frontier, Depths
    <3>2. CASE call.walk = "dfs"
      BY <1>2, <3>2 DEF WalkInv, DepthFirst, Stack
    <3> QED
      BY <2>1, <3>1, <3>2
  <2>3. Len(work) \in Nat /\ DOMAIN work = 1 .. Len(work) /\ \A i \in 1 .. Len(work) : work[i] \in Vertices
    BY <2>2
  <2>4. Len(work) <= VertexCapacity
    BY <2>2, <2>3, OncePerVertex
  <2> QED
    BY <2>2, <2>3, <2>4
<1> QED
  BY <1>1, <1>2

LEMMA InvFits == WalkInv => ScratchFits
<1> SUFFICES ASSUME WalkInv PROVE ScratchFits
  OBVIOUS
<1>1. /\ Len(work) <= VertexCapacity /\ Len(work2) = Len(work)
      /\ \A i \in DOMAIN work : work[i] \in Vertices
  BY EntriesFit
<1>2. head \in 0 .. VertexCapacity
  BY EntriesFit, WalkAssumption
<1>3. visited \subseteq Vertices
  <2>1. CASE pc = "idle"
    BY <2>1 DEF WalkInv, Fresh
  <2>2. CASE pc # "idle"
    <3>1. Balls(Shape, call.start, Near(Shape, call.start))
      BY NearFacts DEF WalkInv, Base
    <3>2. Near(Shape, call.start)[VertexCapacity] \in SUBSET Vertices
      BY <3>1, WalkAssumption DEF Balls
    <3> QED
      BY <2>2, <3>2 DEF WalkInv, Marks
  <2> QED
    BY <2>1, <2>2
<1>4. ASSUME call.walk = "dfs", pc = "loop", NEW i \in DOMAIN work2
      PROVE  work2[i] = NoIndex \/ EdgeOf(work2[i]) \in DOMAIN edges
  <2>1. Stack(Shape, work, work2, visited) /\ i \in 1 .. Len(work)
    BY <1>4, EntriesFit DEF WalkInv, DepthFirst
  <2>2. Cursor(Shape, work[i], work2[i])
    BY <2>1 DEF Stack
  <2> QED
    BY <2>2 DEF Cursor, On, Shape
<1>5. TypeOK
  BY <1>1, <1>2, <1>3, <1>4 DEF WalkInv, Base, TypeOK, Lists
<1> QED
  BY <1>1, <1>5 DEF ScratchFits

LEMMA InvShortest == WalkInv => ShortestHops
<1> SUFFICES ASSUME WalkInv, call.walk # "dfs", NEW i \in DOMAIN visits.order
             PROVE  LET v == visits.order[i][1]
                        d == visits.order[i][2]
                    IN /\ v \in Within(call.start, d)
                       /\ d > 0 => v \notin Within(call.start, d - 1)
                       /\ i > 1 => visits.order[i - 1][2] <= d
  BY DEF ShortestHops
<1>1. pc \notin {"idle", "start"}
  BY DEF WalkInv, Fresh
<1>2. call.walk \in {"bfs", "reach"} /\ call.start \in Vertices /\ IsGraph(Shape)
  BY <1>1 DEF WalkInv, Base
<1>3. /\ Frontier(Shape, call.start, work, head, visited) /\ Depths(Shape, call.start, work, work2, head)
      /\ visits.order = [j \in 1 .. head |-> <<work[j], work2[j]>>]
  BY <1>1, <1>2 DEF WalkInv, BreadthFirst
<1>4. i \in 1 .. head /\ head \in 0 .. Len(work) /\ i \in 1 .. Len(work)
  BY <1>3 DEF Frontier
<1>5. visits.order[i][1] = work[i] /\ visits.order[i][2] = work2[i] /\ work2[i] \in Nat
  BY <1>3, <1>4 DEF Depths
<1>6. \A k \in Nat : Within(call.start, k) = Near(Shape, call.start)[k]
  BY <1>2, NearFacts
<1>7. work[i] \in Within(call.start, work2[i]) /\ (work2[i] > 0 => work[i] \notin Within(call.start, work2[i] - 1))
  <2>1. work2[i] > 0 => work2[i] - 1 \in Nat
    BY <1>5
  <2> QED
    BY <1>3, <1>4, <1>5, <1>6, <2>1 DEF Depths
<1>8. i > 1 => visits.order[i - 1][2] <= work2[i]
  <2> SUFFICES ASSUME i > 1 PROVE visits.order[i - 1][2] <= work2[i]
    OBVIOUS
  <2>1. i - 1 \in 1 .. head /\ i - 1 \in 1 .. Len(work) /\ i - 1 <= i
    BY <1>4
  <2> QED
    BY <1>3, <1>4, <2>1 DEF Depths
<1> QED
  BY <1>5, <1>7, <1>8

(* A walk that was not stopped has told of all that can be reached, once. *)
LEMMA AllTold ==
  ASSUME WalkInv, pc = "done", ~visits.stopped
  PROVE  /\ Told(visits.order) = visited /\ Once(visits.order)
         /\ visited = Near(Shape, call.start)[VertexCapacity]
<1>1. /\ call.start \in Vertices /\ IsGraph(Shape)
      /\ call.walk \in {"bfs", "reach"} \/ call.walk = "dfs"
  BY DEF WalkInv, Base
<1>2. /\ Told(visits.order) = visited /\ Once(visits.order)
      /\ \A u \in visited : Adjacent(Shape, u) \subseteq visited
  <2>1. CASE call.walk \in {"bfs", "reach"}
    <3>1. /\ Frontier(Shape, call.start, work, head, visited)
          /\ visits.order = [i \in 1 .. head |-> <<work[i], work2[i]>>]
          /\ head = Len(work) /\ Adjacent(Shape, work[head]) \subseteq visited
      BY <2>1 DEF WalkInv, BreadthFirst
    <3>2. head \in Nat /\ Len(visits.order) = head /\ \A i \in 1 .. head : visits.order[i][1] = work[i]
      BY <3>1 DEF Frontier
    <3>3. Told(visits.order) = visited /\ Once(visits.order)
      BY <3>1, <3>2 DEF Frontier, Told, Once
    <3>4. \A i \in 1 .. head : i = head \/ i \in 1 .. head - 1
      BY <3>2
    <3>5. \A u \in visited : Adjacent(Shape, u) \subseteq visited
      <4> SUFFICES ASSUME NEW i \in 1 .. head PROVE Adjacent(Shape, work[i]) \subseteq visited
        BY <3>1 DEF Frontier
      <4> QED
        BY <3>1, <3>4 DEF Frontier
    <3> QED
      BY <3>3, <3>5
  <2>2. CASE call.walk = "dfs"
    <3>1. Once(visits.order) /\ visited = Told(visits.order) /\ Through(Shape, work, visited) /\ work = <<>>
      BY <2>2 DEF WalkInv, DepthFirst
    <3> QED
      BY <3>1 DEF Through
  <2> QED
    BY <1>1, <2>1, <2>2
<1>3. call.start \in visited /\ visited \subseteq Near(Shape, call.start)[VertexCapacity]
  BY DEF WalkInv, Marks
<1>4. Near(Shape, call.start)[VertexCapacity] \subseteq visited
  <2> DEFINE B == Near(Shape, call.start)
  <2>1. Balls(Shape, call.start, B)
    BY <1>1, NearFacts
  <2> HIDE DEF B
  <2>2. \A k \in Nat : B[k] \subseteq visited
    BY <1>2, <1>3, <2>1, BallsInside
  <2> QED
    BY <2>2, WalkAssumption DEF B
<1> QED
  BY <1>2, <1>3, <1>4

LEMMA InvReachable == WalkInv => FindsReachable
<1> SUFFICES ASSUME WalkInv, pc = "done" PROVE FindsReachable
  BY DEF FindsReachable
<1>1. /\ call.start \in Vertices /\ IsGraph(Shape)
      /\ visits.order \in Seq(Vertices \X Nat) /\ visits.stopped \in BOOLEAN /\ found \in BOOLEAN
  BY DEF WalkInv, Base
<1>2. Near(Shape, call.start)[VertexCapacity] = Reach(call.start)
  BY <1>1, NearFacts, WalkAssumption DEF Reach
<1>3. Len(visits.order) \in Nat /\ DOMAIN visits.order = 1 .. Len(visits.order)
  BY <1>1
<1>4. ASSUME ~visits.stopped
      PROVE  /\ {visits.order[i][1] : i \in DOMAIN visits.order} = Reach(call.start)
             /\ Len(visits.order) = Cardinality(Reach(call.start))
  <2> DEFINE n == Len(visits.order)
             f == [i \in 1 .. n |-> visits.order[i][1]]
  <2>0. n \in Nat
    BY <1>3
  <2>1. Told(visits.order) = Reach(call.start) /\ Once(visits.order)
    BY <1>2, <1>4, AllTold
  <2>2. \A i \in 1 .. n : f[i] \in Vertices
    BY <1>1, <1>3
  <2>3. \A i, j \in 1 .. n : f[i] = f[j] => i = j
    BY <2>1 DEF Once
  <2>4. Told(visits.order) = {f[i] : i \in 1 .. n}
    BY DEF Told
  <2>5. n = Cardinality({f[i] : i \in 1 .. n})
    <3> HIDE DEF n, f
    <3> QED
      BY <2>0, <2>2, <2>3, OncePerVertex
  <2> QED
    BY <1>3, <2>1, <2>4, <2>5 DEF Told
<1>5. ASSUME call.walk = "reach" PROVE found <=> call.target \in Reach(call.start)
  <2>1. (visits.stopped <=> found) /\ (found <=> call.target \in Told(visits.order))
    BY <1>5 DEF WalkInv, Sought
  <2>2. CASE visits.stopped
    <3>1. call.target \in Told(visits.order)
      BY <2>1, <2>2
    <3>2. /\ Frontier(Shape, call.start, work, head, visited)
          /\ visits.order = [i \in 1 .. head |-> <<work[i], work2[i]>>]
      BY <1>5 DEF WalkInv, BreadthFirst
    <3>3. head \in 0 .. Len(work) /\ Len(visits.order) = head /\ \A i \in 1 .. head : visits.order[i][1] = work[i]
      BY <3>2 DEF Frontier
    <3>4. call.target \in visited
      BY <3>1, <3>2, <3>3 DEF Told, Frontier
    <3> QED
      BY <1>2, <2>1, <2>2, <3>4 DEF WalkInv, Marks
  <2>3. CASE ~visits.stopped
    BY <1>2, <2>1, <2>3, AllTold
  <2> QED
    BY <2>2, <2>3
<1> QED
  BY <1>4, <1>5 DEF FindsReachable

(* Neither half of the scratch is ever written past its end: an entry goes in
   for a vertex that was not marked before, so there is one for each at most. *)
THEOREM ScratchAlwaysFits == Spec => []ScratchFits
<1> QED
  BY WalkInvHolds, InvFits, PTL

(* On every graph the depth at which dv_graph_bfs visits a vertex is its
   distance from the start, and the depths never decrease.                  *)
THEOREM BfsFindsShortest == Spec => []ShortestHops
<1> QED
  BY WalkInvHolds, InvShortest, PTL

(* On every graph a walk that was not stopped has visited exactly what can be
   reached, each vertex once, and dv_graph_reachable answers whether there is a
   path, wherever the walks before it were stopped.                         *)
THEOREM WalksFindReachable == Spec => []FindsReachable
<1> QED
  BY WalkInvHolds, InvReachable, PTL
=============================================================================

---------------------------- MODULE DvGraphProofs ----------------------------
(* The graph of DvGraph: dv_graph_is_valid holds after every call, its memory
   is accounted for, its ceilings are kept and its handles are exact, for every
   value of the constants.                                                  *)
EXTENDS DvGraph, FiniteSetTheorems, TLAPS

(***************************************************************************)
(* Numbers.                                                                *)
(***************************************************************************)
(* Division with remainder. *)
LEMMA DivMod ==
  ASSUME NEW M \in Nat \ {0}, NEW p \in Int
  PROVE  /\ p \div M \in Int
         /\ p % M \in 0 .. (M - 1)
         /\ p = M * (p \div M) + (p % M)
  OBVIOUS

(* A set of numbers that has a member has a least one. *)
LEMMA LeastNat ==
  ASSUME NEW T, T \subseteq Nat, T # {}
  PROVE  \E m \in T : \A k \in T : m <= k
<1> DEFINE R == {ss \in Nat \X Nat : ss[1] < ss[2]}
<1>1. IsWellFoundedOn(R, Nat)
  BY NatLessThanWellFounded, Zenon DEF OpToRel
<1>2. \A x, y \in Nat : y < x => <<y, x>> \in R
  OBVIOUS
<1> HIDE DEF R
<1>3. PICK x \in T : \A y \in T : ~(<<y, x>> \in R)
  BY <1>1, WFMin
<1>4. ASSUME NEW y \in T PROVE x <= y
  <2>1. x \in Nat /\ y \in Nat
    OBVIOUS
  <2>2. ~(y < x)
    BY <1>2, <1>3, <2>1
  <2> QED
    BY <2>1, <2>2
<1> QED
  BY <1>4

(* A set of numbers that is closed under the next one has them all. *)
LEMMA Induction ==
  ASSUME NEW B, B \subseteq Nat, 0 \in B, \A k \in B : k + 1 \in B
  PROVE  \A k \in Nat : k \in B
<1> DEFINE T == Nat \ B
<1> SUFFICES ASSUME T # {} PROVE FALSE
  OBVIOUS
<1>1. PICK m \in T : \A k \in T : m <= k
  BY LeastNat
<1>2. m \in Nat /\ m # 0
  OBVIOUS
<1>3. m - 1 \in Nat /\ m - 1 \notin T
  BY <1>1, <1>2
<1>4. m \in B
  BY <1>2, <1>3
<1> QED
  BY <1>4

(***************************************************************************)
(* Loops: what the first k rounds make of a state, in the sets A[k].        *)
(***************************************************************************)
Rounds(n, A, a, step) ==
  n \in Nat /\ a \in A[0] /\ \A k \in 1 .. n : step[k] \in [A[k - 1] -> A[k]]

RunsTo(f, n, A, a, step) ==
  /\ f = [k \in 0 .. n |-> IF k = 0 THEN a ELSE step[k][f[k - 1]]]
  /\ \A k \in 0 .. n : f[k] \in A[k]

LEMMA ChainExists ==
  ASSUME NEW n, NEW A, NEW a, NEW step, Rounds(n, A, a, step)
  PROVE  \E f : RunsTo(f, n, A, a, step)
<1>0. n \in Nat /\ a \in A[0] /\ \A k \in 1 .. n : step[k] \in [A[k - 1] -> A[k]]
  BY DEF Rounds
<1> DEFINE Runs(f, m) == /\ f = [k \in 0 .. m |-> IF k = 0 THEN a ELSE step[k][f[k - 1]]]
                         /\ \A k \in 0 .. m : f[k] \in A[k]
           B == {m \in Nat : m <= n => \E f : Runs(f, m)}
<1>1. 0 \in B
  <2> DEFINE f == [k \in 0 .. 0 |-> a]
  <2>1. \A k \in 0 .. 0 : k = 0
    OBVIOUS
  <2>2. f = [k \in 0 .. 0 |-> IF k = 0 THEN a ELSE step[k][f[k - 1]]] /\ \A k \in 0 .. 0 : f[k] \in A[k]
    BY <1>0, <2>1
  <2>3. Runs(f, 0)
    BY <2>2
  <2> QED
    BY <2>3
<1>2. ASSUME NEW m \in B PROVE m + 1 \in B
  <2> SUFFICES ASSUME m + 1 <= n PROVE \E g : Runs(g, m + 1)
    OBVIOUS
  <2>1. PICK f : Runs(f, m)
    BY <1>0, <1>2
  <2> DEFINE x == step[m + 1][f[m]]
             g == [k \in 0 .. m + 1 |-> IF k = m + 1 THEN x ELSE f[k]]
  <2>2. m + 1 \in 1 .. n /\ (m + 1) - 1 = m /\ f[m] \in A[m]
    BY <1>0, <2>1
  <2>3. x \in A[m + 1]
    BY <1>0, <2>2
  <2>4. \A k \in 0 .. m : g[k] = f[k]
    OBVIOUS
  <2>5. g[m + 1] = x
    OBVIOUS
  <2>6. \A k \in 0 .. m + 1 : k = m + 1 \/ (k \in 0 .. m /\ (k # 0 => k - 1 \in 0 .. m))
    OBVIOUS
  <2> HIDE DEF g
  <2>7. ASSUME NEW k \in 0 .. m + 1 PROVE g[k] = IF k = 0 THEN a ELSE step[k][g[k - 1]]
    <3>1. CASE k = m + 1
      BY <2>2, <2>4, <2>5, <3>1
    <3>2. CASE k \in 0 .. m /\ (k # 0 => k - 1 \in 0 .. m)
      <4>1. f[k] = IF k = 0 THEN a ELSE step[k][f[k - 1]]
        BY <2>1, <3>2
      <4> QED
        BY <2>4, <3>2, <4>1
    <3> QED
      BY <2>6, <3>1, <3>2
  <2>8. \A k \in 0 .. m + 1 : g[k] \in A[k]
    <3> SUFFICES ASSUME NEW k \in 0 .. m + 1 PROVE g[k] \in A[k]
      OBVIOUS
    <3>1. CASE k = m + 1
      BY <2>3, <2>5, <3>1
    <3>2. CASE k \in 0 .. m
      BY <2>1, <2>4, <3>2
    <3> QED
      BY <2>6, <3>1, <3>2
  <2>9. g = [k \in 0 .. m + 1 |-> g[k]]
    BY DEF g
  <2>10. g = [k \in 0 .. m + 1 |-> IF k = 0 THEN a ELSE step[k][g[k - 1]]]
    BY <2>7, <2>9
  <2>11. Runs(g, m + 1)
    BY <2>8, <2>10
  <2> QED
    BY <2>11
<1>3. n \in B
  <2> HIDE DEF B
  <2>1. B \subseteq Nat
    BY DEF B
  <2> QED
    BY <1>0, <1>1, <1>2, <2>1, Induction
<1> QED
  BY <1>0, <1>3 DEF RunsTo
(***************************************************************************)
(* Chains: the slots of M, threaded by `next' from `head' on in the order of
   the stamps st that they were given.                                     *)
(***************************************************************************)
Stamps == [Nat -> Int]

Backward(st) == [i \in Nat |-> -st[i]]

(* n comes right after e in M, or e is the last. *)
Follows(M, st, e, n) ==
  IF n = NoIndex THEN \A f \in M : st[f] <= st[e]
  ELSE n \in M /\ st[e] < st[n] /\ \A f \in M : st[f] <= st[e] \/ st[n] <= st[f]

Leads(M, st, head) ==
  IF head = NoIndex THEN M = {} ELSE head \in M /\ \A f \in M : st[head] <= st[f]

Distinct(M, st) == \A e, f \in M : st[e] = st[f] => e = f

Chained(M, st, next, head) ==
  /\ Leads(M, st, head)
  /\ \A e \in M : Follows(M, st, e, next[e])

(* A set of slots and their stamps. *)
Stamped(M, st) ==
  M \subseteq Nat /\ NoIndex \notin M /\ st \in Stamps /\ Distinct(M, st)

LEMMA StampFacts ==
  ASSUME NEW M, NEW st, Stamped(M, st)
  PROVE  /\ \A e \in M : e \in Nat /\ e # NoIndex /\ st[e] \in Int
         /\ \A e, f \in M : st[e] = st[f] => e = f
  BY DEF Stamped, Stamps, Distinct

LEMMA BackwardFacts ==
  ASSUME NEW M, NEW st, Stamped(M, st)
  PROVE  /\ Stamped(M, Backward(st))
         /\ \A e \in M : Backward(st)[e] = -st[e]
<1>1. \A e \in M : Backward(st)[e] = -st[e]
  BY DEF Stamped, Backward
<1>2. Backward(st) \in Stamps
  BY DEF Stamped, Backward, Stamps
<1>3. Distinct(M, Backward(st))
  BY <1>1, StampFacts DEF Distinct
<1> QED
  BY <1>1, <1>2, <1>3 DEF Stamped

(* Only the links of M matter. *)
LEMMA ChainedSame ==
  ASSUME NEW M, NEW st, NEW tt, NEW next, NEW link, NEW head, Chained(M, st, next, head),
         \A e \in M : link[e] = next[e] /\ tt[e] = st[e]
  PROVE  Chained(M, tt, link, head)
<1>1. Leads(M, tt, head)
  BY DEF Chained, Leads
<1>2. \A e \in M : Follows(M, tt, e, link[e])
  BY DEF Chained, Follows
<1> QED
  BY <1>1, <1>2 DEF Chained

(* A slot before all others goes in front. *)
LEMMA ChainFront ==
  ASSUME NEW M, NEW st, NEW next, NEW head, Chained(M, st, next, head), NEW e \in Nat,
         Stamped(M \cup {e}, st), \A f \in M : st[e] < st[f],
         NEW link, link[e] = head, \A f \in M : link[f] = next[f]
  PROVE  Chained(M \cup {e}, st, link, e)
<1>1. e \notin M /\ e # NoIndex /\ \A f \in M \cup {e} : st[f] \in Int
  BY StampFacts
<1>2. Leads(M \cup {e}, st, e)
  BY <1>1 DEF Leads
<1>3. Follows(M \cup {e}, st, e, head)
  BY <1>1 DEF Chained, Leads, Follows
<1>4. ASSUME NEW f \in M PROVE Follows(M \cup {e}, st, f, link[f])
  <2>1. Follows(M, st, f, next[f])
    BY DEF Chained
  <2> QED
    BY <1>1, <2>1 DEF Follows
<1> QED
  BY <1>2, <1>3, <1>4 DEF Chained

(* The links lead on from the last slot, `tail', to e and end there. *)
LeadsOn(M, next, link, tail, e) ==
  /\ link[e] = NoIndex
  /\ tail # NoIndex => link[tail] = e
  /\ \A f \in M : f # tail => link[f] = next[f]

(* A slot after all others goes behind the last. *)
LEMMA ChainBack ==
  ASSUME NEW M, NEW st, NEW next, NEW head, Chained(M, st, next, head), NEW e \in Nat,
         Stamped(M \cup {e}, st), \A f \in M : st[f] < st[e],
         NEW tail, Leads(M, Backward(st), tail),
         NEW link, LeadsOn(M, next, link, tail, e), NEW first, first = IF tail = NoIndex THEN e ELSE head
  PROVE  Chained(M \cup {e}, st, link, first)
<1>1. /\ e \notin M /\ e # NoIndex /\ \A f \in M \cup {e} : st[f] \in Int
      /\ \A f, g \in M : st[f] = st[g] => f = g
  BY StampFacts
<1>2. Stamped(M, st)
  BY DEF Stamped, Distinct
<1>3. IF tail = NoIndex THEN M = {} ELSE tail \in M /\ \A f \in M : st[f] <= st[tail]
  <2>1. \A f \in M : Backward(st)[f] = -st[f]
    BY <1>2, BackwardFacts
  <2> QED
    BY <1>1, <2>1 DEF Leads
<1>4. Leads(M \cup {e}, st, first)
  <2>1. CASE tail = NoIndex
    BY <1>1, <1>3, <2>1 DEF Leads
  <2>2. CASE tail # NoIndex
    <3>1. head # NoIndex /\ head \in M /\ \A f \in M : st[head] <= st[f]
      BY <1>3, <2>2 DEF Chained, Leads
    <3> QED
      BY <1>1, <2>2, <3>1 DEF Leads
  <2> QED
    BY <2>1, <2>2
<1>5. Follows(M \cup {e}, st, e, link[e])
  BY <1>1 DEF Follows, LeadsOn
<1>6. ASSUME NEW f \in M PROVE Follows(M \cup {e}, st, f, link[f])
  <2>1. CASE f = tail
    BY <1>1, <1>3, <2>1 DEF Follows, LeadsOn
  <2>2. CASE f # tail
    <3>1. Follows(M, st, f, next[f])
      BY DEF Chained
    <3>2. st[f] < st[tail] /\ tail \in M
      BY <1>1, <1>3, <2>2
    <3>3. next[f] # NoIndex
      BY <1>1, <3>1, <3>2 DEF Follows
    <3> QED
      BY <1>1, <2>2, <3>1, <3>3 DEF Follows, LeadsOn
  <2> QED
    BY <2>1, <2>2
<1> QED
  BY <1>4, <1>5, <1>6 DEF Chained

(* A slot leaves: the one before it, or the head, is led on to the next. *)
LEMMA ChainDrop ==
  ASSUME NEW M, NEW st, Stamped(M, st), NEW next, NEW head, Chained(M, st, next, head), NEW e \in M,
         NEW prev, Follows(M, Backward(st), e, prev),
         NEW link, prev # NoIndex => link[prev] = next[e],
         \A f \in M : f # e /\ f # prev => link[f] = next[f]
  PROVE  Chained(M \ {e}, st, link, IF prev = NoIndex THEN next[e] ELSE head)
<1>1. /\ e # NoIndex /\ \A f \in M : st[f] \in Int /\ f # NoIndex
      /\ \A f, g \in M : st[f] = st[g] => f = g
  BY StampFacts
<1>2. IF prev = NoIndex THEN \A f \in M : st[e] <= st[f]
      ELSE prev \in M /\ st[prev] < st[e] /\ \A f \in M : st[e] <= st[f] \/ st[f] <= st[prev]
  <2>1. \A f \in M : Backward(st)[f] = -st[f]
    BY BackwardFacts
  <2>2. CASE prev = NoIndex
    BY <1>1, <2>1, <2>2 DEF Follows
  <2>3. CASE prev # NoIndex
    BY <1>1, <2>1, <2>3 DEF Follows
  <2> QED
    BY <2>2, <2>3
<1>3. Follows(M, st, e, next[e])
  BY DEF Chained
<1>4. Leads(M, st, head) /\ head # NoIndex
  BY DEF Chained, Leads
<1>5. Leads(M \ {e}, st, IF prev = NoIndex THEN next[e] ELSE head)
  <2>1. CASE prev = NoIndex
    BY <1>1, <1>2, <1>3, <2>1 DEF Leads, Follows
  <2>2. CASE prev # NoIndex
    <3>1. head # e
      BY <1>1, <1>2, <1>4, <2>2 DEF Leads
    <3> QED
      BY <1>4, <2>2, <3>1 DEF Leads
  <2> QED
    BY <2>1, <2>2
<1>6. ASSUME NEW f \in M \ {e} PROVE Follows(M \ {e}, st, f, link[f])
  <2>1. CASE f = prev
    <3>1. f # NoIndex /\ link[f] = next[e]
      BY <1>1, <2>1
    <3>2. CASE next[e] = NoIndex
      <4>1. \A g \in M \ {e} : st[g] <= st[f]
        BY <1>1, <1>2, <1>3, <2>1, <3>1, <3>2 DEF Follows
      <4> QED
        BY <3>1, <3>2, <4>1 DEF Follows
    <3>3. CASE next[e] # NoIndex
      <4>1. next[e] \in M /\ st[e] < st[next[e]] /\ \A g \in M : st[g] <= st[e] \/ st[next[e]] <= st[g]
        BY <1>3, <3>3 DEF Follows
      <4>2. st[f] < st[e] /\ \A g \in M : st[e] <= st[g] \/ st[g] <= st[f]
        BY <1>2, <2>1, <3>1
      <4>3. next[e] \in M \ {e} /\ st[f] < st[next[e]]
        BY <1>1, <4>1, <4>2
      <4>4. \A g \in M \ {e} : st[g] <= st[f] \/ st[next[e]] <= st[g]
        BY <1>1, <4>1, <4>2
      <4> QED
        BY <3>1, <3>3, <4>3, <4>4 DEF Follows
    <3> QED
      BY <3>2, <3>3
  <2>2. CASE f # prev
    <3>1. Follows(M, st, f, next[f]) /\ link[f] = next[f]
      BY <2>2 DEF Chained
    <3>2. next[f] # e
      <4> SUFFICES ASSUME next[f] = e PROVE FALSE
        OBVIOUS
      <4>1. st[f] < st[e] /\ \A g \in M : st[g] <= st[f] \/ st[e] <= st[g]
        BY <1>1, <3>1 DEF Follows
      <4>2. prev # NoIndex
        BY <1>1, <1>2, <4>1
      <4>3. prev \in M /\ st[prev] < st[e] /\ (st[e] <= st[f] \/ st[f] <= st[prev])
        BY <1>2, <4>2
      <4>4. st[prev] <= st[f]
        BY <1>1, <4>1, <4>3
      <4>5. st[prev] = st[f]
        BY <1>1, <4>1, <4>3, <4>4
      <4> QED
        BY <1>1, <2>2, <4>3, <4>5
    <3> QED
      BY <1>1, <3>1, <3>2 DEF Follows
  <2> QED
    BY <2>1, <2>2
<1> QED
  BY <1>5, <1>6 DEF Chained
(***************************************************************************)
(* Reading a chain.                                                        *)
(***************************************************************************)
(* s is what a reader of the links collects from i on in k steps. *)
Reads(s, M, link, i, k) ==
  /\ s \in Seq(M) /\ Len(s) >= 1 /\ s[1] = i
  /\ \A j \in 1 .. Len(s) - 1 : s[j + 1] = link[s[j]]
  /\ Len(s) = k + 1 \/ link[s[Len(s)]] = NoIndex

(* link and first are what next and head become when e, after prev, is cut out. *)
Cut(M, next, head, e, prev, link, first) ==
  /\ prev # NoIndex => link[prev] = next[e]
  /\ \A f \in M : f # e /\ f # prev => link[f] = next[f]
  /\ first = IF prev = NoIndex THEN next[e] ELSE head

LEMMA ChainCut ==
  ASSUME NEW M, NEW st, Stamped(M, st), NEW next, NEW head, Chained(M, st, next, head), NEW e \in M,
         NEW prev, Follows(M, Backward(st), e, prev), NEW link, NEW first, Cut(M, next, head, e, prev, link, first)
  PROVE  Chained(M \ {e}, st, link, first)
<1>1. /\ prev # NoIndex => link[prev] = next[e]
      /\ \A f \in M : f # e /\ f # prev => link[f] = next[f]
      /\ first = IF prev = NoIndex THEN next[e] ELSE head
  BY DEF Cut
<1> QED
  BY <1>1, ChainDrop

Enumerates(s, M) ==
  /\ s \in Seq(M)
  /\ \A j, k \in 1 .. Len(s) : s[j] = s[k] => j = k
  /\ \A m \in M : \E k \in 1 .. Len(s) : s[k] = m

LEMMA ReadOn ==
  ASSUME NEW M, NEW link, NEW i \in M, NEW k \in Nat, NEW r,
         link[i] \in M, Reads(r, M, link, link[i], k)
  PROVE  Reads(<<i>> \o r, M, link, i, k + 1)
<1> DEFINE s == <<i>> \o r
<1>1. r \in Seq(M) /\ Len(r) \in Nat /\ Len(r) >= 1 /\ r[1] = link[i]
  BY DEF Reads
<1>2. s \in Seq(M) /\ Len(s) = Len(r) + 1 /\ s[1] = i /\ \A j \in 1 .. Len(r) : s[j + 1] = r[j]
  BY <1>1
<1> HIDE DEF s
<1>3. ASSUME NEW j \in 1 .. Len(s) - 1 PROVE s[j + 1] = link[s[j]]
  <2>1. CASE j = 1
    BY <1>1, <1>2, <2>1
  <2>2. CASE j # 1
    <3>1. j - 1 \in 1 .. Len(r) - 1 /\ j - 1 \in 1 .. Len(r) /\ j \in 1 .. Len(r) /\ (j - 1) + 1 = j
      BY <1>1, <1>2, <2>2
    <3>2. r[j] = link[r[j - 1]]
      BY <3>1 DEF Reads
    <3> QED
      BY <1>2, <3>1, <3>2
  <2> QED
    BY <2>1, <2>2
<1>4. Len(s) = (k + 1) + 1 \/ link[s[Len(s)]] = NoIndex
  BY <1>1, <1>2 DEF Reads
<1>5. Reads(s, M, link, i, k + 1)
  BY <1>1, <1>2, <1>3, <1>4 DEF Reads
<1> QED
  BY <1>5 DEF s

LEMMA CountTo ==
  ASSUME NEW n \in Nat
  PROVE  /\ IsFiniteSet(1 .. n) /\ Cardinality(1 .. n) = n
         /\ IsFiniteSet(0 .. n - 1) /\ Cardinality(0 .. n - 1) = n
<1>1. IsFiniteSet(1 .. n) /\ Cardinality(1 .. n) = IF 1 > n THEN 0 ELSE n - 1 + 1
  BY FS_Interval
<1>2. IsFiniteSet(0 .. n - 1) /\ Cardinality(0 .. n - 1) = IF 0 > n - 1 THEN 0 ELSE n - 1 - 0 + 1
  <2>1. 0 \in Int /\ n - 1 \in Int
    OBVIOUS
  <2> QED
    BY <2>1, FS_Interval
<1> QED
  BY <1>1, <1>2

(* What is read follows the stamps. *)
LEMMA ReadRises ==
  ASSUME NEW M, NEW st, Stamped(M, st), NEW link, NEW head, Chained(M, st, link, head),
         NEW i, NEW k, NEW s, Reads(s, M, link, i, k)
  PROVE  /\ \A j \in 1 .. Len(s) : s[j] \in M
         /\ \A j \in 1 .. Len(s) - 1 : s[j + 1] # NoIndex /\ Follows(M, st, s[j], s[j + 1])
         /\ \A j, m \in 1 .. Len(s) : j < m => st[s[j]] < st[s[m]]
<1>1. s \in Seq(M) /\ Len(s) \in Nat
  BY DEF Reads
<1>2. \A j \in 1 .. Len(s) : s[j] \in M /\ s[j] # NoIndex /\ st[s[j]] \in Int
  BY <1>1, StampFacts
<1>3. ASSUME NEW j \in 1 .. Len(s) - 1 PROVE s[j + 1] # NoIndex /\ Follows(M, st, s[j], s[j + 1])
  <2>1. j \in 1 .. Len(s) /\ j + 1 \in 1 .. Len(s) /\ s[j + 1] = link[s[j]]
    BY <1>1 DEF Reads
  <2> QED
    BY <1>2, <2>1 DEF Chained
<1>4. \A j \in 1 .. Len(s) - 1 : st[s[j]] < st[s[j + 1]]
  BY <1>3 DEF Follows
<1> DEFINE B == {d \in Nat : \A j, m \in 1 .. Len(s) : m = j + d + 1 => st[s[j]] < st[s[m]]}
<1>5. 0 \in B
  BY <1>1, <1>4
<1>6. ASSUME NEW d \in B PROVE d + 1 \in B
  <2>1. d \in Nat /\ d + 1 \in Nat
    BY <1>6
  <2>2. ASSUME NEW j \in 1 .. Len(s), NEW m \in 1 .. Len(s), m = j + (d + 1) + 1
        PROVE  st[s[j]] < st[s[m]]
    <3>1. m - 1 \in 1 .. Len(s) - 1 /\ m - 1 \in 1 .. Len(s) /\ m - 1 = j + d + 1 /\ (m - 1) + 1 = m
      BY <1>1, <2>1, <2>2
    <3>2. st[s[j]] < st[s[m - 1]]
      BY <1>6, <3>1
    <3>3. st[s[m - 1]] < st[s[m]]
      BY <1>4, <3>1
    <3> QED
      BY <1>2, <3>1, <3>2, <3>3
  <2> QED
    BY <2>1, <2>2
<1>7. \A d \in Nat : d \in B
  <2>1. B \subseteq Nat
    OBVIOUS
  <2> HIDE DEF B
  <2> QED
    BY <1>5, <1>6, <2>1, Induction
<1>8. ASSUME NEW j \in 1 .. Len(s), NEW m \in 1 .. Len(s), j < m PROVE st[s[j]] < st[s[m]]
  <2>1. m - j - 1 \in Nat /\ m = j + (m - j - 1) + 1
    BY <1>1, <1>8
  <2>2. m - j - 1 \in B
    BY <1>7, <2>1
  <2> QED
    BY <2>1, <2>2
<1> QED
  BY <1>2, <1>3, <1>8

LEMMA RisesDistinct ==
  ASSUME NEW M, NEW st, Stamped(M, st), NEW link, NEW head, Chained(M, st, link, head),
         NEW i, NEW k, NEW s, Reads(s, M, link, i, k), IsFiniteSet(M)
  PROVE  /\ \A j, m \in 1 .. Len(s) : s[j] = s[m] => j = m
         /\ Len(s) <= Cardinality(M)
<1>1. Len(s) \in Nat /\ \A j \in 1 .. Len(s) : s[j] \in M /\ st[s[j]] \in Int
  BY ReadRises, StampFacts DEF Reads
<1>2. ASSUME NEW j \in 1 .. Len(s), NEW m \in 1 .. Len(s), s[j] = s[m] PROVE j = m
  <2>1. ~(j < m) /\ ~(m < j)
    BY <1>1, <1>2, ReadRises
  <2> QED
    BY <1>1, <2>1
<1>3. Len(s) <= Cardinality(M)
  <2> DEFINE f == [j \in 1 .. Len(s) |-> s[j]]
  <2>1. f \in Injection(1 .. Len(s), M)
    BY <1>1, <1>2 DEF Injection, IsInjective
  <2>2. Cardinality(1 .. Len(s)) <= Cardinality(M)
    BY <2>1, FS_Injection
  <2>3. Cardinality(1 .. Len(s)) = Len(s)
    BY <1>1, CountTo
  <2> QED
    BY <2>2, <2>3
<1> QED
  BY <1>2, <1>3

(* A read from the head that came to the end saw all. *)
LEMMA ReadAll ==
  ASSUME NEW M, NEW st, Stamped(M, st), NEW link, NEW head, Chained(M, st, link, head),
         head \in M, NEW k, NEW s, Reads(s, M, link, head, k), link[s[Len(s)]] = NoIndex,
         NEW m \in M
  PROVE  \E j \in 1 .. Len(s) : s[j] = m
<1> SUFFICES ASSUME \A j \in 1 .. Len(s) : s[j] # m PROVE FALSE
  OBVIOUS
<1>1. /\ Len(s) \in Nat /\ Len(s) >= 1 /\ s[1] = head
      /\ \A j \in 1 .. Len(s) : s[j] \in M /\ st[s[j]] \in Int
  BY ReadRises, StampFacts DEF Reads
<1>2. st[m] \in Int /\ \A j \in 1 .. Len(s) : st[s[j]] # st[m]
  BY <1>1, StampFacts
<1> DEFINE T == {j \in 1 .. Len(s) : st[m] < st[s[j]]}
<1>3. Len(s) \in 1 .. Len(s) /\ 1 \in 1 .. Len(s)
  BY <1>1
<1>4. CASE T = {}
  <2>1. st[s[Len(s)]] < st[m]
    BY <1>1, <1>2, <1>3, <1>4
  <2>2. \A f \in M : st[f] <= st[s[Len(s)]]
    BY <1>1, <1>3 DEF Chained, Follows
  <2> QED
    BY <1>1, <1>2, <1>3, <2>1, <2>2
<1>5. CASE T # {}
  <2>1. PICK j \in T : \A h \in T : j <= h
    <3>1. T \subseteq Nat
      BY <1>1
    <3> HIDE DEF T
    <3> QED
      BY <1>5, <3>1, LeastNat
  <2>2. j # 1
    <3>1. head # NoIndex /\ \A f \in M : st[head] <= st[f]
      BY StampFacts DEF Chained, Leads
    <3> QED
      BY <1>1, <1>2, <2>1, <3>1
  <2>3. j - 1 \in 1 .. Len(s) - 1 /\ j - 1 \in 1 .. Len(s) /\ (j - 1) + 1 = j /\ j - 1 \notin T
    BY <1>1, <2>1, <2>2
  <2>4. st[s[j - 1]] < st[m] /\ st[m] < st[s[j]]
    BY <1>1, <1>2, <2>1, <2>3
  <2>5. s[j] # NoIndex /\ Follows(M, st, s[j - 1], s[j])
    BY <2>3, ReadRises
  <2> QED
    BY <1>1, <1>2, <2>3, <2>4, <2>5 DEF Follows
<1> QED
  BY <1>4, <1>5

LEMMA Prefixed ==
  ASSUME NEW S, NEW x \in S, NEW r \in Seq(S)
  PROVE  <<x>> \o r \in Seq(S)
  OBVIOUS

Closes(s, link) == s # <<>> => link[s[Len(s)]] = NoIndex

(* Every slot of the chain once, nothing else, and up to its end. *)
LEMMA ChainRead ==
  ASSUME NEW n \in Nat, NEW link, DOMAIN link = 0 .. n - 1, NoIndex \notin 0 .. n - 1,
         NEW M, M \subseteq 0 .. n - 1, NEW st, Stamped(M, st), NEW head, Chained(M, st, link, head)
  PROVE  Enumerates(Chain(link, head), M) /\ Closes(Chain(link, head), link)
<1> DEFINE D == 0 .. n - 1
           step == [k \in 1 .. n |-> [g \in [D -> Seq(D \cup {NoIndex})] |->
                     [i \in D |-> IF link[i] \notin D THEN <<i>> ELSE <<i>> \o g[link[i]]]]]
           A == [k \in 0 .. n |-> [D -> Seq(D \cup {NoIndex})]]
           a == [i \in D |-> <<i>>]
<1>1. Cardinality(DOMAIN link) = n /\ IsFiniteSet(D) /\ IsFiniteSet(M) /\ Cardinality(M) <= n
      /\ Cardinality(M) \in Nat
  <2>1. IsFiniteSet(D) /\ Cardinality(D) = n
    BY CountTo
  <2>2. IsFiniteSet(M) /\ Cardinality(M) <= n
    <3>1. M \in SUBSET D
      OBVIOUS
    <3> HIDE DEF D
    <3> QED
      BY <2>1, <3>1, FS_Subset
  <2>3. Cardinality(M) \in Nat
    BY <2>2, FS_CardinalityType
  <2> QED
    BY <2>1, <2>2, <2>3
<1>2. PICK f : RunsTo(f, n, A, a, step)
  <2>1. \A k \in 1 .. n : k \in 0 .. n /\ k - 1 \in 0 .. n
    OBVIOUS
  <2>2. a \in A[0]
    OBVIOUS
  <2>3. ASSUME NEW k \in 1 .. n PROVE step[k] \in [A[k - 1] -> A[k]]
    <3>1. ASSUME NEW g \in [D -> Seq(D \cup {NoIndex})], NEW i \in D
          PROVE  (IF link[i] \notin D THEN <<i>> ELSE <<i>> \o g[link[i]]) \in Seq(D \cup {NoIndex})
      <4>1. <<i>> \in Seq(D \cup {NoIndex})
        OBVIOUS
      <4>2. CASE link[i] \in D
        <5>1. g[link[i]] \in Seq(D \cup {NoIndex})
          BY <4>2
        <5> QED
          BY <4>1, <4>2, <5>1, Prefixed
      <4> QED
        BY <4>1, <4>2
    <3> QED
      BY <2>1, <3>1
  <2>4. Rounds(n, A, a, step)
    BY <2>2, <2>3 DEF Rounds
  <2> HIDE DEF step, A, a
  <2> QED
    BY <2>4, ChainExists
<1> DEFINE body(g) == [k \in 0 .. n |->
             [i \in D |-> IF k = 0 \/ link[i] \notin D THEN <<i>> ELSE <<i>> \o g[k - 1][link[i]]]]
           read == CHOOSE g : g = body(g)
<1>3. f = body(f)
  <2>1. ASSUME NEW k \in 0 .. n
        PROVE  f[k] = [i \in D |-> IF k = 0 \/ link[i] \notin D THEN <<i>> ELSE <<i>> \o f[k - 1][link[i]]]
    <3>1. CASE k = 0
      BY <1>2, <3>1 DEF RunsTo
    <3>2. CASE k # 0
      <4>1. k \in 1 .. n /\ k - 1 \in 0 .. n
        BY <3>2
      <4>2. f[k] = step[k][f[k - 1]] /\ f[k - 1] \in [D -> Seq(D \cup {NoIndex})]
        BY <1>2, <3>2, <4>1 DEF RunsTo
      <4> QED
        BY <3>2, <4>1, <4>2, ZenonT(30)
    <3> QED
      BY <3>1, <3>2
  <2>2. f = [k \in 0 .. n |-> f[k]]
    BY <1>2 DEF RunsTo
  <2> QED
    BY <2>1, <2>2
<1>4. read = body(read)
  BY <1>3
<1>5. Chain(link, head) = IF head \in D THEN read[n][head] ELSE <<>>
  <2> DEFINE c == Cardinality(DOMAIN link)
  <2>1. c = n
    BY <1>1
  <2> DEFINE all == DOMAIN link
  <2>2. Chain(link, head) =
          IF head \in all
          THEN (CHOOSE g : g = [k \in 0 .. c |->
                  [i \in all |-> IF k = 0 \/ link[i] \notin all THEN <<i>> ELSE <<i>> \o g[k - 1][link[i]]]])[c][head]
          ELSE <<>>
    BY DEF Chain
  <2>3. all = D
    OBVIOUS
  <2> HIDE DEF c, all
  <2> QED
    BY <2>1, <2>2, <2>3
<1> HIDE DEF read
<1> DEFINE B == {k \in Nat : k <= n => \A i \in M : Reads(read[k][i], M, link, i, k)}
<1>6. 0 \in B
  <2> SUFFICES ASSUME NEW i \in M PROVE Reads(read[0][i], M, link, i, 0)
    OBVIOUS
  <2>1. read[0][i] = <<i>>
    BY <1>4
  <2> QED
    BY <2>1 DEF Reads
<1>7. ASSUME NEW k \in B PROVE k + 1 \in B
  <2> SUFFICES ASSUME k + 1 <= n, NEW i \in M PROVE Reads(read[k + 1][i], M, link, i, k + 1)
    BY <1>7
  <2>1. k \in Nat /\ k + 1 \in 0 .. n /\ (k + 1) - 1 = k /\ k <= n /\ \A h \in M : Reads(read[k][h], M, link, h, k)
    BY <1>7
  <2>2. read[k + 1][i] = IF link[i] \notin D THEN <<i>> ELSE <<i>> \o read[k][link[i]]
    <3>1. read[k + 1] = [h \in D |-> IF k + 1 = 0 \/ link[h] \notin D THEN <<h>> ELSE <<h>> \o read[(k + 1) - 1][link[h]]]
      BY <1>4, <2>1
    <3>2. i \in D /\ k + 1 # 0
      BY <2>1
    <3> QED
      BY <2>1, <3>1, <3>2
  <2>3. CASE link[i] = NoIndex
    <3>1. read[k + 1][i] = <<i>>
      BY <2>2, <2>3
    <3> QED
      BY <2>1, <2>3, <3>1 DEF Reads
  <2>4. CASE link[i] # NoIndex
    <3>1. link[i] \in M
      BY <2>4 DEF Chained, Follows
    <3>2. read[k + 1][i] = <<i>> \o read[k][link[i]]
      BY <2>2, <3>1
    <3>3. Reads(read[k][link[i]], M, link, link[i], k)
      BY <2>1, <3>1
    <3> QED
      BY <2>1, <3>1, <3>2, <3>3, ReadOn
  <2> QED
    BY <2>3, <2>4
<1>8. n \in B
  <2>1. B \subseteq Nat
    OBVIOUS
  <2> HIDE DEF B
  <2> QED
    BY <1>6, <1>7, <2>1, Induction
<1>9. CASE head = NoIndex
  <2>1. M = {} /\ Chain(link, head) = <<>>
    BY <1>5, <1>9 DEF Chained, Leads
  <2> QED
    BY <2>1 DEF Enumerates, Closes
<1>10. CASE head # NoIndex
  <2> DEFINE s == read[n][head]
  <2>1. head \in M /\ head \in D
    BY <1>10 DEF Chained, Leads
  <2>2. Chain(link, head) = s
    BY <1>5, <2>1
  <2>3. Reads(s, M, link, head, n)
    BY <1>8, <2>1
  <2> HIDE DEF s
  <2>4. (\A j, m \in 1 .. Len(s) : s[j] = s[m] => j = m) /\ Len(s) <= Cardinality(M)
    BY <1>1, <2>3, RisesDistinct
  <2>5. link[s[Len(s)]] = NoIndex
    BY <1>1, <2>3, <2>4 DEF Reads
  <2>6. \A m \in M : \E j \in 1 .. Len(s) : s[j] = m
    BY <2>1, <2>3, <2>5, ReadAll
  <2> QED
    BY <2>2, <2>3, <2>4, <2>5, <2>6 DEF Enumerates, Reads, Closes
<1> QED
  BY <1>9, <1>10

LEMMA EnumeratesFacts ==
  ASSUME NEW M, IsFiniteSet(M), NEW s, Enumerates(s, M)
  PROVE  /\ Len(s) \in Nat /\ Len(s) = Cardinality(M)
         /\ DOMAIN s = 1 .. Len(s)
         /\ \A k \in 1 .. Len(s) : s[k] \in M
         /\ \A m \in M : \E k \in 1 .. Len(s) : s[k] = m
         /\ \A j, k \in 1 .. Len(s) : s[j] = s[k] => j = k
         /\ s = <<>> <=> M = {}
<1>1. s \in Seq(M) /\ Len(s) \in Nat /\ DOMAIN s = 1 .. Len(s)
  BY DEF Enumerates
<1>2. /\ \A k \in 1 .. Len(s) : s[k] \in M
      /\ \A m \in M : \E k \in 1 .. Len(s) : s[k] = m
      /\ \A j, k \in 1 .. Len(s) : s[j] = s[k] => j = k
  BY <1>1 DEF Enumerates
<1>3. Len(s) = Cardinality(M)
  <2> DEFINE f == [k \in 1 .. Len(s) |-> s[k]]
  <2>1. f \in Bijection(1 .. Len(s), M)
    BY <1>2 DEF Bijection, Injection, Surjection, IsInjective
  <2>2. IsFiniteSet(1 .. Len(s)) /\ Cardinality(1 .. Len(s)) = Len(s)
    BY <1>1, FS_Interval
  <2>3. ExistsBijection(1 .. Len(s), M)
    BY <2>1 DEF ExistsBijection
  <2> QED
    BY <2>2, <2>3, FS_Bijection
<1>4. s = <<>> <=> M = {}
  <2>1. s = <<>> <=> Len(s) = 0
    BY <1>1
  <2> QED
    BY <1>1, <1>2, <2>1
<1> QED
  BY <1>1, <1>2, <1>3, <1>4
(***************************************************************************)
(* The incidence lists of one kind.  A view G of them has the functions ends,
   next and prev of the edge slots and head, tail and degree of the vertex
   slots; V are the live vertices and E the edges that are linked.          *)
(***************************************************************************)
On(G, E, v) == {e \in E : G.ends[e] = v}

Threaded(G, M, st, v) ==
  /\ Chained(M, st, G.next, G.head[v])
  /\ Chained(M, Backward(st), G.prev, G.tail[v])
  /\ G.degree[v] = Cardinality(M)

Threads(G, V, E, st) ==
  /\ \A e \in E : G.ends[e] \in V
  /\ \A v \in V : Threaded(G, On(G, E, v), st, v)

(* Views that agree on a list. *)
LEMMA ThreadedSame ==
  ASSUME NEW G, NEW H, NEW M, NEW st, NEW v, Threaded(G, M, st, v), Stamped(M, st),
         \A e \in M : H.next[e] = G.next[e] /\ H.prev[e] = G.prev[e],
         H.head[v] = G.head[v], H.tail[v] = G.tail[v], H.degree[v] = G.degree[v]
  PROVE  Threaded(H, M, st, v)
<1>1. Chained(M, st, H.next, H.head[v])
  BY ChainedSame DEF Threaded
<1>2. Chained(M, Backward(st), H.prev, H.tail[v])
  BY ChainedSame DEF Threaded
<1> QED
  BY <1>1, <1>2 DEF Threaded

LEMMA StampedSubset ==
  ASSUME NEW E, NEW st, Stamped(E, st), NEW M, M \subseteq E
  PROVE  Stamped(M, st)
  BY DEF Stamped, Distinct

(* Other stamps will do when they are the same on the slots. *)
LEMMA ThreadsRestamped ==
  ASSUME NEW G, NEW V, NEW E, NEW st, NEW tt, Threads(G, V, E, st), Stamped(E, st), Stamped(E, tt),
         \A e \in E : tt[e] = st[e]
  PROVE  Threads(G, V, E, tt)
<1> SUFFICES ASSUME NEW v \in V PROVE Threaded(G, On(G, E, v), tt, v)
  BY DEF Threads
<1> DEFINE M == On(G, E, v)
<1>1. Threaded(G, M, st, v) /\ M \subseteq E
  BY DEF Threads, On
<1>2. Stamped(M, st) /\ Stamped(M, tt)
  BY <1>1, StampedSubset
<1> HIDE DEF M
<1>3. \A e \in M : Backward(tt)[e] = Backward(st)[e]
  <2>1. \A e \in M : Backward(tt)[e] = -tt[e]
    BY <1>2, BackwardFacts
  <2>2. \A e \in M : Backward(st)[e] = -st[e]
    BY <1>2, BackwardFacts
  <2> QED
    BY <1>1, <2>1, <2>2
<1>4. Chained(M, tt, G.next, G.head[v])
  BY <1>1, ChainedSame DEF Threaded
<1>5. Chained(M, Backward(tt), G.prev, G.tail[v])
  BY <1>1, <1>3, ChainedSame DEF Threaded
<1>6. Threaded(G, M, tt, v)
  BY <1>1, <1>4, <1>5 DEF Threaded
<1> QED
  BY <1>6 DEF M

(* H is G with e at the end of the list of its vertex. *)
Appended(G, H, V, E, e) ==
  LET v == G.ends[e]
      tail == G.tail[v]
  IN /\ \A f \in E \cup {e} : H.ends[f] = G.ends[f]
     /\ H.next[e] = NoIndex /\ H.prev[e] = tail
     /\ tail # NoIndex => H.next[tail] = e
     /\ \A f \in E : (f # tail => H.next[f] = G.next[f]) /\ H.prev[f] = G.prev[f]
     /\ H.head[v] = IF tail = NoIndex THEN e ELSE G.head[v]
     /\ H.tail[v] = e /\ H.degree[v] = G.degree[v] + 1
     /\ \A u \in V : u # v => H.head[u] = G.head[u] /\ H.tail[u] = G.tail[u] /\ H.degree[u] = G.degree[u]

LEMMA AppendThreads ==
  ASSUME NEW G, NEW H, NEW V, NEW E, NEW st, NEW e \in Nat, Threads(G, V, E, st), IsFiniteSet(E), e \notin E,
         Stamped(E \cup {e}, st), \A f \in E : st[f] < st[e], G.ends[e] \in V, Appended(G, H, V, E, e)
  PROVE  Threads(H, V, E \cup {e}, st)
<1> DEFINE v == G.ends[e]
           M == On(G, E, v)
           tail == G.tail[v]
<1>1. \A f \in E \cup {e} : H.ends[f] = G.ends[f]
  BY DEF Appended
<1>2. \A f \in E \cup {e} : H.ends[f] \in V
  BY <1>1 DEF Threads
<1>3. On(H, E \cup {e}, v) = M \cup {e} /\ \A u : u # v => On(H, E \cup {e}, u) = On(G, E, u)
  BY <1>1 DEF On
<1>4. M \subseteq E /\ Threaded(G, M, st, v) /\ e \notin M
  BY DEF Threads, On
<1>5. Stamped(M \cup {e}, st) /\ Stamped(M, st) /\ Stamped(E, st)
  <2>1. M \cup {e} \subseteq E \cup {e} /\ M \subseteq E \cup {e} /\ E \subseteq E \cup {e}
    BY <1>4
  <2> HIDE DEF M
  <2> QED
    BY <2>1, StampedSubset
<1>6. /\ H.next[e] = NoIndex /\ H.prev[e] = tail
      /\ tail # NoIndex => H.next[tail] = e
      /\ \A f \in E : (f # tail => H.next[f] = G.next[f]) /\ H.prev[f] = G.prev[f]
      /\ H.head[v] = IF tail = NoIndex THEN e ELSE G.head[v]
      /\ H.tail[v] = e /\ H.degree[v] = G.degree[v] + 1
      /\ \A u \in V : u # v => H.head[u] = G.head[u] /\ H.tail[u] = G.tail[u] /\ H.degree[u] = G.degree[u]
  BY DEF Appended
<1> HIDE DEF v, M, tail
<1>7. Threaded(H, M \cup {e}, st, v)
  <2>1. \A f \in M : st[f] < st[e]
    BY <1>4
  <2>2. Chained(M, st, G.next, G.head[v]) /\ Chained(M, Backward(st), G.prev, tail)
    BY <1>4 DEF Threaded, tail
  <2>3. Chained(M \cup {e}, st, H.next, H.head[v])
    <3>1. Leads(M, Backward(st), tail)
      BY <2>2 DEF Chained
    <3>2. \A f \in M : f # tail => H.next[f] = G.next[f]
      BY <1>4, <1>6
    <3>3. H.next[e] = NoIndex /\ (tail # NoIndex => H.next[tail] = e)
      BY <1>6
    <3>4. H.head[v] = IF tail = NoIndex THEN e ELSE G.head[v]
      BY <1>6
    <3>5. Stamped(M \cup {e}, st) /\ Chained(M, st, G.next, G.head[v])
      BY <1>5, <2>2
    <3>6. LeadsOn(M, G.next, H.next, tail, e)
      BY <3>2, <3>3 DEF LeadsOn
    <3> QED
      BY <2>1, <3>1, <3>4, <3>5, <3>6, ChainBack
  <2>4. Chained(M \cup {e}, Backward(st), H.prev, H.tail[v])
    <3>1. Stamped(M \cup {e}, Backward(st)) /\ \A f \in M \cup {e} : Backward(st)[f] = -st[f]
      BY <1>5, BackwardFacts
    <3>2. \A f \in M : Backward(st)[e] < Backward(st)[f]
      <4>1. \A f \in M \cup {e} : st[f] \in Int
        BY <1>5, StampFacts
      <4> QED
        BY <2>1, <3>1, <4>1
    <3>3. \A f \in M : H.prev[f] = G.prev[f]
      BY <1>4, <1>6
    <3>4. Chained(M \cup {e}, Backward(st), H.prev, e)
      BY <1>6, <2>2, <3>1, <3>2, <3>3, ChainFront
    <3> QED
      BY <1>6, <3>4
  <2>5. H.degree[v] = Cardinality(M \cup {e})
    <3>1. M \in SUBSET E
      BY <1>4
    <3>2. IsFiniteSet(M)
      BY <3>1, FS_Subset
    <3>3. Cardinality(M \cup {e}) = Cardinality(M) + 1
      BY <1>4, <3>2, FS_AddElement
    <3> QED
      BY <1>4, <1>6, <3>3 DEF Threaded
  <2> QED
    BY <2>3, <2>4, <2>5 DEF Threaded
<1>8. ASSUME NEW u \in V, u # v PROVE Threaded(H, On(G, E, u), st, u)
  <2> DEFINE N == On(G, E, u)
  <2>1. N \subseteq E /\ Threaded(G, N, st, u) /\ N \cap M = {}
    BY <1>8 DEF Threads, On, M
  <2>2. Stamped(N, st)
    BY <1>5, <2>1, StampedSubset
  <2> HIDE DEF N
  <2>3. tail \notin N
    <3>1. tail = NoIndex \/ tail \in M
      BY <1>4 DEF Threaded, Chained, Leads, tail
    <3>2. NoIndex \notin N
      BY <2>2 DEF Stamped
    <3> QED
      BY <2>1, <3>1, <3>2
  <2>4. \A f \in N : H.next[f] = G.next[f] /\ H.prev[f] = G.prev[f]
    BY <1>6, <2>1, <2>3
  <2>5. Threaded(H, N, st, u)
    BY <1>6, <1>8, <2>1, <2>2, <2>4, ThreadedSame
  <2> QED
    BY <2>5 DEF N
<1> QED
  BY <1>2, <1>3, <1>7, <1>8 DEF Threads

(* H is G with e off the list of its vertex. *)
Dropped(G, H, V, E, e) ==
  LET v == G.ends[e]
      prev == G.prev[e]
      next == G.next[e]
  IN /\ \A f \in E : H.ends[f] = G.ends[f]
     /\ prev # NoIndex => H.next[prev] = next
     /\ next # NoIndex => H.prev[next] = prev
     /\ \A f \in E : (f # prev => H.next[f] = G.next[f]) /\ (f # next => H.prev[f] = G.prev[f])
     /\ H.head[v] = IF prev = NoIndex THEN next ELSE G.head[v]
     /\ H.tail[v] = IF next = NoIndex THEN prev ELSE G.tail[v]
     /\ H.degree[v] = G.degree[v] - 1
     /\ \A u \in V : u # v => H.head[u] = G.head[u] /\ H.tail[u] = G.tail[u] /\ H.degree[u] = G.degree[u]

LEMMA BackwardTwice ==
  ASSUME NEW M, NEW st, Stamped(M, st), NEW e \in M, NEW n, Follows(M, st, e, n)
  PROVE  Follows(M, Backward(Backward(st)), e, n)
<1>1. \A f \in M : Backward(Backward(st))[f] = st[f]
  <2>1. Stamped(M, Backward(st)) /\ \A f \in M : Backward(st)[f] = -st[f]
    BY BackwardFacts
  <2>2. \A f \in M : Backward(Backward(st))[f] = -Backward(st)[f]
    BY <2>1, BackwardFacts
  <2> QED
    BY <2>1, <2>2, StampFacts
<1> QED
  BY <1>1 DEF Follows

LEMMA DropThreads ==
  ASSUME NEW G, NEW H, NEW V, NEW E, NEW st, NEW e \in E, Threads(G, V, E, st), IsFiniteSet(E),
         Stamped(E, st), Dropped(G, H, V, E, e)
  PROVE  Threads(H, V, E \ {e}, st)
<1> DEFINE v == G.ends[e]
           M == On(G, E, v)
           prev == G.prev[e]
           next == G.next[e]
<1>1. \A f \in E : H.ends[f] = G.ends[f]
  BY DEF Dropped
<1>2. v \in V /\ \A f \in E : H.ends[f] \in V
  BY <1>1 DEF Threads
<1>3. On(H, E \ {e}, v) = M \ {e} /\ \A u : u # v => On(H, E \ {e}, u) = On(G, E, u)
  BY <1>1 DEF On
<1>4. M \subseteq E /\ Threaded(G, M, st, v) /\ e \in M
  BY <1>2 DEF Threads, On
<1>5. Stamped(M, st)
  BY <1>4, StampedSubset
<1>6. /\ prev # NoIndex => H.next[prev] = next
      /\ next # NoIndex => H.prev[next] = prev
      /\ \A f \in E : (f # prev => H.next[f] = G.next[f]) /\ (f # next => H.prev[f] = G.prev[f])
      /\ H.head[v] = IF prev = NoIndex THEN next ELSE G.head[v]
      /\ H.tail[v] = IF next = NoIndex THEN prev ELSE G.tail[v]
      /\ H.degree[v] = G.degree[v] - 1
      /\ \A u \in V : u # v => H.head[u] = G.head[u] /\ H.tail[u] = G.tail[u] /\ H.degree[u] = G.degree[u]
  BY DEF Dropped
<1> HIDE DEF v, M
<1>7. /\ Chained(M, st, G.next, G.head[v]) /\ Chained(M, Backward(st), G.prev, G.tail[v])
      /\ Follows(M, st, e, next) /\ Follows(M, Backward(st), e, prev)
  BY <1>4 DEF Threaded, Chained
<1> HIDE DEF prev, next
<1>8. Threaded(H, M \ {e}, st, v)
  <2>1. Chained(M \ {e}, st, H.next, H.head[v])
    <3>1. \A f \in M : f # e /\ f # prev => H.next[f] = G.next[f]
      BY <1>4, <1>6
    <3>2. prev # NoIndex => H.next[prev] = G.next[e]
      BY <1>6 DEF next
    <3>3. H.head[v] = IF prev = NoIndex THEN G.next[e] ELSE G.head[v]
      BY <1>6 DEF next
    <3>4. Cut(M, G.next, G.head[v], e, prev, H.next, H.head[v])
      BY <3>1, <3>2, <3>3 DEF Cut
    <3> QED
      BY <1>4, <1>5, <1>7, <3>4, ChainCut
  <2>2. Chained(M \ {e}, Backward(st), H.prev, H.tail[v])
    <3>1. \A f \in M : f # e /\ f # next => H.prev[f] = G.prev[f]
      BY <1>4, <1>6
    <3>2. next # NoIndex => H.prev[next] = G.prev[e]
      BY <1>6 DEF prev
    <3>3. Follows(M, Backward(Backward(st)), e, next)
      BY <1>4, <1>5, <1>7, BackwardTwice
    <3>4. Stamped(M, Backward(st))
      BY <1>5, BackwardFacts
    <3>5. H.tail[v] = IF next = NoIndex THEN G.prev[e] ELSE G.tail[v]
      BY <1>6 DEF prev
    <3>6. Cut(M, G.prev, G.tail[v], e, next, H.prev, H.tail[v])
      BY <3>1, <3>2, <3>5 DEF Cut
    <3> QED
      BY <1>4, <1>7, <3>3, <3>4, <3>6, ChainCut
  <2>3. H.degree[v] = Cardinality(M \ {e})
    <3>1. M \in SUBSET E
      BY <1>4
    <3>2. IsFiniteSet(M)
      BY <3>1, FS_Subset
    <3>3. Cardinality(M \ {e}) = Cardinality(M) - 1
      BY <1>4, <3>2, FS_RemoveElement
    <3> QED
      BY <1>4, <1>6, <3>3 DEF Threaded
  <2> QED
    BY <2>1, <2>2, <2>3 DEF Threaded
<1>9. ASSUME NEW u \in V, u # v PROVE Threaded(H, On(G, E, u), st, u)
  <2> DEFINE N == On(G, E, u)
  <2>1. N \subseteq E /\ Threaded(G, N, st, u) /\ N \cap M = {}
    BY <1>9 DEF Threads, On, M
  <2>2. Stamped(N, st) /\ NoIndex \notin N
    BY <2>1, StampedSubset DEF Stamped
  <2> HIDE DEF N
  <2>3. prev \notin N /\ next \notin N
    BY <1>7, <2>1, <2>2 DEF Follows
  <2>4. \A f \in N : H.next[f] = G.next[f] /\ H.prev[f] = G.prev[f]
    BY <1>6, <2>1, <2>3
  <2>5. Threaded(H, N, st, u)
    BY <1>6, <1>9, <2>1, <2>2, <2>4, ThreadedSame
  <2> QED
    BY <2>5 DEF N
<1> QED
  BY <1>2, <1>3, <1>8, <1>9 DEF Threads
(***************************************************************************)
(* Worlds: the states a call works on.                                     *)
(***************************************************************************)
ControlBlocks ==
  [capacity : [Pools -> Nat], count : [Pools -> Int], free : [Pools -> Nat], watermark : [Pools -> Nat],
   initial : [Pools -> Nat], max : [Pools -> Nat],
   weight_capacity : Nat, work_capacity : Nat, visited_words : Nat,
   allocator : [alloc : BOOLEAN, realloc : BOOLEAN, free : BOOLEAN],
   directed : BOOLEAN, weighted : BOOLEAN, growable : BOOLEAN,
   reject_parallel_edges : BOOLEAN, reject_self_loops : BOOLEAN,
   in_update : BOOLEAN, update_dirty : BOOLEAN]

PoolOf(S) == UNION {[0 .. n - 1 -> S] : n \in Nat}

Worlds ==
  [cb : ControlBlocks, vertices : PoolOf(VertexSlots), edges : PoolOf(EdgeSlots),
   weights : UNION {[D -> Weights] : D \in SUBSET Nat},
   bytes : [Blocks -> Int], outstanding : Int, contract : BOOLEAN,
   calls : SUBSET {"alloc", "realloc", "free", "refused"}, steps : Int, touched : BOOLEAN]

LEMMA CbFacts ==
  ASSUME NEW cb \in ControlBlocks
  PROVE  /\ \A p \in Pools : /\ cb.capacity[p] \in Nat /\ cb.count[p] \in Int /\ cb.free[p] \in Nat
                             /\ cb.watermark[p] \in Nat /\ cb.initial[p] \in Nat /\ cb.max[p] \in Nat
         /\ cb.weight_capacity \in Nat /\ cb.work_capacity \in Nat /\ cb.visited_words \in Nat
         /\ cb.growable \in BOOLEAN /\ cb.weighted \in BOOLEAN /\ cb.directed \in BOOLEAN
         /\ cb.in_update \in BOOLEAN /\ cb.update_dirty \in BOOLEAN
  BY DEF ControlBlocks

LEMMA PoolNames == "vertices" \in Pools /\ "edges" \in Pools /\ \A p \in Pools : p = "vertices" \/ p = "edges"
  BY DEF Pools

LEMMA PoolFacts ==
  ASSUME NEW S, NEW f \in PoolOf(S)
  PROVE  f \in [DOMAIN f -> S] /\ DOMAIN f \subseteq Nat
  BY DEF PoolOf

LEMMA WorldFacts ==
  ASSUME NEW w \in Worlds
  PROVE  /\ w.cb \in ControlBlocks
         /\ w.vertices \in [DOMAIN w.vertices -> VertexSlots]
         /\ w.edges \in [DOMAIN w.edges -> EdgeSlots]
         /\ w.weights \in [DOMAIN w.weights -> Weights]
         /\ DOMAIN w.vertices \subseteq Nat /\ DOMAIN w.edges \subseteq Nat /\ DOMAIN w.weights \subseteq Nat
         /\ w.bytes \in [Blocks -> Int] /\ w.outstanding \in Int /\ w.contract \in BOOLEAN
         /\ \A b \in Blocks : w.bytes[b] \in Int
<1>1. w.vertices \in PoolOf(VertexSlots) /\ w.edges \in PoolOf(EdgeSlots)
  BY DEF Worlds
<1>2. w.weights \in [DOMAIN w.weights -> Weights] /\ DOMAIN w.weights \subseteq Nat
  BY DEF Worlds
<1>3. w.cb \in ControlBlocks /\ w.bytes \in [Blocks -> Int] /\ w.outstanding \in Int /\ w.contract \in BOOLEAN
  BY DEF Worlds
<1> QED
  BY <1>1, <1>2, <1>3, PoolFacts

(* All that a resize leaves alone. *)
SameButMemory(w, u) ==
  /\ u.vertices = w.vertices /\ u.edges = w.edges /\ u.weights = w.weights
  /\ u.steps = w.steps /\ u.touched = w.touched
  /\ u.cb.count = w.cb.count /\ u.cb.free = w.cb.free /\ u.cb.watermark = w.cb.watermark
  /\ u.cb.initial = w.cb.initial /\ u.cb.max = w.cb.max /\ u.cb.allocator = w.cb.allocator
  /\ u.cb.directed = w.cb.directed /\ u.cb.weighted = w.cb.weighted /\ u.cb.growable = w.cb.growable
  /\ u.cb.reject_parallel_edges = w.cb.reject_parallel_edges
  /\ u.cb.reject_self_loops = w.cb.reject_self_loops
  /\ u.cb.in_update = w.cb.in_update /\ u.cb.update_dirty = w.cb.update_dirty

LEMMA SameTransitive ==
  ASSUME NEW w, NEW u, NEW v, SameButMemory(w, u), SameButMemory(u, v)
  PROVE  SameButMemory(w, v)
  BY DEF SameButMemory

Total(of) == of.vertices + of.edges + of.weights + of.work + of.visited

Balanced(w) == w.outstanding = Total(w.bytes)

(* The memory of a graph that is set up. *)
Sound(w) ==
  /\ w \in Worlds
  /\ w.contract /\ Balanced(w)
  /\ w.cb.allocator.alloc /\ w.cb.allocator.free
  /\ \A p \in Pools : /\ DOMAIN w[p] = 0 .. w.cb.watermark[p] - 1
                      /\ w.cb.watermark[p] <= w.cb.capacity[p]
                      /\ w.cb.capacity[p] <= MaxCapacity
                      /\ BytesFit(w.cb.capacity[p], 32)
                      /\ w.bytes[p] = w.cb.capacity[p] * 32
  /\ BytesFit(w.cb.weight_capacity, 8)
  /\ w.bytes.weights = w.cb.weight_capacity * 8
  /\ w.bytes.work = w.cb.work_capacity * 8
  /\ w.bytes.visited = w.cb.visited_words * 8
  /\ IF w.cb.weighted THEN w.cb.weight_capacity >= w.cb.capacity.edges ELSE w.cb.weight_capacity = 0
  /\ DOMAIN w.weights \subseteq 0 .. w.cb.watermark.edges - 1
  /\ w.cb.weighted => \A e \in DOMAIN w.edges : w.edges[e].active => e \in DOMAIN w.weights

(***************************************************************************)
(* Blocks.                                                                 *)
(***************************************************************************)
LEMMA FitFacts ==
  ASSUME NEW n \in Nat, NEW size \in {8, 32}
  PROVE  n * size \in Nat /\ (n * size) \div size = n /\ (n * size = 0 <=> n = 0)
<1>1. CASE size = 8
  BY <1>1
<1>2. CASE size = 32
  BY <1>2
<1> QED
  BY <1>1, <1>2

(* The states a resize of one block may end in. *)
BlockEnds(w, b, new, u, status) ==
  /\ u \in Worlds /\ u.cb = w.cb /\ SameButMemory(w, u) /\ u.contract /\ Balanced(u)
  /\ status \in {"OK", "NOMEM"}
  /\ u.bytes = IF status = "OK" THEN [w.bytes EXCEPT ![b] = new] ELSE w.bytes
  /\ new = w.bytes[b] => status = "OK" /\ u.calls = w.calls

(* All slots of block b are below k. *)
Below(w, b, k) == b \in {"vertices", "edges", "weights"} => \A i \in DOMAIN w[b] : i < k

(* Block b is `new' bytes now. *)
Sized(w, b, new) == [w EXCEPT !.bytes[b] = new, !.outstanding = @ - w.bytes[b] + new]

(* A move that keeps all slots there are. *)
LEMMA MovedFacts ==
  ASSUME NEW w \in Worlds, NEW b \in Blocks, NEW new \in Nat, NEW k \in Nat,
         NEW kept, kept = k * SlotSize(b), Below(w, b, k)
  PROVE  Moved(w, b, new, kept) = Sized(w, b, new)
<1> DEFINE sized == [w EXCEPT !.bytes[b] = new, !.outstanding = @ - w.bytes[b] + new]
<1>0. Sized(w, b, new) = sized
  BY DEF Sized
<1>1. kept \div SlotSize(b) = k
  BY FitFacts DEF SlotSize
<1>2. CASE b \in {"work", "visited"}
  BY <1>2 DEF Moved, Sized
<1>3. CASE b \in {"vertices", "edges", "weights"}
  <2>1. sized \in Worlds /\ sized[b] = w[b]
    <3>1. [w.bytes EXCEPT ![b] = new] \in [Blocks -> Int] /\ w.outstanding - w.bytes[b] + new \in Int
      BY WorldFacts
    <3>2. sized \in Worlds
      BY <3>1 DEF Worlds
    <3>3. sized.vertices = w.vertices /\ sized.edges = w.edges /\ sized.weights = w.weights
      BY DEF Worlds
    <3> QED
      BY <1>3, <3>2, <3>3
  <2>2. w[b] = [i \in DOMAIN w[b] |-> w[b][i]]
    BY <1>3, WorldFacts
  <2>3. w[b] = [i \in DOMAIN w[b] |-> IF i < k THEN w[b][i] ELSE Garbage]
    BY <1>3, <2>2 DEF Below
  <2>4. Moved(w, b, new, kept) =
          [sized EXCEPT ![b] = [i \in DOMAIN w[b] |-> IF i < k THEN w[b][i] ELSE Garbage]]
    <3>1. b \notin {"work", "visited"}
      BY <1>3
    <3> HIDE DEF sized
    <3> QED
      BY <1>1, <2>1, <3>1 DEF Moved, sized
  <2> HIDE DEF sized
  <2>5. [sized EXCEPT ![b] = sized[b]] = sized
    BY <2>1 DEF Worlds
  <2> QED
    BY <1>0, <2>1, <2>3, <2>4, <2>5
<1> QED
  BY <1>2, <1>3 DEF Blocks, Pools

LEMMA BytesFacts ==
  ASSUME NEW w \in Worlds, NEW b \in Blocks, NEW new \in Nat, Balanced(w),
         NEW sizes, sizes = [w.bytes EXCEPT ![b] = new]
  PROVE  /\ sizes \in [Blocks -> Int]
         /\ w.outstanding - w.bytes[b] + new \in Int
         /\ w.outstanding - w.bytes[b] + new = Total(sizes)
<1>1. w.bytes \in [Blocks -> Int] /\ w.outstanding \in Int /\ w.bytes[b] \in Int
  BY WorldFacts
<1>2. b \in {"vertices", "edges", "weights", "work", "visited"}
  BY DEF Blocks, Pools
<1>3. \A c \in {"vertices", "edges", "weights", "work", "visited"} :
        w.bytes[c] \in Int /\ c \in Blocks /\ sizes[c] = IF c = b THEN new ELSE w.bytes[c]
  BY <1>1 DEF Blocks, Pools
<1> QED
  BY <1>1, <1>2, <1>3 DEF Balanced, Total

LEMMA ResizedWorld ==
  ASSUME NEW w \in Worlds, Balanced(w), w.contract, NEW b \in Blocks, NEW new \in Nat,
         NEW calls \in SUBSET {"alloc", "realloc", "free", "refused"}, NEW u,
         u = [w EXCEPT !.bytes[b] = new, !.outstanding = @ - w.bytes[b] + new, !.calls = calls]
  PROVE  BlockEnds(w, b, new, u, "OK") \/ new = w.bytes[b]
<1>1. /\ [w.bytes EXCEPT ![b] = new] \in [Blocks -> Int]
      /\ w.outstanding - w.bytes[b] + new \in Int
  BY BytesFacts
<1>2. u \in Worlds
  BY <1>1 DEF Worlds
<1>3. /\ u.cb = w.cb /\ u.vertices = w.vertices /\ u.edges = w.edges /\ u.weights = w.weights
      /\ u.steps = w.steps /\ u.touched = w.touched /\ u.contract = w.contract
      /\ u.bytes = [w.bytes EXCEPT ![b] = new] /\ u.outstanding = w.outstanding - w.bytes[b] + new
  BY DEF Worlds
<1>4. Balanced(u)
  <2>1. w.outstanding - w.bytes[b] + new = Total([w.bytes EXCEPT ![b] = new])
    BY BytesFacts
  <2> QED
    BY <1>3, <2>1 DEF Balanced
<1>5. SameButMemory(w, u)
  BY <1>3 DEF SameButMemory
<1> QED
  BY <1>2, <1>3, <1>4, <1>5 DEF BlockEnds

LEMMA SameWorld ==
  ASSUME NEW w \in Worlds, Balanced(w), w.contract, NEW b, NEW new, new # w.bytes[b],
         NEW calls \in SUBSET {"alloc", "realloc", "free", "refused"}, NEW u, u = [w EXCEPT !.calls = calls]
  PROVE  BlockEnds(w, b, new, u, "NOMEM")
<1>1. u \in Worlds
  BY DEF Worlds
<1>2. /\ u.cb = w.cb /\ u.vertices = w.vertices /\ u.edges = w.edges /\ u.weights = w.weights
      /\ u.steps = w.steps /\ u.touched = w.touched /\ u.contract = w.contract
      /\ u.bytes = w.bytes /\ u.outstanding = w.outstanding
  BY DEF Worlds
<1>3. Balanced(u) /\ SameButMemory(w, u)
  BY <1>2 DEF Balanced, SameButMemory
<1> QED
  BY <1>1, <1>2, <1>3 DEF BlockEnds

LEMMA ReleaseFacts ==
  ASSUME NEW w \in Worlds, Balanced(w), w.contract, w.cb.allocator.free, NEW b \in Blocks
  PROVE  BlockEnds(w, b, 0, Release(w, b, w.bytes[b]), "OK") \/ w.bytes[b] = 0
<1> DEFINE u == Release(w, b, w.bytes[b])
           v == [w EXCEPT !.bytes[b] = 0, !.outstanding = @ - w.bytes[b] + 0, !.calls = @ \cup {"free"}]
<1>1. w.outstanding - w.bytes[b] + 0 = w.outstanding - w.bytes[b]
  BY WorldFacts
<1>2. u = v
  BY <1>1 DEF Release, Worlds
<1>3. w.calls \cup {"free"} \in SUBSET {"alloc", "realloc", "free", "refused"}
  BY DEF Worlds
<1> QED
  BY <1>2, <1>3, ResizedWorld

LEMMA BlockFacts ==
  ASSUME NEW w \in Worlds, Balanced(w), w.contract, w.cb.allocator.alloc, w.cb.allocator.free,
         NEW b \in Blocks, NEW held \in Nat, NEW capacity \in Nat, NEW live \in Nat,
         live <= held, live <= capacity, w.bytes[b] = held * SlotSize(b),
         Below(w, b, live),
         NEW r \in ResizeBlock(w, b, held * SlotSize(b), capacity * SlotSize(b), live * SlotSize(b))
  PROVE  BlockEnds(w, b, capacity * SlotSize(b), r.w, r.status)
<1> DEFINE old == held * SlotSize(b)
           new == capacity * SlotSize(b)
           moves == w.bytes[b] # 0 /\ ~w.cb.allocator.realloc
           resizes == w.bytes[b] # 0 /\ w.cb.allocator.realloc
           slots == IF moves THEN live ELSE held
           k == IF slots < capacity THEN slots ELSE capacity
           wanted == IF moves THEN live * SlotSize(b) ELSE old
           kept == IF wanted < new THEN wanted ELSE new
           called == [w EXCEPT !.calls = @ \cup {IF resizes THEN "realloc" ELSE "alloc"},
                               !.contract = @ /\ w.cb.allocator.alloc /\ old = w.bytes[b]]
<1> SUFFICES BlockEnds(w, b, new, r.w, r.status)
  OBVIOUS
<1>1. old \in Nat /\ new \in Nat /\ SlotSize(b) \in {8, 32}
  BY FitFacts DEF SlotSize
<1>2. kept = k * SlotSize(b) /\ k \in Nat /\ live <= k
  <2>1. CASE SlotSize(b) = 8
    BY <2>1
  <2>2. CASE SlotSize(b) = 32
    BY <2>2
  <2> QED
    BY <1>1, <2>1, <2>2
<1>3. \/ new = old /\ r = Ends(w, "OK")
      \/ new # old /\ new = 0 /\ r = Ends(IF w.bytes[b] = 0 THEN w ELSE Release(w, b, old), "OK")
      \/ new # old /\ r = Ends([called EXCEPT !.calls = @ \cup {"refused"}], "NOMEM")
      \/ new # old /\ r = Ends(Moved(called, b, new, kept), "OK")
  BY Zenon DEF ResizeBlock
<1> DEFINE hook == IF resizes THEN "realloc" ELSE "alloc"
<1>4. called = [w EXCEPT !.calls = w.calls \cup {hook}]
  <2>1. (w.contract /\ w.cb.allocator.alloc /\ old = w.bytes[b]) = w.contract
    BY WorldFacts
  <2>2. [w EXCEPT !.calls = w.calls \cup {hook}].contract = w.contract
    BY DEF Worlds
  <2> HIDE DEF hook, old
  <2> QED
    BY <2>1, <2>2 DEF Worlds, hook
<1> HIDE DEF old, kept, k, called, new
<1>5. CASE new = old /\ r = Ends(w, "OK")
  <2>1. r.w = w /\ r.status = "OK"
    BY <1>5 DEF Ends
  <2>2. w.bytes = [w.bytes EXCEPT ![b] = new]
    BY <1>5, WorldFacts DEF old
  <2>3. SameButMemory(w, w)
    BY DEF SameButMemory
  <2> QED
    BY <2>1, <2>2, <2>3 DEF BlockEnds
<1>6. CASE new # old /\ new = 0 /\ r = Ends(IF w.bytes[b] = 0 THEN w ELSE Release(w, b, old), "OK")
  <2>1. r.w = Release(w, b, w.bytes[b]) /\ r.status = "OK" /\ w.bytes[b] # 0
    BY <1>6 DEF Ends, old
  <2> QED
    BY <1>6, <2>1, ReleaseFacts
<1>7. w.calls \cup {hook} \in SUBSET {"alloc", "realloc", "free", "refused"}
      /\ w.calls \cup {hook, "refused"} \in SUBSET {"alloc", "realloc", "free", "refused"}
  BY DEF Worlds
<1>8. CASE new # old /\ r = Ends([called EXCEPT !.calls = @ \cup {"refused"}], "NOMEM")
  <2> DEFINE all == w.calls \cup {hook, "refused"}
  <2>1. r.w = [w EXCEPT !.calls = all] /\ r.status = "NOMEM"
    <3>1. (w.calls \cup {hook}) \cup {"refused"} = w.calls \cup {hook, "refused"}
      OBVIOUS
    <3> HIDE DEF hook
    <3> QED
      BY <1>4, <1>8, <3>1 DEF Ends, Worlds
  <2>2. new # w.bytes[b]
    BY <1>8 DEF old
  <2>3. all \in SUBSET {"alloc", "realloc", "free", "refused"}
    BY <1>7
  <2> HIDE DEF hook, all
  <2>4. BlockEnds(w, b, new, r.w, "NOMEM")
    BY <2>1, <2>2, <2>3, SameWorld
  <2> QED
    BY <2>1, <2>4
<1>9. CASE new # old /\ r = Ends(Moved(called, b, new, kept), "OK")
  <2>1. called \in Worlds /\ called.bytes = w.bytes
        /\ called.vertices = w.vertices /\ called.edges = w.edges /\ called.weights = w.weights
    <3> HIDE DEF hook
    <3> QED
      BY <1>4, <1>7 DEF Worlds
  <2>2. b \in {"vertices", "edges", "weights"} => called[b] = w[b]
    BY <2>1
  <2>3. Below(called, b, k)
    <3> SUFFICES ASSUME b \in {"vertices", "edges", "weights"}, NEW i \in DOMAIN called[b] PROVE i < k
      BY DEF Below
    <3>1. i < live /\ i \in Nat
      <4>1. i \in DOMAIN w[b] /\ i < live
        BY <2>2 DEF Below
      <4>2. DOMAIN w[b] \subseteq Nat
        BY WorldFacts
      <4> QED
        BY <4>1, <4>2
    <3> QED
      BY <1>2, <3>1
  <2>4. r.w = [called EXCEPT !.bytes[b] = new, !.outstanding = @ - w.bytes[b] + new] /\ r.status = "OK"
    <3>1. called \in Worlds /\ new \in Nat /\ k \in Nat /\ kept = k * SlotSize(b) /\ Below(called, b, k)
      BY <1>1, <1>2, <2>1, <2>3
    <3>2. Moved(called, b, new, kept) = Sized(called, b, new)
      BY <3>1, MovedFacts
    <3> QED
      BY <1>9, <2>1, <3>2 DEF Ends, Sized
  <2>5. r.w = [w EXCEPT !.bytes[b] = new, !.outstanding = @ - w.bytes[b] + new, !.calls = w.calls \cup {hook}]
    <3> HIDE DEF hook
    <3> QED
      BY <1>4, <2>4 DEF Worlds
  <2> HIDE DEF hook
  <2>6. BlockEnds(w, b, new, r.w, "OK") \/ new = w.bytes[b]
    BY <1>1, <1>7, <2>5, ResizedWorld
  <2> QED
    BY <1>9, <2>4, <2>6 DEF old
<1> QED
  BY <1>3, <1>5, <1>6, <1>8, <1>9
(***************************************************************************)
(* Capacities.                                                             *)
(***************************************************************************)
(* What a pool or the weights are resized to: room for all slots there are. *)
BlockSlots(w, b, held, capacity, live, q) ==
  /\ BytesFit(capacity, SlotSize(b))
  /\ q \in ResizeBlock(w, b, held * SlotSize(b), capacity * SlotSize(b), live * SlotSize(b))

LEMMA PoolCases ==
  ASSUME NEW w, NEW p, NEW capacity, NEW r \in ResizePool(w, p, capacity)
  PROVE  \/ r = Ends(w, "OVERFLOW")
         \/ \E q : /\ BlockSlots(w, p, w.cb.capacity[p], capacity, w.cb.watermark[p], q)
                   /\ IF q.status = "OK" THEN r = Ends([q.w EXCEPT !.cb.capacity[p] = capacity], "OK") ELSE r = q
  BY Zenon DEF ResizePool, ResizeTo, Then, BlockSlots

LEMMA WeightCases ==
  ASSUME NEW w, NEW capacity, NEW r \in ResizeWeights(w, capacity)
  PROVE  \/ (~w.cb.weighted \/ capacity = w.cb.weight_capacity) /\ r = Ends(w, "OK")
         \/ w.cb.weighted /\ r = Ends(w, "OVERFLOW")
         \/ w.cb.weighted /\ \E q :
              /\ BlockSlots(w, "weights", w.cb.weight_capacity, capacity, w.cb.watermark.edges, q)
              /\ IF q.status = "OK" THEN r = Ends([q.w EXCEPT !.cb.weight_capacity = capacity], "OK") ELSE r = q
  BY Zenon DEF ResizeWeights, ResizeTo, Then, BlockSlots
(* The state after a resize of pool p, or of the weights. *)
PoolDone(w, p, capacity, r) ==
  /\ Sound(r.w) /\ SameButMemory(w, r.w)
  /\ r.w.cb = IF r.status = "OK" THEN [w.cb EXCEPT !.capacity[p] = capacity] ELSE w.cb
  /\ capacity = w.cb.capacity[p] => r.w.calls = w.calls

WeightsDone(w, capacity, r) ==
  /\ Sound(r.w) /\ SameButMemory(w, r.w)
  /\ r.w.cb = IF r.status = "OK" /\ w.cb.weighted THEN [w.cb EXCEPT !.weight_capacity = capacity] ELSE w.cb
  /\ capacity = w.cb.weight_capacity => r.w.calls = w.calls

LEMMA SoundSame ==
  ASSUME NEW w, NEW u, Sound(w), u \in Worlds, u.cb = w.cb, SameButMemory(w, u), u.contract, Balanced(u),
         u.bytes = w.bytes
  PROVE  Sound(u)
<1>1. \A p \in Pools : u[p] = w[p]
  BY PoolNames DEF SameButMemory
<1> QED
  BY <1>1, PoolNames DEF Sound, SameButMemory

LEMMA SoundPools ==
  ASSUME NEW w, Sound(w), NEW p \in Pools
  PROVE  /\ w \in Worlds /\ w.contract /\ Balanced(w) /\ w.cb.allocator.alloc /\ w.cb.allocator.free
         /\ w.cb.capacity[p] \in Nat /\ w.cb.watermark[p] \in Nat /\ w.cb.watermark[p] <= w.cb.capacity[p]
         /\ w.cb.capacity[p] <= MaxCapacity
         /\ SlotSize(p) = 32 /\ w.bytes[p] = w.cb.capacity[p] * SlotSize(p) /\ p \in Blocks
         /\ Below(w, p, w.cb.watermark[p])
<1>1. w \in Worlds
  BY DEF Sound
<1>2. w.cb \in ControlBlocks
  BY <1>1, WorldFacts
<1>3. w.cb.capacity[p] \in Nat /\ w.cb.watermark[p] \in Nat
  BY <1>2, CbFacts
<1>4. SlotSize(p) = 32 /\ p \in Blocks
  BY DEF SlotSize, Blocks
<1>5. Below(w, p, w.cb.watermark[p])
  <2> SUFFICES ASSUME NEW i \in DOMAIN w[p] PROVE i < w.cb.watermark[p]
    BY DEF Below
  <2>1. i \in 0 .. w.cb.watermark[p] - 1
    BY DEF Sound
  <2> QED
    BY <1>3, <2>1
<1> QED
  BY <1>1, <1>3, <1>4, <1>5 DEF Sound

LEMMA PoolResized ==
  ASSUME NEW w, Sound(w), NEW p \in Pools, NEW capacity \in Nat,
         w.cb.watermark[p] <= capacity, capacity <= MaxCapacity,
         p = "edges" /\ w.cb.weighted => w.cb.weight_capacity >= capacity,
         NEW r \in ResizePool(w, p, capacity)
  PROVE  PoolDone(w, p, capacity, r)
<1> DEFINE held == w.cb.capacity[p]
           live == w.cb.watermark[p]
           new == capacity * SlotSize(p)
<1>0. /\ w \in Worlds /\ w.contract /\ Balanced(w) /\ w.cb.allocator.alloc /\ w.cb.allocator.free
      /\ held \in Nat /\ live \in Nat /\ live <= held
      /\ SlotSize(p) = 32 /\ w.bytes[p] = held * SlotSize(p) /\ p \in Blocks
      /\ Below(w, p, live)
  BY SoundPools
<1>1. CASE r = Ends(w, "OVERFLOW")
  <2>1. r.w = w /\ r.status = "OVERFLOW"
    BY <1>1 DEF Ends
  <2>2. SameButMemory(w, w)
    BY DEF SameButMemory
  <2> QED
    BY <2>1, <2>2 DEF PoolDone
<1>2. ASSUME NEW q, BlockSlots(w, p, held, capacity, live, q),
             IF q.status = "OK" THEN r = Ends([q.w EXCEPT !.cb.capacity[p] = capacity], "OK") ELSE r = q
      PROVE  PoolDone(w, p, capacity, r)
  <2>1. BytesFit(capacity, 32) /\ q \in ResizeBlock(w, p, held * SlotSize(p), capacity * SlotSize(p), live * SlotSize(p))
    BY <1>0, <1>2 DEF BlockSlots
  <2>2. BlockEnds(w, p, new, q.w, q.status)
    BY <1>0, <2>1, BlockFacts
  <2>3. CASE q.status # "OK"
    <3>1. r = q /\ q.w.bytes = w.bytes /\ capacity # w.cb.capacity[p]
      BY <1>0, <1>2, <2>2, <2>3 DEF BlockEnds
    <3> QED
      BY <2>2, <2>3, <3>1, SoundSame DEF BlockEnds, PoolDone
  <2>4. CASE q.status = "OK"
    <3> DEFINE u == q.w
               v == [u EXCEPT !.cb.capacity[p] = capacity]
    <3>1. r.w = v /\ r.status = "OK"
      BY <1>2, <2>4 DEF Ends
    <3>2. u \in Worlds /\ u.cb = w.cb /\ SameButMemory(w, u) /\ u.contract /\ Balanced(u)
          /\ u.bytes = [w.bytes EXCEPT ![p] = new] /\ (new = w.bytes[p] => u.calls = w.calls)
      BY <2>2, <2>4 DEF BlockEnds
    <3> HIDE DEF u
    <3>3. v \in Worlds /\ v.cb = [w.cb EXCEPT !.capacity[p] = capacity]
          /\ v.vertices = u.vertices /\ v.edges = u.edges /\ v.weights = u.weights
          /\ v.steps = u.steps /\ v.touched = u.touched /\ v.contract = u.contract
          /\ v.bytes = u.bytes /\ v.outstanding = u.outstanding /\ v.calls = u.calls
      <4>1. [u.cb EXCEPT !.capacity[p] = capacity] \in ControlBlocks
        BY <3>2 DEF Worlds, ControlBlocks
      <4> QED
        BY <3>2, <4>1 DEF Worlds
    <3> HIDE DEF v
    <3>4. \A c \in Pools : v.cb.capacity[c] = IF c = p THEN capacity ELSE w.cb.capacity[c]
      BY <1>0, <3>3 DEF Worlds, ControlBlocks
    <3>5. /\ v.cb.count = w.cb.count /\ v.cb.free = w.cb.free /\ v.cb.watermark = w.cb.watermark
          /\ v.cb.initial = w.cb.initial /\ v.cb.max = w.cb.max /\ v.cb.allocator = w.cb.allocator
          /\ v.cb.directed = w.cb.directed /\ v.cb.weighted = w.cb.weighted /\ v.cb.growable = w.cb.growable
          /\ v.cb.reject_parallel_edges = w.cb.reject_parallel_edges
          /\ v.cb.reject_self_loops = w.cb.reject_self_loops
          /\ v.cb.in_update = w.cb.in_update /\ v.cb.update_dirty = w.cb.update_dirty
          /\ v.cb.weight_capacity = w.cb.weight_capacity /\ v.cb.work_capacity = w.cb.work_capacity
          /\ v.cb.visited_words = w.cb.visited_words
      BY <1>0, <3>3 DEF Worlds, ControlBlocks
    <3>6. SameButMemory(w, v)
      BY <3>2, <3>3, <3>5 DEF SameButMemory
    <3>7. \A c \in Blocks : v.bytes[c] = IF c = p THEN capacity * 32 ELSE w.bytes[c]
      BY <1>0, <3>2, <3>3, WorldFacts
    <3>8. Sound(v)
      <4>1. ASSUME NEW c \in Pools
            PROVE  /\ DOMAIN v[c] = 0 .. v.cb.watermark[c] - 1
                   /\ v.cb.watermark[c] <= v.cb.capacity[c]
                   /\ v.cb.capacity[c] <= MaxCapacity
                   /\ BytesFit(v.cb.capacity[c], 32)
                   /\ v.bytes[c] = v.cb.capacity[c] * 32
        <5>1. v[c] = w[c] /\ c \in Blocks
          BY <3>6, PoolNames DEF SameButMemory, Blocks
        <5>2. CASE c = p
          BY <2>1, <3>4, <3>5, <3>7, <5>1, <5>2 DEF Sound
        <5>3. CASE c # p
          BY <3>4, <3>5, <3>7, <5>1, <5>3 DEF Sound
        <5> QED
          BY <5>2, <5>3
      <4>2. /\ v.bytes.weights = w.bytes.weights /\ v.bytes.work = w.bytes.work
            /\ v.bytes.visited = w.bytes.visited
        BY <3>7 DEF Blocks, Pools
      <4>3. w.cb.weighted => w.cb.weight_capacity >= v.cb.capacity.edges
        BY <3>4, PoolNames DEF Sound
      <4>4. v.contract /\ Balanced(v)
        BY <3>2, <3>3 DEF Balanced
      <4>5. v.edges = w.edges /\ v.weights = w.weights
        BY <3>6 DEF SameButMemory
      <4> QED
        BY <3>3, <3>5, <4>1, <4>2, <4>3, <4>4, <4>5 DEF Sound
    <3> QED
      BY <1>0, <3>1, <3>2, <3>3, <3>6, <3>8 DEF PoolDone
  <2> QED
    BY <2>3, <2>4
<1> QED
  BY <1>1, <1>2, PoolCases
LEMMA WeightsResized ==
  ASSUME NEW w, Sound(w), NEW capacity \in Nat, w.cb.capacity.edges <= capacity,
         NEW r \in ResizeWeights(w, capacity)
  PROVE  WeightsDone(w, capacity, r)
<1> DEFINE held == w.cb.weight_capacity
           live == w.cb.watermark.edges
           new == capacity * SlotSize("weights")
<1>0. /\ w \in Worlds /\ w.contract /\ Balanced(w) /\ w.cb.allocator.alloc /\ w.cb.allocator.free
      /\ live \in Nat /\ live <= w.cb.capacity.edges /\ w.cb.capacity.edges \in Nat
  BY SoundPools, PoolNames
<1>a. held \in Nat
  BY <1>0, WorldFacts, CbFacts
<1>b. SlotSize("weights") = 8 /\ w.bytes.weights = held * SlotSize("weights") /\ "weights" \in Blocks
  BY DEF SlotSize, Blocks, Pools, Sound
<1>c. Below(w, "weights", live)
  <2> SUFFICES ASSUME NEW i \in DOMAIN w.weights PROVE i < live
    BY DEF Below
  <2>1. i \in 0 .. live - 1
    BY DEF Sound
  <2> QED
    BY <1>0, <2>1
<1>d. SameButMemory(w, w)
  BY DEF SameButMemory
<1>1. CASE (~w.cb.weighted \/ capacity = w.cb.weight_capacity) /\ r = Ends(w, "OK")
  <2>1. r.w = w /\ r.status = "OK"
    BY <1>1 DEF Ends
  <2>2. w.cb.weighted => [w.cb EXCEPT !.weight_capacity = capacity] = w.cb
    BY <1>0, <1>1 DEF Worlds, ControlBlocks
  <2> QED
    BY <1>d, <2>1, <2>2 DEF WeightsDone
<1>2. CASE r = Ends(w, "OVERFLOW")
  <2>1. r.w = w /\ r.status = "OVERFLOW"
    BY <1>2 DEF Ends
  <2> QED
    BY <1>d, <2>1 DEF WeightsDone
<1>3. ASSUME w.cb.weighted, NEW q, BlockSlots(w, "weights", held, capacity, live, q),
             IF q.status = "OK" THEN r = Ends([q.w EXCEPT !.cb.weight_capacity = capacity], "OK") ELSE r = q
      PROVE  WeightsDone(w, capacity, r)
  <2>0. held >= w.cb.capacity.edges
    BY <1>3 DEF Sound
  <2>1. BytesFit(capacity, 8)
        /\ q \in ResizeBlock(w, "weights", held * SlotSize("weights"), capacity * SlotSize("weights"),
                             live * SlotSize("weights"))
    BY <1>b, <1>3 DEF BlockSlots
  <2>a. live <= held /\ live <= capacity
    BY <1>0, <1>a, <2>0
  <2>2. BlockEnds(w, "weights", new, q.w, q.status)
    BY <1>0, <1>a, <1>b, <1>c, <2>a, <2>1, BlockFacts
  <2>3. CASE q.status # "OK"
    <3>1. r = q /\ q.w.bytes = w.bytes /\ capacity # held
      BY <1>b, <1>3, <2>2, <2>3 DEF BlockEnds
    <3> QED
      BY <2>2, <2>3, <3>1, SoundSame DEF BlockEnds, WeightsDone
  <2>4. CASE q.status = "OK"
    <3> DEFINE u == q.w
               v == [u EXCEPT !.cb.weight_capacity = capacity]
    <3>1. r.w = v /\ r.status = "OK"
      BY <1>3, <2>4 DEF Ends
    <3>2. u \in Worlds /\ u.cb = w.cb /\ SameButMemory(w, u) /\ u.contract /\ Balanced(u)
          /\ u.bytes = [w.bytes EXCEPT !["weights"] = new] /\ (new = w.bytes.weights => u.calls = w.calls)
      BY <2>2, <2>4 DEF BlockEnds
    <3> HIDE DEF u
    <3>3. v \in Worlds /\ v.cb = [w.cb EXCEPT !.weight_capacity = capacity]
          /\ v.vertices = u.vertices /\ v.edges = u.edges /\ v.weights = u.weights
          /\ v.steps = u.steps /\ v.touched = u.touched /\ v.contract = u.contract
          /\ v.bytes = u.bytes /\ v.outstanding = u.outstanding /\ v.calls = u.calls
      <4>1. [u.cb EXCEPT !.weight_capacity = capacity] \in ControlBlocks
        BY <3>2 DEF Worlds, ControlBlocks
      <4> QED
        BY <3>2, <4>1 DEF Worlds
    <3> HIDE DEF v
    <3>5. /\ v.cb.count = w.cb.count /\ v.cb.free = w.cb.free /\ v.cb.watermark = w.cb.watermark
          /\ v.cb.initial = w.cb.initial /\ v.cb.max = w.cb.max /\ v.cb.allocator = w.cb.allocator
          /\ v.cb.directed = w.cb.directed /\ v.cb.weighted = w.cb.weighted /\ v.cb.growable = w.cb.growable
          /\ v.cb.reject_parallel_edges = w.cb.reject_parallel_edges
          /\ v.cb.reject_self_loops = w.cb.reject_self_loops
          /\ v.cb.in_update = w.cb.in_update /\ v.cb.update_dirty = w.cb.update_dirty
          /\ v.cb.weight_capacity = capacity /\ v.cb.work_capacity = w.cb.work_capacity
          /\ v.cb.visited_words = w.cb.visited_words /\ v.cb.capacity = w.cb.capacity
      BY <1>0, <3>3 DEF Worlds, ControlBlocks
    <3>6. SameButMemory(w, v)
      BY <3>2, <3>3, <3>5 DEF SameButMemory
    <3>7. \A c \in Blocks : v.bytes[c] = IF c = "weights" THEN capacity * 8 ELSE w.bytes[c]
      BY <1>0, <1>b, <3>2, <3>3, WorldFacts
    <3>8. Sound(v)
      <4>1. ASSUME NEW c \in Pools
            PROVE  v[c] = w[c] /\ v.bytes[c] = w.bytes[c]
        <5>1. v[c] = w[c] /\ c \in Blocks /\ c # "weights"
          BY <3>6, PoolNames DEF SameButMemory, Blocks, Pools
        <5> QED
          BY <3>7, <5>1
      <4>2. /\ v.bytes.weights = capacity * 8 /\ v.bytes.work = w.bytes.work
            /\ v.bytes.visited = w.bytes.visited
        BY <3>7 DEF Blocks, Pools
      <4>4. v.contract /\ Balanced(v)
        BY <3>2, <3>3 DEF Balanced
      <4>5. v.edges = w.edges /\ v.weights = w.weights
        BY <3>6 DEF SameButMemory
      <4>6. v.cb.weight_capacity >= v.cb.capacity.edges
        BY <1>0, <3>5
      <4> QED
        BY <1>3, <2>1, <3>3, <3>5, <4>1, <4>2, <4>4, <4>5, <4>6 DEF Sound
    <3> QED
      BY <1>3, <1>b, <3>1, <3>2, <3>3, <3>6, <3>8 DEF WeightsDone
  <2> QED
    BY <2>3, <2>4
<1> QED
  BY <1>1, <1>2, <1>3, WeightCases
(* The state after dv_graph_set_vertex_capacity or dv_graph_set_edge_capacity. *)
Fitted(w) == w.cb.weighted => w.cb.weight_capacity = w.cb.capacity.edges

CapacityDone(w, p, capacity, r) ==
  /\ Sound(r.w) /\ SameButMemory(w, r.w)
  /\ \A c \in Pools \ {p} : r.w.cb.capacity[c] = w.cb.capacity[c]
  /\ r.w.cb.capacity[p] = capacity \/ (r.status # "OK" /\ r.w.cb.capacity[p] = w.cb.capacity[p])
  /\ r.w.cb.work_capacity = w.cb.work_capacity /\ r.w.cb.visited_words = w.cb.visited_words
  /\ p = "vertices" => r.w.cb.weight_capacity = w.cb.weight_capacity
  /\ p = "edges" /\ r.status = "OK" => Fitted(r.w)
  /\ capacity = w.cb.capacity[p] /\ Fitted(w) => r = Ends(w, "OK")

LEMMA PoolDoneFacts ==
  ASSUME NEW w, Sound(w), NEW p \in Pools, NEW capacity \in Nat, NEW r, PoolDone(w, p, capacity, r)
  PROVE  /\ Sound(r.w) /\ SameButMemory(w, r.w)
         /\ \A c \in Pools : r.w.cb.capacity[c] = IF r.status = "OK" /\ c = p THEN capacity ELSE w.cb.capacity[c]
         /\ r.w.cb.work_capacity = w.cb.work_capacity /\ r.w.cb.visited_words = w.cb.visited_words
         /\ r.w.cb.weight_capacity = w.cb.weight_capacity
<1>1. w.cb \in ControlBlocks
  BY WorldFacts DEF Sound
<1>2. CASE r.status = "OK"
  <2>1. r.w.cb = [w.cb EXCEPT !.capacity[p] = capacity]
    BY <1>2 DEF PoolDone
  <2> QED
    BY <1>1, <1>2, <2>1 DEF PoolDone, ControlBlocks
<1>3. CASE r.status # "OK"
  BY <1>3 DEF PoolDone
<1> QED
  BY <1>2, <1>3

LEMMA WeightsDoneFacts ==
  ASSUME NEW w, Sound(w), NEW capacity \in Nat, NEW r, WeightsDone(w, capacity, r)
  PROVE  /\ Sound(r.w) /\ SameButMemory(w, r.w)
         /\ r.w.cb.capacity = w.cb.capacity
         /\ r.w.cb.work_capacity = w.cb.work_capacity /\ r.w.cb.visited_words = w.cb.visited_words
         /\ r.w.cb.weighted = w.cb.weighted
         /\ r.w.cb.weighted /\ r.status = "OK" => r.w.cb.weight_capacity = capacity
<1>1. w.cb \in ControlBlocks
  BY WorldFacts DEF Sound
<1>2. CASE r.status = "OK" /\ w.cb.weighted
  <2>1. r.w.cb = [w.cb EXCEPT !.weight_capacity = capacity]
    BY <1>2 DEF WeightsDone
  <2> QED
    BY <1>1, <1>2, <2>1, ZenonT(30) DEF WeightsDone, ControlBlocks
<1>3. CASE ~(r.status = "OK" /\ w.cb.weighted)
  BY <1>3 DEF WeightsDone
<1> QED
  BY <1>2, <1>3

LEMMA VertexCapacityFacts ==
  ASSUME NEW w, Sound(w), NEW capacity \in Nat, NEW r \in SetVertexCapacity(w, capacity)
  PROVE  CapacityDone(w, "vertices", capacity, r)
<1>1. /\ w.cb.capacity["vertices"] = w.cb.capacity.vertices /\ w.cb.watermark["vertices"] = w.cb.watermark.vertices
      /\ w.cb.capacity.vertices \in Nat /\ w.cb.watermark.vertices \in Nat /\ MaxCapacity \in Nat
  BY SoundPools, PoolNames, PoolAssumption
<1>2. CASE r \in {Ends(w, "OK"), Ends(w, "OVERFLOW"), Ends(w, "INVALID")}
           /\ (capacity = w.cb.capacity.vertices <=> r = Ends(w, "OK"))
  <2>1. r.w = w /\ (r.status = "OK" <=> r = Ends(w, "OK"))
    BY <1>2 DEF Ends
  <2>2. SameButMemory(w, w)
    BY DEF SameButMemory
  <2> QED
    BY <1>2, <2>1, <2>2 DEF CapacityDone
<1>3. CASE /\ capacity # w.cb.capacity.vertices /\ capacity <= MaxCapacity /\ w.cb.watermark.vertices <= capacity
           /\ r \in ResizePool(w, "vertices", capacity)
  <2>1. PoolDone(w, "vertices", capacity, r)
    BY <1>1, <1>3, PoolResized, PoolNames
  <2> QED
    BY <1>3, <2>1, PoolDoneFacts, PoolNames DEF CapacityDone
<1> QED
  BY <1>1, <1>2, <1>3 DEF SetVertexCapacity, Ends

LEMMA EdgeCapacityFacts ==
  ASSUME NEW w, Sound(w), NEW capacity \in Nat, NEW r \in SetEdgeCapacity(w, capacity)
  PROVE  CapacityDone(w, "edges", capacity, r)
<1>1. /\ w.cb.capacity["edges"] = w.cb.capacity.edges /\ w.cb.watermark["edges"] = w.cb.watermark.edges
      /\ w.cb.capacity.edges \in Nat /\ w.cb.watermark.edges \in Nat /\ MaxCapacity \in Nat
      /\ w.cb.watermark.edges <= w.cb.capacity.edges
  BY SoundPools, PoolNames, PoolAssumption
<1>2. CASE r \in {Ends(w, "OVERFLOW"), Ends(w, "INVALID")} /\ capacity # w.cb.capacity.edges
  <2>1. r.w = w /\ r.status # "OK"
    BY <1>2 DEF Ends
  <2>2. SameButMemory(w, w)
    BY DEF SameButMemory
  <2> QED
    BY <1>2, <2>1, <2>2 DEF CapacityDone
<1>3. CASE capacity = w.cb.capacity.edges /\ r \in ResizeWeights(w, capacity)
  <2>1. WeightsDone(w, capacity, r)
    BY <1>1, <1>3, WeightsResized
  <2>2. Fitted(w) => r = Ends(w, "OK")
    BY <1>3 DEF Fitted, ResizeWeights
  <2> QED
    BY <1>3, <2>1, <2>2, WeightsDoneFacts DEF CapacityDone, Fitted
<1>4. ASSUME capacity > w.cb.capacity.edges, capacity <= MaxCapacity, w.cb.watermark.edges <= capacity,
             NEW q \in ResizeWeights(w, capacity),
             IF q.status = "OK" THEN r \in ResizePool(q.w, "edges", capacity) ELSE r = q
      PROVE  CapacityDone(w, "edges", capacity, r)
  <2>1. WeightsDone(w, capacity, q)
    BY <1>1, <1>4, WeightsResized
  <2>2. CASE q.status # "OK"
    BY <1>4, <2>1, <2>2, WeightsDoneFacts DEF CapacityDone
  <2>3. CASE q.status = "OK"
    <3> DEFINE u == q.w
    <3>1. /\ Sound(u) /\ SameButMemory(w, u) /\ u.cb.capacity = w.cb.capacity
          /\ u.cb.work_capacity = w.cb.work_capacity /\ u.cb.visited_words = w.cb.visited_words
          /\ (u.cb.weighted => u.cb.weight_capacity = capacity)
      BY <2>1, <2>3, WeightsDoneFacts
    <3>a. u.cb.watermark = w.cb.watermark
      BY <3>1 DEF SameButMemory
    <3>2. r \in ResizePool(u, "edges", capacity)
      BY <1>4, <2>3
    <3> HIDE DEF u
    <3>3. PoolDone(u, "edges", capacity, r)
      BY <1>4, <3>1, <3>a, <3>2, PoolResized, PoolNames
    <3>4. SameButMemory(w, r.w) /\ r.w.cb.weighted = u.cb.weighted
      BY <3>1, <3>3, SameTransitive DEF PoolDone, SameButMemory
    <3> QED
      BY <1>4, <3>1, <3>3, <3>4, PoolDoneFacts, PoolNames DEF CapacityDone, Fitted
  <2> QED
    BY <2>2, <2>3
<1>5. ASSUME capacity < w.cb.capacity.edges, capacity <= MaxCapacity, w.cb.watermark.edges <= capacity,
             NEW q \in ResizePool(w, "edges", capacity),
             IF q.status = "OK" THEN r \in ResizeWeights(q.w, capacity) ELSE r = q
      PROVE  CapacityDone(w, "edges", capacity, r)
  <2>0. w.cb.weighted => w.cb.weight_capacity >= capacity
    <3>1. w.cb.weight_capacity \in Nat
      BY WorldFacts, CbFacts DEF Sound
    <3> QED
      BY <1>1, <1>5, <3>1 DEF Sound
  <2>1. PoolDone(w, "edges", capacity, q)
    BY <1>1, <1>5, <2>0, PoolResized, PoolNames
  <2>2. CASE q.status # "OK"
    BY <1>5, <2>1, <2>2, PoolDoneFacts, PoolNames DEF CapacityDone
  <2>3. CASE q.status = "OK"
    <3> DEFINE u == q.w
    <3>1. /\ Sound(u) /\ SameButMemory(w, u)
          /\ \A c \in Pools : u.cb.capacity[c] = IF c = "edges" THEN capacity ELSE w.cb.capacity[c]
          /\ u.cb.work_capacity = w.cb.work_capacity /\ u.cb.visited_words = w.cb.visited_words
      BY <2>1, <2>3, PoolDoneFacts, PoolNames
    <3>2. r \in ResizeWeights(u, capacity) /\ u.cb.capacity.edges = capacity
      BY <1>5, <2>3, <3>1, PoolNames
    <3> HIDE DEF u
    <3>3. WeightsDone(u, capacity, r)
      BY <3>1, <3>2, WeightsResized
    <3>4. SameButMemory(w, r.w)
      BY <3>1, <3>3, SameTransitive DEF WeightsDone
    <3>5. /\ Sound(r.w) /\ r.w.cb.capacity = u.cb.capacity
          /\ r.w.cb.work_capacity = u.cb.work_capacity /\ r.w.cb.visited_words = u.cb.visited_words
          /\ (r.w.cb.weighted /\ r.status = "OK" => r.w.cb.weight_capacity = capacity)
      BY <3>1, <3>3, WeightsDoneFacts
    <3> QED
      BY <1>5, <3>1, <3>2, <3>4, <3>5 DEF CapacityDone, Fitted
  <2> QED
    BY <2>2, <2>3
<1>6. \/ capacity = w.cb.capacity.edges /\ r \in ResizeWeights(w, capacity)
      \/ capacity # w.cb.capacity.edges /\ r \in {Ends(w, "OVERFLOW"), Ends(w, "INVALID")}
      \/ /\ capacity > w.cb.capacity.edges /\ capacity <= MaxCapacity /\ w.cb.watermark.edges <= capacity
         /\ r \in Then(ResizeWeights(w, capacity), LAMBDA u : ResizePool(u, "edges", capacity))
      \/ /\ capacity < w.cb.capacity.edges /\ capacity <= MaxCapacity /\ w.cb.watermark.edges <= capacity
         /\ r \in Then(ResizePool(w, "edges", capacity), LAMBDA u : ResizeWeights(u, capacity))
  <2> DEFINE up == Then(ResizeWeights(w, capacity), LAMBDA u : ResizePool(u, "edges", capacity))
             down == Then(ResizePool(w, "edges", capacity), LAMBDA u : ResizeWeights(u, capacity))
  <2>1. SetEdgeCapacity(w, capacity) =
          IF capacity = w.cb.capacity.edges THEN ResizeWeights(w, capacity)
          ELSE IF capacity > MaxCapacity THEN {Ends(w, "OVERFLOW")}
          ELSE IF capacity < w.cb.watermark.edges THEN {Ends(w, "INVALID")}
          ELSE IF capacity > w.cb.capacity.edges THEN up ELSE down
    BY Zenon DEF SetEdgeCapacity
  <2> HIDE DEF up, down
  <2>2. \/ capacity = w.cb.capacity.edges /\ r \in ResizeWeights(w, capacity)
        \/ capacity # w.cb.capacity.edges /\ r \in {Ends(w, "OVERFLOW"), Ends(w, "INVALID")}
        \/ capacity > w.cb.capacity.edges /\ capacity <= MaxCapacity /\ w.cb.watermark.edges <= capacity /\ r \in up
        \/ capacity < w.cb.capacity.edges /\ capacity <= MaxCapacity /\ w.cb.watermark.edges <= capacity /\ r \in down
    BY <1>1, <2>1
  <2> QED
    BY <2>2, Zenon DEF up, down
<1>7. r \in Then(ResizeWeights(w, capacity), LAMBDA u : ResizePool(u, "edges", capacity)) =>
        \E q \in ResizeWeights(w, capacity) :
          IF q.status = "OK" THEN r \in ResizePool(q.w, "edges", capacity) ELSE r = q
  BY Zenon DEF Then
<1>8. r \in Then(ResizePool(w, "edges", capacity), LAMBDA u : ResizeWeights(u, capacity)) =>
        \E q \in ResizePool(w, "edges", capacity) :
          IF q.status = "OK" THEN r \in ResizeWeights(q.w, capacity) ELSE r = q
  BY Zenon DEF Then
<1> QED
  BY <1>2, <1>3, <1>4, <1>5, <1>6, <1>7, <1>8, Zenon

LEMMA CapacityFacts ==
  ASSUME NEW w, Sound(w), NEW p \in Pools, NEW capacity \in Nat, NEW r \in SetCapacity(w, p, capacity)
  PROVE  CapacityDone(w, p, capacity, r)
  BY VertexCapacityFacts, EdgeCapacityFacts, PoolNames DEF SetCapacity
(***************************************************************************)
(* Scratch.                                                                *)
(***************************************************************************)
(* The counters of w, but `work' and `visited' for those of the scratch. *)
Counting(w, work, visited) == [w.cb EXCEPT !.work_capacity = work, !.visited_words = visited]

Rescratched(w, u, work, visited) ==
  Sound(u) /\ SameButMemory(w, u) /\ u.cb = Counting(w, work, visited)

LEMMA CountingFacts ==
  ASSUME NEW w, Sound(w), NEW work \in Nat, NEW visited \in Nat, NEW u, u.cb = Counting(w, work, visited)
  PROVE  /\ u.cb \in ControlBlocks /\ u.cb.work_capacity = work /\ u.cb.visited_words = visited
         /\ u.cb.capacity = w.cb.capacity /\ u.cb.weight_capacity = w.cb.weight_capacity
         /\ u.cb.count = w.cb.count /\ u.cb.free = w.cb.free /\ u.cb.watermark = w.cb.watermark
         /\ u.cb.initial = w.cb.initial /\ u.cb.max = w.cb.max /\ u.cb.allocator = w.cb.allocator
         /\ u.cb.directed = w.cb.directed /\ u.cb.weighted = w.cb.weighted /\ u.cb.growable = w.cb.growable
         /\ u.cb.reject_parallel_edges = w.cb.reject_parallel_edges
         /\ u.cb.reject_self_loops = w.cb.reject_self_loops
         /\ u.cb.in_update = w.cb.in_update /\ u.cb.update_dirty = w.cb.update_dirty
<1>1. w.cb \in ControlBlocks
  BY WorldFacts DEF Sound
<1> QED
  BY <1>1, ZenonT(30) DEF Counting, ControlBlocks

(* The counters follow the blocks. *)
Resettled(w, u, work, visited) ==
  /\ u \in Worlds /\ u.cb = w.cb /\ SameButMemory(w, u) /\ u.contract /\ Balanced(u)
  /\ \A c \in Pools \cup {"weights"} : u.bytes[c] = w.bytes[c]
  /\ u.bytes.work = work * 8 /\ u.bytes.visited = visited * 8

LEMMA ScratchSet ==
  ASSUME NEW w, Sound(w), NEW u, NEW work \in Nat, NEW visited \in Nat, Resettled(w, u, work, visited),
         NEW v, v = [u EXCEPT !.cb = Counting(w, work, visited)]
  PROVE  Rescratched(w, v, work, visited)
<1>1. u \in Worlds /\ u.cb = w.cb /\ SameButMemory(w, u) /\ u.contract /\ Balanced(u)
  BY DEF Resettled
<1>2. Counting(w, work, visited) \in ControlBlocks
  <2>1. w.cb \in ControlBlocks
    BY WorldFacts DEF Sound
  <2> QED
    BY <2>1 DEF Counting, ControlBlocks
<1>3. v \in Worlds /\ v.cb = Counting(w, work, visited)
      /\ v.vertices = u.vertices /\ v.edges = u.edges /\ v.weights = u.weights
      /\ v.steps = u.steps /\ v.touched = u.touched /\ v.contract = u.contract
      /\ v.bytes = u.bytes /\ v.outstanding = u.outstanding
  BY <1>1, <1>2 DEF Worlds
<1>4. /\ v.cb.work_capacity = work /\ v.cb.visited_words = visited
      /\ v.cb.capacity = w.cb.capacity /\ v.cb.weight_capacity = w.cb.weight_capacity
      /\ v.cb.count = w.cb.count /\ v.cb.free = w.cb.free /\ v.cb.watermark = w.cb.watermark
      /\ v.cb.initial = w.cb.initial /\ v.cb.max = w.cb.max /\ v.cb.allocator = w.cb.allocator
      /\ v.cb.directed = w.cb.directed /\ v.cb.weighted = w.cb.weighted /\ v.cb.growable = w.cb.growable
      /\ v.cb.reject_parallel_edges = w.cb.reject_parallel_edges
      /\ v.cb.reject_self_loops = w.cb.reject_self_loops
      /\ v.cb.in_update = w.cb.in_update /\ v.cb.update_dirty = w.cb.update_dirty
  <2>1. Sound(w) /\ work \in Nat /\ visited \in Nat /\ v.cb = Counting(w, work, visited)
    BY <1>3
  <2> QED
    BY ONLY <2>1, CountingFacts
<1>5. SameButMemory(w, v)
  BY <1>1, <1>3, <1>4 DEF SameButMemory
<1>7. ASSUME NEW c \in Pools PROVE v[c] = w[c] /\ v.bytes[c] = w.bytes[c]
  <2>1. v[c] = w[c]
    BY <1>5, PoolNames DEF SameButMemory
  <2> QED
    BY <1>3, <2>1 DEF Resettled
<1>8. /\ v.bytes.weights = w.bytes.weights /\ v.bytes.work = work * 8 /\ v.bytes.visited = visited * 8
  BY <1>3 DEF Resettled
<1>9. v.contract /\ Balanced(v)
  BY <1>1, <1>3 DEF Balanced
<1>10. v.edges = w.edges /\ v.weights = w.weights
  BY <1>5 DEF SameButMemory
<1>11. Sound(v)
  <2> HIDE DEF Counting
  <2>1. \A c \in Pools : /\ DOMAIN v[c] = 0 .. v.cb.watermark[c] - 1
                         /\ v.cb.watermark[c] <= v.cb.capacity[c]
                         /\ v.cb.capacity[c] <= MaxCapacity
                         /\ BytesFit(v.cb.capacity[c], 32)
                         /\ v.bytes[c] = v.cb.capacity[c] * 32
    BY <1>4, <1>7 DEF Sound
  <2>2. /\ BytesFit(v.cb.weight_capacity, 8)
        /\ v.bytes.weights = v.cb.weight_capacity * 8
        /\ v.bytes.work = v.cb.work_capacity * 8
        /\ v.bytes.visited = v.cb.visited_words * 8
    BY <1>4, <1>8 DEF Sound
  <2>3. /\ IF v.cb.weighted THEN v.cb.weight_capacity >= v.cb.capacity.edges ELSE v.cb.weight_capacity = 0
        /\ DOMAIN v.weights \subseteq 0 .. v.cb.watermark.edges - 1
        /\ v.cb.weighted => \A e \in DOMAIN v.edges : v.edges[e].active => e \in DOMAIN v.weights
        /\ v.cb.allocator.alloc /\ v.cb.allocator.free
    BY <1>4, <1>10 DEF Sound
  <2> QED
    BY <1>3, <1>9, <2>1, <2>2, <2>3 DEF Sound
<1> QED
  BY <1>3, <1>5, <1>11 DEF Rescratched

LEMMA ScratchMoved ==
  ASSUME NEW w, Sound(w), NEW b \in {"work", "visited"}, NEW n \in Nat,
         NEW u, BlockEnds(w, b, n * 8, u, "OK"), NEW work \in Nat, NEW visited \in Nat,
         work = (IF b = "work" THEN n ELSE w.cb.work_capacity),
         visited = (IF b = "visited" THEN n ELSE w.cb.visited_words),
         NEW v, v = [u EXCEPT !.cb = Counting(w, work, visited)]
  PROVE  Rescratched(w, v, work, visited)
<1>1. u \in Worlds /\ u.cb = w.cb /\ SameButMemory(w, u) /\ u.contract /\ Balanced(u)
      /\ u.bytes = [w.bytes EXCEPT ![b] = n * 8]
  BY DEF BlockEnds
<1>2. \A c \in Blocks : u.bytes[c] = IF c = b THEN n * 8 ELSE w.bytes[c]
  BY <1>1, WorldFacts DEF Sound
<1>3. \A c \in Pools \cup {"weights"} : u.bytes[c] = w.bytes[c]
  BY <1>2 DEF Blocks, Pools
<1>4. u.bytes.work = work * 8 /\ u.bytes.visited = visited * 8
  <2>1. "work" \in Blocks /\ "visited" \in Blocks
    BY DEF Blocks
  <2>2. w.bytes.work = w.cb.work_capacity * 8 /\ w.bytes.visited = w.cb.visited_words * 8
    BY DEF Sound
  <2> QED
    BY <1>2, <2>1, <2>2
<1>5. Resettled(w, u, work, visited)
  BY <1>1, <1>3, <1>4 DEF Resettled
<1> QED
  BY <1>5, ScratchSet

LEMMA ScratchFacts ==
  ASSUME NEW w, Sound(w)
  PROVE  /\ w \in Worlds /\ Balanced(w) /\ w.contract /\ w.cb.allocator.alloc /\ w.cb.allocator.free
         /\ w.cb.work_capacity \in Nat /\ w.cb.visited_words \in Nat
         /\ SlotSize("work") = 8 /\ SlotSize("visited") = 8 /\ "work" \in Blocks /\ "visited" \in Blocks
         /\ w.bytes["work"] = w.cb.work_capacity * 8 /\ w.bytes["visited"] = w.cb.visited_words * 8
         /\ Below(w, "work", 0) /\ Below(w, "visited", 0)
<1>1. w.cb \in ControlBlocks
  BY WorldFacts DEF Sound
<1> QED
  BY <1>1, CbFacts DEF Sound, Blocks, Pools, SlotSize, Below

(* The outcomes of sizing one block of the scratch to n. *)
ScratchEnds(w, u, status, work, visited) ==
  /\ status \in {"OK", "NOMEM"}
  /\ IF status = "OK" THEN Rescratched(w, u, work, visited)
     ELSE Rescratched(w, u, w.cb.work_capacity, w.cb.visited_words)

LEMMA RescratchedSame ==
  ASSUME NEW w, Sound(w), NEW u, u \in Worlds, u.cb = w.cb, SameButMemory(w, u), u.contract, Balanced(u),
         u.bytes = w.bytes
  PROVE  Rescratched(w, u, w.cb.work_capacity, w.cb.visited_words)
<1>1. w.cb \in ControlBlocks
  BY WorldFacts DEF Sound
<1>2. w.cb = Counting(w, w.cb.work_capacity, w.cb.visited_words)
  BY <1>1, ZenonT(30) DEF Counting, ControlBlocks
<1> QED
  BY <1>2, SoundSame DEF Rescratched

LEMMA WorkFacts ==
  ASSUME NEW w, Sound(w), NEW n \in Nat, NEW r \in EnsureWork(w, n)
  PROVE  /\ ScratchEnds(w, r.w, r.status, IF w.cb.work_capacity >= n THEN w.cb.work_capacity ELSE n,
                        w.cb.visited_words)
         /\ w.cb.work_capacity >= n => r = Ends(w, "OK")
<1>0. /\ w \in Worlds /\ Balanced(w) /\ w.contract /\ w.cb.allocator.alloc /\ w.cb.allocator.free
      /\ w.cb.work_capacity \in Nat /\ w.cb.visited_words \in Nat
      /\ SlotSize("work") = 8 /\ "work" \in Blocks
      /\ w.bytes["work"] = w.cb.work_capacity * 8 /\ Below(w, "work", 0)
  BY ScratchFacts
<1>1. CASE w.cb.work_capacity >= n
  <2>1. r = Ends(w, "OK") /\ r.w = w /\ r.status = "OK"
    <3>1. r = Ends(w, "OK")
      BY <1>1 DEF EnsureWork
    <3> QED
      BY <3>1 DEF Ends
  <2>2. SameButMemory(w, w)
    BY DEF SameButMemory
  <2>3. Rescratched(w, w, w.cb.work_capacity, w.cb.visited_words)
    BY <1>0, <2>2, RescratchedSame
  <2> QED
    BY <1>1, <2>1, <2>3 DEF ScratchEnds
<1>2. CASE ~(w.cb.work_capacity >= n)
  <2>1. PICK q \in ResizeBlock(w, "work", w.cb.work_capacity * 8, n * 8, 0) :
          IF q.status = "OK" THEN r = Ends([q.w EXCEPT !.cb.work_capacity = n], "OK") ELSE r = q
    BY <1>2, Zenon DEF EnsureWork, Then
  <2>2. BlockEnds(w, "work", n * 8, q.w, q.status)
    <3>1. q \in ResizeBlock(w, "work", w.cb.work_capacity * SlotSize("work"), n * SlotSize("work"), 0 * SlotSize("work"))
      BY <1>0, <2>1
    <3> QED
      BY <1>0, <1>2, <3>1, BlockFacts
  <2>3. CASE q.status # "OK"
    <3>1. r = q /\ q.w.bytes = w.bytes /\ q.status = "NOMEM"
      BY <2>1, <2>2, <2>3 DEF BlockEnds
    <3>2. Rescratched(w, q.w, w.cb.work_capacity, w.cb.visited_words)
      BY <2>2, <3>1, RescratchedSame DEF BlockEnds
    <3> QED
      BY <1>2, <3>1, <3>2 DEF ScratchEnds
  <2>4. CASE q.status = "OK"
    <3> DEFINE u == q.w
               v == [u EXCEPT !.cb.work_capacity = n]
    <3>1. r.w = v /\ r.status = "OK"
      BY <2>1, <2>4 DEF Ends
    <3>2. u \in Worlds /\ u.cb = w.cb
      BY <2>2 DEF BlockEnds
    <3> HIDE DEF u
    <3>3. v = [u EXCEPT !.cb = Counting(w, n, w.cb.visited_words)]
      <4>1. [w.cb EXCEPT !.work_capacity = n] = Counting(w, n, w.cb.visited_words)
        BY <1>0, WorldFacts DEF Counting, ControlBlocks
      <4> QED
        BY <3>2, <4>1
    <3> HIDE DEF v
    <3>4. BlockEnds(w, "work", n * 8, u, "OK")
      BY <2>2, <2>4 DEF u
    <3>5. Rescratched(w, v, n, w.cb.visited_words)
      BY <1>0, <3>3, <3>4, ScratchMoved
    <3> QED
      BY <1>2, <3>1, <3>5 DEF ScratchEnds
  <2> QED
    BY <2>3, <2>4
<1> QED
  BY <1>1, <1>2

LEMMA VisitedFacts ==
  ASSUME NEW w, Sound(w), NEW n \in Nat, NEW r \in EnsureVisited(w, n)
  PROVE  /\ ScratchEnds(w, r.w, r.status, w.cb.work_capacity,
                        IF w.cb.visited_words >= n THEN w.cb.visited_words ELSE n)
         /\ w.cb.visited_words >= n => r = Ends(w, "OK")
<1>0. /\ w \in Worlds /\ Balanced(w) /\ w.contract /\ w.cb.allocator.alloc /\ w.cb.allocator.free
      /\ w.cb.work_capacity \in Nat /\ w.cb.visited_words \in Nat
      /\ SlotSize("visited") = 8 /\ "visited" \in Blocks
      /\ w.bytes["visited"] = w.cb.visited_words * 8 /\ Below(w, "visited", 0)
  BY ScratchFacts
<1>1. CASE w.cb.visited_words >= n
  <2>1. r = Ends(w, "OK") /\ r.w = w /\ r.status = "OK"
    <3>1. r = Ends(w, "OK")
      BY <1>1 DEF EnsureVisited
    <3> QED
      BY <3>1 DEF Ends
  <2>2. SameButMemory(w, w)
    BY DEF SameButMemory
  <2>3. Rescratched(w, w, w.cb.work_capacity, w.cb.visited_words)
    BY <1>0, <2>2, RescratchedSame
  <2> QED
    BY <1>1, <2>1, <2>3 DEF ScratchEnds
<1>2. CASE ~(w.cb.visited_words >= n)
  <2>1. PICK q \in ResizeBlock(w, "visited", w.cb.visited_words * 8, n * 8, 0) :
          IF q.status = "OK" THEN r = Ends([q.w EXCEPT !.cb.visited_words = n], "OK") ELSE r = q
    BY <1>2, Zenon DEF EnsureVisited, Then
  <2>2. BlockEnds(w, "visited", n * 8, q.w, q.status)
    <3>1. q \in ResizeBlock(w, "visited", w.cb.visited_words * SlotSize("visited"), n * SlotSize("visited"),
                            0 * SlotSize("visited"))
      BY <1>0, <2>1
    <3> QED
      BY <1>0, <1>2, <3>1, BlockFacts
  <2>3. CASE q.status # "OK"
    <3>1. r = q /\ q.w.bytes = w.bytes /\ q.status = "NOMEM"
      BY <2>1, <2>2, <2>3 DEF BlockEnds
    <3>2. Rescratched(w, q.w, w.cb.work_capacity, w.cb.visited_words)
      BY <2>2, <3>1, RescratchedSame DEF BlockEnds
    <3> QED
      BY <1>2, <3>1, <3>2 DEF ScratchEnds
  <2>4. CASE q.status = "OK"
    <3> DEFINE u == q.w
               v == [u EXCEPT !.cb.visited_words = n]
    <3>1. r.w = v /\ r.status = "OK"
      BY <2>1, <2>4 DEF Ends
    <3>2. u \in Worlds /\ u.cb = w.cb
      BY <2>2 DEF BlockEnds
    <3> HIDE DEF u
    <3>3. v = [u EXCEPT !.cb = Counting(w, w.cb.work_capacity, n)]
      <4>1. [w.cb EXCEPT !.visited_words = n] = Counting(w, w.cb.work_capacity, n)
        BY <1>0, WorldFacts DEF Counting, ControlBlocks
      <4> QED
        BY <3>2, <4>1
    <3> HIDE DEF v
    <3>4. BlockEnds(w, "visited", n * 8, u, "OK")
      BY <2>2, <2>4 DEF u
    <3>5. Rescratched(w, v, w.cb.work_capacity, n)
      BY <1>0, <3>3, <3>4, ScratchMoved
    <3> QED
      BY <1>2, <3>1, <3>5 DEF ScratchEnds
  <2> QED
    BY <2>3, <2>4
<1> QED
  BY <1>1, <1>2
LEMMA WordsFacts ==
  ASSUME NEW n \in Nat
  PROVE  Words(n) \in Nat /\ Words(n) * WordBits >= n
<1> DEFINE m == n + WordBits - 1
<1>1. WordBits \in Nat \ {0} /\ m \in Nat /\ m \in Int
  BY PoolAssumption
<1> HIDE DEF m
<1>2. m \div WordBits \in Int /\ m = WordBits * (m \div WordBits) + (m % WordBits) /\ m % WordBits \in 0 .. WordBits - 1
  BY ONLY <1>1, DivMod
<1>3. \A d \in Int : WordBits * d = d * WordBits
  BY <1>1
<1>4. (m \div WordBits) * WordBits >= n
  BY <1>1, <1>2, <1>3 DEF m
<1>5. \A d \in Int : d < 0 => d * WordBits <= 0 - WordBits
  BY <1>1
<1>6. m \div WordBits \in Nat
  BY <1>1, <1>2, <1>4, <1>5
<1> QED
  BY <1>4, <1>6 DEF Words, m

(* Scratch for every slot of the vertex pool. *)
Roomy(w) == \/ w.cb.capacity.vertices = 0
            \/ /\ w.cb.work_capacity >= w.cb.capacity.vertices
               /\ w.cb.visited_words >= Words(w.cb.capacity.vertices)

ScratchDone(w, u) ==
  /\ Sound(u) /\ SameButMemory(w, u)
  /\ u.cb.capacity = w.cb.capacity /\ u.cb.weight_capacity = w.cb.weight_capacity

LEMMA RescratchedFacts ==
  ASSUME NEW w, Sound(w), NEW work \in Nat, NEW visited \in Nat, NEW u, Rescratched(w, u, work, visited)
  PROVE  ScratchDone(w, u) /\ u.cb.work_capacity = work /\ u.cb.visited_words = visited
<1>1. Sound(u) /\ SameButMemory(w, u) /\ u.cb = Counting(w, work, visited)
  BY DEF Rescratched
<1> QED
  BY <1>1, CountingFacts DEF ScratchDone

LEMMA EndsFacts ==
  ASSUME NEW w, Sound(w), NEW u, NEW status, NEW work \in Nat, NEW visited \in Nat,
         ScratchEnds(w, u, status, work, visited)
  PROVE  /\ ScratchDone(w, u)
         /\ status = "OK" => u.cb.work_capacity = work /\ u.cb.visited_words = visited
<1>1. w.cb.work_capacity \in Nat /\ w.cb.visited_words \in Nat
  BY ScratchFacts
<1> QED
  BY <1>1, RescratchedFacts DEF ScratchEnds

LEMMA EnsureFacts ==
  ASSUME NEW w, Sound(w), NEW r \in EnsureScratch(w)
  PROVE  /\ ScratchDone(w, r.w)
         /\ r.status = "OK" => Roomy(r.w)
         /\ Roomy(w) => r = Ends(w, "OK")
<1> DEFINE capacity == w.cb.capacity.vertices
           words == Words(capacity)
<1>0. capacity \in Nat /\ words \in Nat
  BY SoundPools, PoolNames, WordsFacts
<1>a. ScratchDone(w, w)
  BY DEF ScratchDone, SameButMemory
<1>1. CASE Roomy(w)
  <2>1. r = Ends(w, "OK")
    BY <1>1 DEF EnsureScratch, Roomy
  <2>2. r.w = w
    BY <2>1 DEF Ends
  <2> QED
    BY <1>a, <1>1, <2>1, <2>2
<1>2. CASE r = Ends(w, "OVERFLOW") /\ ~Roomy(w)
  <2>1. r.w = w /\ r.status # "OK"
    BY <1>2 DEF Ends
  <2> QED
    BY <1>a, <1>2, <2>1
<1>3. ASSUME ~Roomy(w), NEW q \in EnsureWork(w, capacity),
             IF q.status = "OK" THEN r \in EnsureVisited(q.w, words) ELSE r = q
      PROVE  ScratchDone(w, r.w) /\ (r.status = "OK" => Roomy(r.w))
  <2> DEFINE work == IF w.cb.work_capacity >= capacity THEN w.cb.work_capacity ELSE capacity
  <2>1. work \in Nat /\ work >= capacity /\ w.cb.visited_words \in Nat
    BY <1>0, ScratchFacts
  <2>2. ScratchEnds(w, q.w, q.status, work, w.cb.visited_words)
    BY <1>0, <1>3, WorkFacts
  <2> HIDE DEF work
  <2>3. ScratchDone(w, q.w) /\ (q.status = "OK" => q.w.cb.work_capacity = work)
    BY <2>1, <2>2, EndsFacts
  <2>4. CASE q.status # "OK"
    BY <1>3, <2>3, <2>4
  <2>5. CASE q.status = "OK"
    <3> DEFINE u == q.w
               visited == IF u.cb.visited_words >= words THEN u.cb.visited_words ELSE words
    <3>1. Sound(u) /\ SameButMemory(w, u) /\ u.cb.capacity = w.cb.capacity
          /\ u.cb.weight_capacity = w.cb.weight_capacity /\ u.cb.work_capacity = work
          /\ r \in EnsureVisited(u, words)
      BY <1>3, <2>3, <2>5 DEF ScratchDone
    <3> HIDE DEF u
    <3>2. ScratchEnds(u, r.w, r.status, u.cb.work_capacity, visited)
      BY <1>0, <3>1, VisitedFacts
    <3>3. visited \in Nat /\ visited >= words /\ u.cb.work_capacity \in Nat
      BY <1>0, <3>1, ScratchFacts
    <3> HIDE DEF visited
    <3>4. ScratchDone(u, r.w) /\ (r.status = "OK" => r.w.cb.work_capacity = u.cb.work_capacity
                                                     /\ r.w.cb.visited_words = visited)
      BY <3>1, <3>2, <3>3, EndsFacts
    <3>5. Sound(r.w) /\ SameButMemory(u, r.w) /\ r.w.cb.capacity = w.cb.capacity
          /\ r.w.cb.weight_capacity = w.cb.weight_capacity
      BY <3>1, <3>4 DEF ScratchDone
    <3>6. SameButMemory(w, r.w)
      BY <3>1, <3>5, SameTransitive
    <3>7. ScratchDone(w, r.w)
      BY <3>5, <3>6 DEF ScratchDone
    <3>8. r.status = "OK" => Roomy(r.w)
      BY <2>1, <3>1, <3>3, <3>4, <3>5 DEF Roomy
    <3> QED
      BY <3>7, <3>8
  <2> QED
    BY <2>4, <2>5
<1>4. Roomy(w) \/ r = Ends(w, "OVERFLOW")
      \/ \E q \in EnsureWork(w, capacity) : IF q.status = "OK" THEN r \in EnsureVisited(q.w, words) ELSE r = q
  BY Zenon DEF EnsureScratch, Then, Roomy
<1> QED
  BY <1>1, <1>2, <1>3, <1>4, Zenon
(* Block b goes back, if it is there. *)
GoneBlock(w, b, u) ==
  /\ u \in Worlds /\ u.cb = w.cb /\ SameButMemory(w, u) /\ u.contract /\ Balanced(u)
  /\ u.bytes = [w.bytes EXCEPT ![b] = 0]

LEMMA GoneFacts ==
  ASSUME NEW w \in Worlds, Balanced(w), w.contract, w.cb.allocator.free, NEW b \in Blocks,
         NEW u, u = IF w.bytes[b] # 0 THEN Release(w, b, w.bytes[b]) ELSE w
  PROVE  GoneBlock(w, b, u)
<1>1. CASE w.bytes[b] # 0
  <2>1. BlockEnds(w, b, 0, u, "OK")
    BY <1>1, ReleaseFacts
  <2> QED
    BY <2>1 DEF BlockEnds, GoneBlock
<1>2. CASE w.bytes[b] = 0
  <2>1. w.bytes = [w.bytes EXCEPT ![b] = 0] /\ SameButMemory(w, w)
    BY <1>2, WorldFacts DEF SameButMemory
  <2> QED
    BY <1>2, <2>1 DEF GoneBlock
<1> QED
  BY <1>1, <1>2

(* Both blocks of the scratch go back. *)
Unscratched(w, v) ==
  /\ v \in Worlds /\ v.cb = w.cb /\ SameButMemory(w, v) /\ v.contract /\ Balanced(v)
  /\ v.bytes = [w.bytes EXCEPT !.work = 0, !.visited = 0]

LEMMA FreedScratch ==
  ASSUME NEW w \in Worlds, Balanced(w), w.contract, w.cb.allocator.free,
         w.bytes.work = w.cb.work_capacity * 8, w.bytes.visited = w.cb.visited_words * 8
  PROVE  \E v : Unscratched(w, v) /\ FreeScratch(w) = [v EXCEPT !.cb = Counting(w, 0, 0)]
<1> DEFINE u == IF w.bytes.work # 0 THEN Release(w, "work", w.cb.work_capacity * 8) ELSE w
           v == IF u.bytes.visited # 0 THEN Release(u, "visited", w.cb.visited_words * 8) ELSE u
<1>0. "work" \in Blocks /\ "visited" \in Blocks
  BY DEF Blocks
<1>1. FreeScratch(w) = [v EXCEPT !.cb.work_capacity = 0, !.cb.visited_words = 0]
  BY DEF FreeScratch
<1>2. GoneBlock(w, "work", u)
  BY <1>0, GoneFacts
<1>3. u \in Worlds /\ u.cb = w.cb /\ SameButMemory(w, u) /\ u.contract /\ Balanced(u)
      /\ u.bytes = [w.bytes EXCEPT !["work"] = 0]
  BY <1>2 DEF GoneBlock
<1> HIDE DEF u
<1>4. u.bytes.visited = w.cb.visited_words * 8
  BY <1>0, <1>3, WorldFacts
<1>5. GoneBlock(u, "visited", v)
  BY <1>0, <1>3, <1>4, GoneFacts
<1>6. v \in Worlds /\ v.cb = u.cb /\ SameButMemory(u, v) /\ v.contract /\ Balanced(v)
      /\ v.bytes = [u.bytes EXCEPT !["visited"] = 0]
  BY <1>5 DEF GoneBlock
<1> HIDE DEF v
<1>7. Unscratched(w, v)
  <2>1. SameButMemory(w, v)
    BY <1>3, <1>6, SameTransitive
  <2> QED
    BY <1>3, <1>6, <2>1 DEF Unscratched
<1>8. [v EXCEPT !.cb.work_capacity = 0, !.cb.visited_words = 0] = [v EXCEPT !.cb = Counting(w, 0, 0)]
  <2>1. v.cb = w.cb /\ v.cb \in ControlBlocks
    BY <1>3, <1>6, WorldFacts
  <2> QED
    BY <1>6, <2>1 DEF Counting, Worlds, ControlBlocks
<1> QED
  BY <1>1, <1>7, <1>8

LEMMA FreeScratchFacts ==
  ASSUME NEW w, Sound(w)
  PROVE  ScratchDone(w, FreeScratch(w))
<1>1. w \in Worlds /\ Balanced(w) /\ w.contract /\ w.cb.allocator.free
      /\ w.bytes.work = w.cb.work_capacity * 8 /\ w.bytes.visited = w.cb.visited_words * 8
  BY DEF Sound
<1>2. PICK v : Unscratched(w, v) /\ FreeScratch(w) = [v EXCEPT !.cb = Counting(w, 0, 0)]
  BY <1>1, FreedScratch
<1>3. Resettled(w, v, 0, 0)
  <2>1. v.bytes = [w.bytes EXCEPT !.work = 0, !.visited = 0] /\ w.bytes \in [Blocks -> Int]
    BY <1>1, <1>2, WorldFacts DEF Unscratched
  <2>2. \A c \in Pools \cup {"weights"} : v.bytes[c] = w.bytes[c]
    BY <2>1 DEF Blocks, Pools
  <2>3. v.bytes.work = 0 * 8 /\ v.bytes.visited = 0 * 8
    BY <2>1 DEF Blocks
  <2> QED
    BY <1>2, <2>2, <2>3 DEF Unscratched, Resettled
<1>4. Rescratched(w, FreeScratch(w), 0, 0)
  BY <1>2, <1>3, ScratchSet
<1> QED
  BY <1>4, RescratchedFacts
(***************************************************************************)
(* Destruction.                                                            *)
(***************************************************************************)
(* A graph that is not set up: nothing handed out. *)
Blank(w) ==
  /\ w.cb = Zeroed /\ w.vertices = Empty /\ w.edges = Empty /\ w.weights = Empty
  /\ w.contract /\ w.outstanding = 0 /\ w.bytes = [b \in Blocks |-> 0]

LEMMA GoneBack ==
  ASSUME NEW w \in Worlds, Balanced(w), w.contract, w.cb.allocator.free, NEW b \in Blocks, NEW n \in Nat,
         BytesFit(n, SlotSize(b)), w.bytes[b] = n * SlotSize(b), NEW u,
         u = IF w.bytes[b] # 0 /\ BytesFit(n, SlotSize(b)) THEN Release(w, b, n * SlotSize(b)) ELSE w
  PROVE  GoneBlock(w, b, u)
<1>1. u = IF w.bytes[b] # 0 THEN Release(w, b, w.bytes[b]) ELSE w
  OBVIOUS
<1> QED
  BY <1>1, GoneFacts

LEMMA DestroyedFacts ==
  ASSUME NEW w, Sound(w)
  PROVE  Blank(Destroyed(w))
<1> DEFINE back(u, b, n) == IF u.bytes[b] # 0 /\ BytesFit(n, SlotSize(b)) THEN Release(u, b, n * SlotSize(b)) ELSE u
           one == back(w, "vertices", w.cb.capacity.vertices)
           two == back(one, "edges", w.cb.capacity.edges)
           three == back(two, "weights", w.cb.weight_capacity)
           four == FreeScratch(three)
           gone == [four EXCEPT !.cb = Zeroed, !.vertices = Empty, !.edges = Empty, !.weights = Empty]
<1>1. Destroyed(w) = gone
  <2>1. w.cb.allocator.free = TRUE
    BY WorldFacts DEF Sound, ControlBlocks
  <2> QED
    BY <2>1 DEF Destroyed
<1>2. /\ w \in Worlds /\ Balanced(w) /\ w.contract /\ w.cb.allocator.free
      /\ \A p \in Pools : /\ w.cb.capacity[p] \in Nat /\ BytesFit(w.cb.capacity[p], SlotSize(p))
                          /\ w.bytes[p] = w.cb.capacity[p] * SlotSize(p)
      /\ w.cb.weight_capacity \in Nat /\ BytesFit(w.cb.weight_capacity, SlotSize("weights"))
      /\ w.bytes.weights = w.cb.weight_capacity * SlotSize("weights")
      /\ w.bytes.work = w.cb.work_capacity * 8 /\ w.bytes.visited = w.cb.visited_words * 8
  <2>1. w.cb \in ControlBlocks
    BY WorldFacts DEF Sound
  <2>2. SlotSize("weights") = 8 /\ \A p \in Pools : SlotSize(p) = 32
    BY DEF SlotSize, Pools
  <2> QED
    BY <2>1, <2>2, CbFacts DEF Sound
<1>3. "vertices" \in Blocks /\ "edges" \in Blocks /\ "weights" \in Blocks /\ "work" \in Blocks /\ "visited" \in Blocks
  BY DEF Blocks, Pools
<1>4. GoneBlock(w, "vertices", one)
  BY <1>2, <1>3, PoolNames, GoneBack
<1> HIDE DEF one
<1>5. one \in Worlds /\ one.cb = w.cb /\ one.contract /\ Balanced(one) /\ one.bytes = [w.bytes EXCEPT !["vertices"] = 0]
  BY <1>4 DEF GoneBlock
<1>6. one.bytes.edges = w.bytes.edges
  BY <1>2, <1>3, <1>5, WorldFacts
<1>7. GoneBlock(one, "edges", two)
  BY <1>2, <1>3, <1>5, <1>6, PoolNames, GoneBack
<1> HIDE DEF two
<1>8. two \in Worlds /\ two.cb = w.cb /\ two.contract /\ Balanced(two)
      /\ two.bytes = [[w.bytes EXCEPT !["vertices"] = 0] EXCEPT !["edges"] = 0]
  BY <1>5, <1>7 DEF GoneBlock
<1>9. two.bytes.weights = w.bytes.weights
  BY <1>2, <1>3, <1>8, WorldFacts
<1>10. GoneBlock(two, "weights", three)
  BY <1>2, <1>3, <1>8, <1>9, GoneBack
<1> HIDE DEF three
<1>11. three \in Worlds /\ three.cb = w.cb /\ three.contract /\ Balanced(three)
       /\ three.bytes = [[[w.bytes EXCEPT !["vertices"] = 0] EXCEPT !["edges"] = 0] EXCEPT !["weights"] = 0]
  BY <1>8, <1>10 DEF GoneBlock
<1>12. three.bytes.work = w.bytes.work /\ three.bytes.visited = w.bytes.visited
  BY <1>2, <1>3, <1>11, WorldFacts
<1>13. PICK v : Unscratched(three, v) /\ four = [v EXCEPT !.cb = Counting(three, 0, 0)]
  BY <1>2, <1>11, <1>12, FreedScratch
<1> HIDE DEF four
<1>14. v \in Worlds /\ v.contract /\ Balanced(v) /\ v.bytes = [three.bytes EXCEPT !.work = 0, !.visited = 0]
  BY <1>13 DEF Unscratched
<1>15. v.bytes = [b \in Blocks |-> 0]
  <2>1. w.bytes \in [Blocks -> Int]
    BY <1>2, WorldFacts
  <2> QED
    BY <1>11, <1>14, <2>1 DEF Blocks, Pools
<1>16. v.outstanding = 0
  <2>1. v.outstanding = Total(v.bytes)
    BY <1>14 DEF Balanced
  <2>2. v.bytes.vertices = 0 /\ v.bytes.edges = 0 /\ v.bytes.weights = 0 /\ v.bytes.work = 0 /\ v.bytes.visited = 0
    BY <1>3, <1>15
  <2> QED
    BY <2>1, <2>2 DEF Total
<1>17. /\ gone.cb = Zeroed /\ gone.vertices = Empty /\ gone.edges = Empty /\ gone.weights = Empty
       /\ gone.contract = v.contract /\ gone.outstanding = v.outstanding /\ gone.bytes = v.bytes
  BY <1>13, <1>14 DEF Worlds
<1> QED
  BY <1>1, <1>14, <1>15, <1>16, <1>17 DEF Blank
(***************************************************************************)
(* Ceilings.                                                               *)
(***************************************************************************)
Settled(cb) ==
  \A p \in Pools : /\ cb.growable /\ cb.max[p] # 0 => cb.initial[p] <= cb.max[p]
                   /\ ~cb.growable => cb.max[p] = cb.initial[p]

Capped(cb) ==
  \A p \in Pools : /\ cb.max[p] # 0 => cb.capacity[p] <= cb.max[p]
                   /\ ~cb.growable => cb.capacity[p] = cb.initial[p]

(* A fixed graph has all the memory it will ever need. *)
Furnished(w) == ~w.cb.growable => Fitted(w) /\ Roomy(w)

Kept(w) == Sound(w) /\ Settled(w.cb) /\ Capped(w.cb) /\ Furnished(w)

(* What resizes make of a graph; of a fixed one nothing. *)
Refit(w, u) == Kept(u) /\ SameButMemory(w, u) /\ (~w.cb.growable => u = w)

LEMMA KeptFacts ==
  ASSUME NEW w, Kept(w), NEW p \in Pools
  PROVE  /\ Sound(w) /\ Refit(w, w)
         /\ w.cb.capacity[p] \in Nat /\ w.cb.watermark[p] \in Nat /\ w.cb.max[p] \in Nat
         /\ w.cb.initial[p] \in Nat /\ w.cb.count[p] \in Int
         /\ w.cb.watermark[p] <= w.cb.capacity[p] /\ w.cb.capacity[p] <= MaxCapacity /\ w.cb.growable \in BOOLEAN
         /\ w.cb.max[p] # 0 => w.cb.capacity[p] <= w.cb.max[p]
         /\ w.cb.growable /\ w.cb.max[p] # 0 => w.cb.initial[p] <= w.cb.max[p]
         /\ ~w.cb.growable => w.cb.capacity[p] = w.cb.initial[p] /\ Fitted(w) /\ Roomy(w)
<1>1. w \in Worlds
  BY DEF Kept, Sound
<1>2. w.cb \in ControlBlocks
  BY <1>1, WorldFacts
<1>3. SameButMemory(w, w)
  BY DEF SameButMemory
<1> QED
  BY <1>2, <1>3, CbFacts, SoundPools DEF Kept, Refit, Settled, Capped, Furnished

LEMMA RefitOn ==
  ASSUME NEW w, NEW u, NEW v, Refit(w, u), Refit(u, v)
  PROVE  Refit(w, v)
<1>1. u.cb.growable = w.cb.growable
  BY DEF Refit, SameButMemory
<1> QED
  BY <1>1, SameTransitive DEF Refit

(* A growable graph takes any capacities below its ceilings. *)
LEMMA GrowableRefit ==
  ASSUME NEW w, Kept(w), w.cb.growable, NEW u, Sound(u), SameButMemory(w, u),
         \A p \in Pools : w.cb.max[p] # 0 => u.cb.capacity[p] <= w.cb.max[p]
  PROVE  Refit(w, u)
<1>1. u.cb.growable = TRUE /\ u.cb.max = w.cb.max /\ u.cb.initial = w.cb.initial /\ w.cb.growable = TRUE
  BY KeptFacts, PoolNames DEF SameButMemory
<1>2. Settled(u.cb) /\ Capped(u.cb) /\ Furnished(u)
  BY <1>1 DEF Kept, Settled, Capped, Furnished
<1> QED
  BY <1>1, <1>2 DEF Kept, Refit

LEMMA CapacityRefit ==
  ASSUME NEW w, Kept(w), w.cb.growable, NEW p \in Pools, NEW capacity \in Nat,
         w.cb.max[p] # 0 => capacity <= w.cb.max[p], NEW r \in SetCapacity(w, p, capacity)
  PROVE  Refit(w, r.w)
<1>1. CapacityDone(w, p, capacity, r)
  BY CapacityFacts DEF Kept
<1>2. ASSUME NEW c \in Pools, w.cb.max[c] # 0 PROVE r.w.cb.capacity[c] <= w.cb.max[c]
  BY <1>1, <1>2, KeptFacts DEF CapacityDone
<1> QED
  BY <1>1, <1>2, GrowableRefit DEF CapacityDone

LEMMA ReserveRefit ==
  ASSUME NEW w, Kept(w), NEW p \in Pools, NEW capacity \in Nat, NEW r \in ReserveIn(w, p, capacity)
  PROVE  Refit(w, r.w)
<1>1. CASE r \in {Ends(w, "OK"), Ends(w, "FULL"), Ends(w, "OVERFLOW")}
  <2>1. r.w = w
    BY <1>1 DEF Ends
  <2> QED
    BY <2>1, KeptFacts
<1>2. CASE w.cb.growable /\ (w.cb.max[p] # 0 => capacity <= w.cb.max[p]) /\ r \in SetCapacity(w, p, capacity)
  BY <1>2, CapacityRefit
<1>3. w.cb.max[p] \in Nat
  BY KeptFacts
<1> QED
  BY <1>1, <1>2, <1>3 DEF ReserveIn

LEMMA ClampFacts ==
  ASSUME NEW n \in Nat, NEW ceiling \in Nat
  PROVE  /\ ClampCapacity(n, ceiling) \in Nat
         /\ ceiling # 0 => ClampCapacity(n, ceiling) <= ceiling
  BY DEF ClampCapacity

LEMMA NextFacts ==
  ASSUME NEW n \in Nat
  PROVE  NextCapacity(n) \in Nat
  BY PoolAssumption DEF NextCapacity

(* Growth leaves room for one more slot. *)
LEMMA GrowRefit ==
  ASSUME NEW w, Kept(w), NEW p \in Pools, NEW r \in Grow(w, p)
  PROVE  Refit(w, r.w) /\ (r.status = "OK" => r.w.cb.capacity[p] > w.cb.capacity[p])
<1> DEFINE next == ClampCapacity(NextCapacity(w.cb.capacity[p]), w.cb.max[p])
<1>1. next \in Nat /\ (w.cb.max[p] # 0 => next <= w.cb.max[p])
  BY KeptFacts, NextFacts, ClampFacts
<1>2. CASE r = Ends(w, "FULL")
  <2>1. r.w = w /\ r.status # "OK"
    BY <1>2 DEF Ends
  <2> QED
    BY <2>1, KeptFacts
<1>3. CASE w.cb.growable /\ ~(next <= w.cb.capacity[p]) /\ r \in SetCapacity(w, p, next)
  <2> HIDE DEF next
  <2>1. Refit(w, r.w)
    BY <1>1, <1>3, CapacityRefit
  <2>2. CapacityDone(w, p, next, r)
    BY <1>1, <1>3, CapacityFacts DEF Kept
  <2> QED
    BY <1>1, <1>3, <2>1, <2>2, KeptFacts DEF CapacityDone
<1> QED
  BY <1>2, <1>3, Zenon DEF Grow

(* A fixed graph is only ever resized to what it has. *)
LEMMA BothRefit ==
  ASSUME NEW w, Kept(w), NEW target \in [Pools -> Nat],
         \A p \in Pools : w.cb.max[p] # 0 => target[p] <= w.cb.max[p],
         ~w.cb.growable => target = w.cb.initial, NEW r \in ResizeBoth(w, target)
  PROVE  Refit(w, r.w)
<1>1. PICK q \in SetCapacity(w, "vertices", target.vertices) : \E o \in SetCapacity(q.w, "edges", target.edges) : r.w = o.w
  <2>1. PICK q \in SetCapacity(w, "vertices", target.vertices) :
          \E o \in SetCapacity(q.w, "edges", target.edges) :
            r = [o EXCEPT !.status = IF q.status = "OK" THEN @ ELSE q.status]
    BY Zenon DEF ResizeBoth
  <2>2. PICK o \in SetCapacity(q.w, "edges", target.edges) :
          r = [o EXCEPT !.status = IF q.status = "OK" THEN @ ELSE q.status]
    BY <2>1
  <2> DEFINE status == IF q.status = "OK" THEN o.status ELSE q.status
  <2>3. r = [o EXCEPT !.status = status]
    BY <2>2
  <2> HIDE DEF status
  <2>4. r.w = o.w
    BY <2>3
  <2> QED
    BY <2>4
<1>2. PICK o \in SetCapacity(q.w, "edges", target.edges) : r.w = o.w
  BY <1>1
<1>3. target.vertices \in Nat /\ target.edges \in Nat
  BY PoolNames
<1>4. CASE w.cb.growable
  <2>1. Refit(w, q.w)
    BY <1>3, <1>4, PoolNames, CapacityRefit
  <2>2. Kept(q.w) /\ q.w.cb.growable /\ q.w.cb.max = w.cb.max
    BY <1>4, <2>1 DEF Refit, SameButMemory
  <2>3. Refit(q.w, o.w)
    BY <1>3, <2>2, PoolNames, CapacityRefit
  <2> QED
    BY <1>2, <2>1, <2>3, RefitOn
<1>5. CASE ~w.cb.growable
  <2>1. target.vertices = w.cb.capacity["vertices"] /\ target.edges = w.cb.capacity["edges"] /\ Fitted(w)
    BY <1>5, KeptFacts, PoolNames
  <2>2. q = Ends(w, "OK")
    BY <1>3, <2>1, PoolNames, CapacityFacts DEF CapacityDone, Kept
  <2>3. q.w = w
    BY <2>2 DEF Ends
  <2>4. o = Ends(w, "OK")
    BY <1>2, <1>3, <2>1, <2>3, PoolNames, CapacityFacts DEF CapacityDone, Kept
  <2>5. r.w = w
    BY <1>2, <2>4 DEF Ends
  <2> QED
    BY <2>5, KeptFacts, PoolNames
<1> QED
  BY <1>4, <1>5

LEMMA EnsureRefit ==
  ASSUME NEW w, Kept(w), NEW r \in EnsureScratch(w)
  PROVE  Refit(w, r.w)
<1>1. ScratchDone(w, r.w) /\ (Roomy(w) => r = Ends(w, "OK"))
  BY EnsureFacts DEF Kept
<1>2. CASE w.cb.growable
  <2>1. \A p \in Pools : w.cb.max[p] # 0 => r.w.cb.capacity[p] <= w.cb.max[p]
    BY <1>1 DEF Kept, Capped, ScratchDone
  <2> QED
    BY <1>1, <1>2, <2>1, GrowableRefit DEF ScratchDone
<1>3. CASE ~w.cb.growable
  <2>1. r.w = w
    BY <1>1, <1>3 DEF Kept, Furnished, Ends
  <2> QED
    BY <2>1, KeptFacts, PoolNames
<1> QED
  BY <1>2, <1>3

LEMMA FreeRefit ==
  ASSUME NEW w, Kept(w), w.cb.growable
  PROVE  Refit(w, FreeScratch(w))
<1>1. ScratchDone(w, FreeScratch(w))
  BY FreeScratchFacts DEF Kept
<1>2. \A p \in Pools : w.cb.max[p] # 0 => FreeScratch(w).cb.capacity[p] <= w.cb.max[p]
  BY <1>1 DEF Kept, Capped, ScratchDone
<1> QED
  BY <1>1, <1>2, GrowableRefit DEF ScratchDone

LEMMA BulkRefit ==
  ASSUME NEW w, Kept(w), NEW p \in Pools, 0 <= w.cb.count[p], NEW count \in Nat, NEW u \in ReserveForBulk(w, p, count)
  PROVE  Refit(w, u)
<1> DEFINE needed == w.cb.count[p] + count
           curve == NextCapacity(w.cb.capacity[p])
           clamped == ClampCapacity(IF needed > curve THEN needed ELSE curve, w.cb.max[p])
           exact == ClampCapacity(needed, w.cb.max[p])
<1>1. needed \in Nat /\ curve \in Nat /\ clamped \in Nat /\ exact \in Nat
  <2>1. w.cb.count[p] \in Int /\ w.cb.capacity[p] \in Nat /\ w.cb.max[p] \in Nat
    BY KeptFacts
  <2>2. needed \in Nat /\ curve \in Nat
    BY <2>1, NextFacts
  <2> QED
    BY <2>1, <2>2 DEF ClampCapacity
<1>2. \/ u = w
      \/ \E r \in ReserveIn(w, p, clamped) : u = r.w \/ \E q \in ReserveIn(r.w, p, exact) : u = q.w
  <2>1. \/ u = w
        \/ \E r \in ReserveIn(w, p, clamped) :
             u \in IF r.status # "OK" /\ exact < clamped THEN {q.w : q \in ReserveIn(r.w, p, exact)} ELSE {r.w}
    BY Zenon DEF ReserveForBulk
  <2> HIDE DEF clamped, exact
  <2> QED
    BY <2>1
<1> HIDE DEF clamped, exact
<1>3. CASE u = w
  BY <1>3, KeptFacts
<1>4. ASSUME NEW r \in ReserveIn(w, p, clamped) PROVE Refit(w, r.w)
  BY <1>1, ReserveRefit
<1>5. ASSUME NEW r \in ReserveIn(w, p, clamped), NEW q \in ReserveIn(r.w, p, exact) PROVE Refit(w, q.w)
  <2>1. Refit(w, r.w)
    BY <1>4
  <2>2. Refit(r.w, q.w)
    BY <1>1, <2>1, ReserveRefit DEF Refit
  <2> QED
    BY <2>1, <2>2, RefitOn
<1> QED
  BY <1>2, <1>3, <1>4, <1>5
(***************************************************************************)
(* Slots and views.                                                        *)
(***************************************************************************)
(* The incidence lists l of a state, as functions. *)
View(w, l) ==
  [ends |-> [e \in DOMAIN w.edges |-> EndOf(w.edges[e], l)],
   next |-> [e \in DOMAIN w.edges |-> w.edges[e].next[l]],
   prev |-> [e \in DOMAIN w.edges |-> w.edges[e].prev[l]],
   head |-> [v \in DOMAIN w.vertices |-> w.vertices[v].head[l]],
   tail |-> [v \in DOMAIN w.vertices |-> w.vertices[v].tail[l]],
   degree |-> [v \in DOMAIN w.vertices |-> w.vertices[v].degree[l]]]

LEMMA ViewFacts ==
  ASSUME NEW w, NEW l
  PROVE  /\ \A e \in DOMAIN w.edges : /\ View(w, l).ends[e] = EndOf(w.edges[e], l)
                                      /\ View(w, l).next[e] = w.edges[e].next[l]
                                      /\ View(w, l).prev[e] = w.edges[e].prev[l]
         /\ \A v \in DOMAIN w.vertices : /\ View(w, l).head[v] = w.vertices[v].head[l]
                                         /\ View(w, l).tail[v] = w.vertices[v].tail[l]
                                         /\ View(w, l).degree[v] = w.vertices[v].degree[l]
  BY DEF View

(* Views that agree on all lists. *)
LEMMA ThreadsSame ==
  ASSUME NEW G, NEW H, NEW V, NEW E, NEW st, Threads(G, V, E, st), Stamped(E, st),
         \A e \in E : H.ends[e] = G.ends[e] /\ H.next[e] = G.next[e] /\ H.prev[e] = G.prev[e],
         \A v \in V : H.head[v] = G.head[v] /\ H.tail[v] = G.tail[v] /\ H.degree[v] = G.degree[v]
  PROVE  Threads(H, V, E, st)
<1>1. \A e \in E : H.ends[e] \in V
  BY DEF Threads
<1>2. ASSUME NEW v \in V PROVE Threaded(H, On(H, E, v), st, v)
  <2>1. On(H, E, v) = On(G, E, v) /\ On(G, E, v) \subseteq E
    BY DEF On
  <2>2. Threaded(G, On(G, E, v), st, v) /\ Stamped(On(G, E, v), st)
    BY <2>1, StampedSubset DEF Threads
  <2> QED
    BY <2>1, <2>2, ThreadedSame
<1> QED
  BY <1>1, <1>2 DEF Threads

(* All but the slots. *)
Beside(w, u) ==
  /\ u.cb = w.cb /\ u.weights = w.weights /\ u.bytes = w.bytes /\ u.outstanding = w.outstanding
  /\ u.contract = w.contract /\ u.calls = w.calls /\ u.steps = w.steps /\ u.touched = w.touched

LEMMA BesideOn ==
  ASSUME NEW w, NEW u, NEW v, Beside(w, u), Beside(u, v)
  PROVE  Beside(w, v)
  BY DEF Beside

LEMMA PoolWrite ==
  ASSUME NEW S, NEW f \in PoolOf(S), NEW i \in DOMAIN f, NEW x \in S
  PROVE  [f EXCEPT ![i] = x] \in PoolOf(S)
  BY DEF PoolOf

(* A state with x for one of its slots. *)
EdgeAs(w, e, x) == [w EXCEPT !.edges[e] = x]
VertexAs(w, v, x) == [w EXCEPT !.vertices[v] = x]

EdgeWritten(w, u, e, x) ==
  /\ u \in Worlds /\ Beside(w, u) /\ u.vertices = w.vertices
  /\ DOMAIN u.edges = DOMAIN w.edges
  /\ \A f \in DOMAIN w.edges : u.edges[f] = IF f = e THEN x ELSE w.edges[f]

VertexWritten(w, u, v, x) ==
  /\ u \in Worlds /\ Beside(w, u) /\ u.edges = w.edges
  /\ DOMAIN u.vertices = DOMAIN w.vertices
  /\ \A f \in DOMAIN w.vertices : u.vertices[f] = IF f = v THEN x ELSE w.vertices[f]

LEMMA EdgeWrite ==
  ASSUME NEW w \in Worlds, NEW e \in DOMAIN w.edges, NEW x \in EdgeSlots, NEW u, u = EdgeAs(w, e, x)
  PROVE  EdgeWritten(w, u, e, x)
<1>1. w.edges \in PoolOf(EdgeSlots)
  BY DEF Worlds
<1>2. [w.edges EXCEPT ![e] = x] \in PoolOf(EdgeSlots)
  BY <1>1, PoolWrite
<1>3. u \in Worlds /\ Beside(w, u) /\ u.vertices = w.vertices /\ u.edges = [w.edges EXCEPT ![e] = x]
  BY <1>2 DEF Worlds, Beside, EdgeAs
<1> QED
  BY <1>3, WorldFacts DEF EdgeWritten

LEMMA VertexWrite ==
  ASSUME NEW w \in Worlds, NEW v \in DOMAIN w.vertices, NEW x \in VertexSlots, NEW u, u = VertexAs(w, v, x)
  PROVE  VertexWritten(w, u, v, x)
<1>1. w.vertices \in PoolOf(VertexSlots)
  BY DEF Worlds
<1>2. [w.vertices EXCEPT ![v] = x] \in PoolOf(VertexSlots)
  BY <1>1, PoolWrite
<1>3. u \in Worlds /\ Beside(w, u) /\ u.edges = w.edges /\ u.vertices = [w.vertices EXCEPT ![v] = x]
  BY <1>2 DEF Worlds, Beside, VertexAs
<1> QED
  BY <1>3, WorldFacts DEF VertexWritten

LEMMA SlotFacts ==
  ASSUME NEW w \in Worlds
  PROVE  /\ \A e \in DOMAIN w.edges : w.edges[e] \in EdgeSlots
         /\ \A v \in DOMAIN w.vertices : w.vertices[v] \in VertexSlots
  BY WorldFacts

(* Writes to links change nothing but links. *)
Tags(w, u) ==
  /\ u \in Worlds /\ Beside(w, u)
  /\ DOMAIN u.edges = DOMAIN w.edges /\ DOMAIN u.vertices = DOMAIN w.vertices
  /\ \A f \in DOMAIN w.edges : /\ u.edges[f].src = w.edges[f].src /\ u.edges[f].dst = w.edges[f].dst
                               /\ u.edges[f].generation = w.edges[f].generation
                               /\ u.edges[f].active = w.edges[f].active
  /\ \A x \in DOMAIN w.vertices : /\ u.vertices[x].generation = w.vertices[x].generation
                                  /\ u.vertices[x].active = w.vertices[x].active

LEMMA TagsOn ==
  ASSUME NEW w, NEW u, NEW v, Tags(w, u), Tags(u, v)
  PROVE  Tags(w, v)
<1>1. Beside(w, v)
  BY BesideOn DEF Tags
<1> QED
  BY <1>1 DEF Tags

(* The links of one kind after one of them was set, or none. *)
NextSet(w, u, e, l, i) ==
  \A f \in DOMAIN w.edges : \A k \in Lists : u.edges[f].next[k] = IF f = e /\ k = l THEN i ELSE w.edges[f].next[k]
PrevSet(w, u, e, l, i) ==
  \A f \in DOMAIN w.edges : \A k \in Lists : u.edges[f].prev[k] = IF f = e /\ k = l THEN i ELSE w.edges[f].prev[k]
HeadSet(w, u, v, l, i) ==
  \A x \in DOMAIN w.vertices : \A k \in Lists :
    u.vertices[x].head[k] = IF x = v /\ k = l THEN i ELSE w.vertices[x].head[k]
TailSet(w, u, v, l, i) ==
  \A x \in DOMAIN w.vertices : \A k \in Lists :
    u.vertices[x].tail[k] = IF x = v /\ k = l THEN i ELSE w.vertices[x].tail[k]
DegreeSet(w, u, v, l, i) ==
  \A x \in DOMAIN w.vertices : \A k \in Lists :
    u.vertices[x].degree[k] = IF x = v /\ k = l THEN i ELSE w.vertices[x].degree[k]

SameNext(w, u) == \A f \in DOMAIN w.edges : \A k \in Lists : u.edges[f].next[k] = w.edges[f].next[k]
SamePrev(w, u) == \A f \in DOMAIN w.edges : \A k \in Lists : u.edges[f].prev[k] = w.edges[f].prev[k]
SameHead(w, u) == \A x \in DOMAIN w.vertices : \A k \in Lists : u.vertices[x].head[k] = w.vertices[x].head[k]
SameTail(w, u) == \A x \in DOMAIN w.vertices : \A k \in Lists : u.vertices[x].tail[k] = w.vertices[x].tail[k]
SameDegree(w, u) == \A x \in DOMAIN w.vertices : \A k \in Lists : u.vertices[x].degree[k] = w.vertices[x].degree[k]

LEMMA SetNext ==
  ASSUME NEW w \in Worlds, NEW e \in DOMAIN w.edges, NEW l \in Lists, NEW i \in Nat,
         NEW u, u = [w EXCEPT !.edges[e].next[l] = i]
  PROVE  Tags(w, u) /\ NextSet(w, u, e, l, i) /\ SamePrev(w, u) /\ SameHead(w, u) /\ SameTail(w, u) /\ SameDegree(w, u)
<1> DEFINE x == [w.edges[e] EXCEPT !.next[l] = i]
<1>1. w.edges[e] \in EdgeSlots
  BY SlotFacts
<1>2. /\ x \in EdgeSlots /\ x.next = [w.edges[e].next EXCEPT ![l] = i] /\ x.prev = w.edges[e].prev
      /\ x.src = w.edges[e].src /\ x.dst = w.edges[e].dst /\ x.generation = w.edges[e].generation
      /\ x.active = w.edges[e].active
  BY <1>1 DEF EdgeSlots
<1>3. w.edges[e].next \in [Lists -> Nat]
  BY <1>1 DEF EdgeSlots
<1>4. u = EdgeAs(w, e, x)
  BY DEF EdgeAs
<1> HIDE DEF x
<1>5. EdgeWritten(w, u, e, x)
  BY <1>2, <1>4, EdgeWrite
<1> QED
  BY <1>2, <1>3, <1>5 DEF EdgeWritten, Tags, NextSet, SamePrev, SameHead, SameTail, SameDegree

LEMMA SetPrev ==
  ASSUME NEW w \in Worlds, NEW e \in DOMAIN w.edges, NEW l \in Lists, NEW i \in Nat,
         NEW u, u = [w EXCEPT !.edges[e].prev[l] = i]
  PROVE  Tags(w, u) /\ SameNext(w, u) /\ PrevSet(w, u, e, l, i) /\ SameHead(w, u) /\ SameTail(w, u) /\ SameDegree(w, u)
<1> DEFINE x == [w.edges[e] EXCEPT !.prev[l] = i]
<1>1. w.edges[e] \in EdgeSlots
  BY SlotFacts
<1>2. /\ x \in EdgeSlots /\ x.prev = [w.edges[e].prev EXCEPT ![l] = i] /\ x.next = w.edges[e].next
      /\ x.src = w.edges[e].src /\ x.dst = w.edges[e].dst /\ x.generation = w.edges[e].generation
      /\ x.active = w.edges[e].active
  BY <1>1 DEF EdgeSlots
<1>3. w.edges[e].prev \in [Lists -> Nat]
  BY <1>1 DEF EdgeSlots
<1>4. u = EdgeAs(w, e, x)
  BY DEF EdgeAs
<1> HIDE DEF x
<1>5. EdgeWritten(w, u, e, x)
  BY <1>2, <1>4, EdgeWrite
<1> QED
  BY <1>2, <1>3, <1>5 DEF EdgeWritten, Tags, PrevSet, SameNext, SameHead, SameTail, SameDegree

LEMMA SetHead ==
  ASSUME NEW w \in Worlds, NEW v \in DOMAIN w.vertices, NEW l \in Lists, NEW i \in Nat,
         NEW u, u = [w EXCEPT !.vertices[v].head[l] = i]
  PROVE  Tags(w, u) /\ SameNext(w, u) /\ SamePrev(w, u) /\ HeadSet(w, u, v, l, i) /\ SameTail(w, u) /\ SameDegree(w, u)
<1> DEFINE x == [w.vertices[v] EXCEPT !.head[l] = i]
<1>1. w.vertices[v] \in VertexSlots
  BY SlotFacts
<1>2. /\ x \in VertexSlots /\ x.head = [w.vertices[v].head EXCEPT ![l] = i] /\ x.tail = w.vertices[v].tail
      /\ x.degree = w.vertices[v].degree /\ x.generation = w.vertices[v].generation /\ x.active = w.vertices[v].active
  BY <1>1 DEF VertexSlots
<1>3. w.vertices[v].head \in [Lists -> Nat]
  BY <1>1 DEF VertexSlots
<1>4. u = VertexAs(w, v, x)
  BY DEF VertexAs
<1> HIDE DEF x
<1>5. VertexWritten(w, u, v, x)
  BY <1>2, <1>4, VertexWrite
<1> QED
  BY <1>2, <1>3, <1>5 DEF VertexWritten, Tags, HeadSet, SameNext, SamePrev, SameTail, SameDegree

LEMMA SetTail ==
  ASSUME NEW w \in Worlds, NEW v \in DOMAIN w.vertices, NEW l \in Lists, NEW i \in Nat,
         NEW u, u = [w EXCEPT !.vertices[v].tail[l] = i]
  PROVE  Tags(w, u) /\ SameNext(w, u) /\ SamePrev(w, u) /\ SameHead(w, u) /\ TailSet(w, u, v, l, i) /\ SameDegree(w, u)
<1> DEFINE x == [w.vertices[v] EXCEPT !.tail[l] = i]
<1>1. w.vertices[v] \in VertexSlots
  BY SlotFacts
<1>2. /\ x \in VertexSlots /\ x.tail = [w.vertices[v].tail EXCEPT ![l] = i] /\ x.head = w.vertices[v].head
      /\ x.degree = w.vertices[v].degree /\ x.generation = w.vertices[v].generation /\ x.active = w.vertices[v].active
  BY <1>1 DEF VertexSlots
<1>3. w.vertices[v].tail \in [Lists -> Nat]
  BY <1>1 DEF VertexSlots
<1>4. u = VertexAs(w, v, x)
  BY DEF VertexAs
<1> HIDE DEF x
<1>5. VertexWritten(w, u, v, x)
  BY <1>2, <1>4, VertexWrite
<1> QED
  BY <1>2, <1>3, <1>5 DEF VertexWritten, Tags, TailSet, SameNext, SamePrev, SameHead, SameDegree

LEMMA SetDegree ==
  ASSUME NEW w \in Worlds, NEW v \in DOMAIN w.vertices, NEW l \in Lists, NEW i \in Int,
         NEW u, u = [w EXCEPT !.vertices[v].degree[l] = i]
  PROVE  Tags(w, u) /\ SameNext(w, u) /\ SamePrev(w, u) /\ SameHead(w, u) /\ SameTail(w, u) /\ DegreeSet(w, u, v, l, i)
<1> DEFINE x == [w.vertices[v] EXCEPT !.degree[l] = i]
<1>1. w.vertices[v] \in VertexSlots
  BY SlotFacts
<1>2. /\ x \in VertexSlots /\ x.degree = [w.vertices[v].degree EXCEPT ![l] = i] /\ x.head = w.vertices[v].head
      /\ x.tail = w.vertices[v].tail /\ x.generation = w.vertices[v].generation /\ x.active = w.vertices[v].active
  BY <1>1 DEF VertexSlots
<1>3. w.vertices[v].degree \in [Lists -> Int]
  BY <1>1 DEF VertexSlots
<1>4. u = VertexAs(w, v, x)
  BY DEF VertexAs
<1> HIDE DEF x
<1>5. VertexWritten(w, u, v, x)
  BY <1>2, <1>4, VertexWrite
<1> QED
  BY <1>2, <1>3, <1>5 DEF VertexWritten, Tags, DegreeSet, SameNext, SamePrev, SameHead, SameTail

(* An optional write leaves the slots of the right kind. *)
LEMMA SameAll ==
  ASSUME NEW w \in Worlds
  PROVE  Tags(w, w) /\ SameNext(w, w) /\ SamePrev(w, w) /\ SameHead(w, w) /\ SameTail(w, w) /\ SameDegree(w, w)
  BY DEF Tags, Beside, SameNext, SamePrev, SameHead, SameTail, SameDegree

LEMMA LinkFacts ==
  ASSUME NEW w \in Worlds, NEW l \in Lists
  PROVE  /\ \A e \in DOMAIN w.edges : /\ w.edges[e].next[l] \in Nat /\ w.edges[e].prev[l] \in Nat
                                      /\ w.edges[e].src \in Nat /\ w.edges[e].dst \in Nat
                                      /\ w.edges[e].active \in BOOLEAN /\ w.edges[e].generation \in 1 .. GenMax
         /\ \A v \in DOMAIN w.vertices : /\ w.vertices[v].head[l] \in Nat /\ w.vertices[v].tail[l] \in Nat
                                         /\ w.vertices[v].degree[l] \in Int
                                         /\ w.vertices[v].active \in BOOLEAN
                                         /\ w.vertices[v].generation \in 1 .. GenMax
  BY SlotFacts DEF EdgeSlots, VertexSlots
(***************************************************************************)
(* Append1 and Remove1.                                                    *)
(***************************************************************************)
(* The lists other than l of two states are the same. *)
OtherLists(w, r, l) ==
  \A k \in Lists \ {l} :
    /\ \A f \in DOMAIN w.edges : /\ View(r, k).ends[f] = View(w, k).ends[f]
                                 /\ View(r, k).next[f] = View(w, k).next[f]
                                 /\ View(r, k).prev[f] = View(w, k).prev[f]
    /\ \A x \in DOMAIN w.vertices : /\ View(r, k).head[x] = View(w, k).head[x]
                                    /\ View(r, k).tail[x] = View(w, k).tail[x]
                                    /\ View(r, k).degree[x] = View(w, k).degree[x]

LEMMA OtherViews ==
  ASSUME NEW w, NEW r, NEW l, Tags(w, r),
         \A k \in Lists \ {l} :
           /\ \A f \in DOMAIN w.edges : r.edges[f].next[k] = w.edges[f].next[k] /\ r.edges[f].prev[k] = w.edges[f].prev[k]
           /\ \A x \in DOMAIN w.vertices : /\ r.vertices[x].head[k] = w.vertices[x].head[k]
                                           /\ r.vertices[x].tail[k] = w.vertices[x].tail[k]
                                           /\ r.vertices[x].degree[k] = w.vertices[x].degree[k]
  PROVE  OtherLists(w, r, l)
<1> SUFFICES ASSUME NEW k \in Lists \ {l}
             PROVE /\ \A f \in DOMAIN w.edges : /\ View(r, k).ends[f] = View(w, k).ends[f]
                                                /\ View(r, k).next[f] = View(w, k).next[f]
                                                /\ View(r, k).prev[f] = View(w, k).prev[f]
                   /\ \A x \in DOMAIN w.vertices : /\ View(r, k).head[x] = View(w, k).head[x]
                                                   /\ View(r, k).tail[x] = View(w, k).tail[x]
                                                   /\ View(r, k).degree[x] = View(w, k).degree[x]
  BY DEF OtherLists
<1>1. DOMAIN r.edges = DOMAIN w.edges /\ DOMAIN r.vertices = DOMAIN w.vertices
  BY DEF Tags
<1>2. \A f \in DOMAIN w.edges : EndOf(r.edges[f], k) = EndOf(w.edges[f], k)
  BY DEF Tags, EndOf
<1> QED
  BY <1>1, <1>2, ViewFacts

(* u and r are what the writes to w make. *)
Fore(w, l, v, prev, next, u) == u = FollowedBy(w, l, v, prev, next)
Aft(w, l, v, next, prev, u) == u = PrecededBy(w, l, v, next, prev)
Ended(w, l, v, e, tail, u) == u = PutLast(w, l, v, e, tail)
Lessened(w, l, v, n, u) == n = w.vertices[v].degree[l] - 1 /\ u = [w EXCEPT !.vertices[v].degree[l] = n]

LEMMA AppendFacts ==
  ASSUME NEW w \in Worlds, NEW l \in Lists, NEW e \in DOMAIN w.edges, NEW v \in DOMAIN w.vertices,
         EndOf(w.edges[e], l) = v, NEW tail, tail = w.vertices[v].tail[l],
         tail = NoIndex \/ tail \in DOMAIN w.edges \ {e},
         NEW V, V \subseteq DOMAIN w.vertices, NEW E, E \subseteq DOMAIN w.edges \ {e}, tail = NoIndex \/ tail \in E,
         NEW u, Fore(w, l, v, tail, e, u), NEW r, Ended(u, l, v, e, tail, r)
  PROVE  Tags(w, r) /\ OtherLists(w, r, l) /\ Appended(View(w, l), View(r, l), V, E, e)
<1>2. e \in Nat /\ NoIndex \in Nat /\ tail \in Nat
  BY WorldFacts, LinkFacts, PoolAssumption
<1>3. /\ Tags(w, u) /\ SamePrev(w, u) /\ SameTail(w, u) /\ SameDegree(w, u)
      /\ IF tail = NoIndex THEN HeadSet(w, u, v, l, e) /\ SameNext(w, u)
         ELSE NextSet(w, u, tail, l, e) /\ SameHead(w, u)
  <2>1. CASE tail = NoIndex
    BY <1>2, <2>1, SetHead DEF Fore, FollowedBy
  <2>2. CASE tail # NoIndex
    BY <1>2, <2>2, SetNext DEF Fore, FollowedBy
  <2> QED
    BY <2>1, <2>2
<1>4. u \in Worlds /\ DOMAIN u.edges = DOMAIN w.edges /\ DOMAIN u.vertices = DOMAIN w.vertices
  BY <1>3 DEF Tags
<1> DEFINE a == [u EXCEPT !.edges[e].next[l] = NoIndex]
<1>5. /\ Tags(u, a) /\ NextSet(u, a, e, l, NoIndex) /\ SamePrev(u, a) /\ SameHead(u, a) /\ SameTail(u, a)
      /\ SameDegree(u, a)
  BY <1>2, <1>4, SetNext
<1> HIDE DEF a
<1>6. a \in Worlds /\ DOMAIN a.edges = DOMAIN w.edges /\ DOMAIN a.vertices = DOMAIN w.vertices
  BY <1>4, <1>5 DEF Tags
<1> DEFINE b == [a EXCEPT !.edges[e].prev[l] = tail]
<1>7. /\ Tags(a, b) /\ SameNext(a, b) /\ PrevSet(a, b, e, l, tail) /\ SameHead(a, b) /\ SameTail(a, b)
      /\ SameDegree(a, b)
  BY <1>2, <1>6, SetPrev
<1> HIDE DEF b
<1>8. b \in Worlds /\ DOMAIN b.edges = DOMAIN w.edges /\ DOMAIN b.vertices = DOMAIN w.vertices
  BY <1>6, <1>7 DEF Tags
<1> DEFINE c == [b EXCEPT !.vertices[v].tail[l] = e]
<1>9. /\ Tags(b, c) /\ SameNext(b, c) /\ SamePrev(b, c) /\ SameHead(b, c) /\ TailSet(b, c, v, l, e)
      /\ SameDegree(b, c)
  BY <1>2, <1>8, SetTail
<1> HIDE DEF c
<1>10. c \in Worlds /\ DOMAIN c.edges = DOMAIN w.edges /\ DOMAIN c.vertices = DOMAIN w.vertices
  BY <1>8, <1>9 DEF Tags
<1> DEFINE n == u.vertices[v].degree[l] + 1
<1>11. n \in Int /\ n = w.vertices[v].degree[l] + 1
  BY <1>3, LinkFacts DEF SameDegree
<1> HIDE DEF n
<1> DEFINE d == [c EXCEPT !.vertices[v].degree[l] = n]
<1>12. /\ Tags(c, d) /\ SameNext(c, d) /\ SamePrev(c, d) /\ SameHead(c, d) /\ SameTail(c, d)
       /\ DegreeSet(c, d, v, l, n)
  BY <1>10, <1>11, SetDegree
<1> HIDE DEF d
<1>13. Tags(w, d)
  BY <1>3, <1>5, <1>7, <1>9, <1>12, TagsOn
<1>14. ASSUME NEW f \in DOMAIN w.edges, NEW k \in Lists
       PROVE  /\ d.edges[f].next[k] = IF k = l /\ f = e THEN NoIndex
                                      ELSE IF k = l /\ f = tail /\ tail # NoIndex THEN e ELSE w.edges[f].next[k]
              /\ d.edges[f].prev[k] = IF k = l /\ f = e THEN tail ELSE w.edges[f].prev[k]
  <2>1. d.edges[f].next[k] = a.edges[f].next[k] /\ a.edges[f].next[k] = IF f = e /\ k = l THEN NoIndex ELSE u.edges[f].next[k]
    BY <1>4, <1>5, <1>6, <1>7, <1>8, <1>9, <1>10, <1>12 DEF SameNext, NextSet
  <2>2. u.edges[f].next[k] = IF k = l /\ f = tail /\ tail # NoIndex THEN e ELSE w.edges[f].next[k]
    BY <1>3 DEF SameNext, NextSet
  <2>3. d.edges[f].prev[k] = b.edges[f].prev[k] /\ b.edges[f].prev[k] = IF f = e /\ k = l THEN tail ELSE a.edges[f].prev[k]
    BY <1>6, <1>7, <1>8, <1>9, <1>10, <1>12 DEF SamePrev, PrevSet
  <2>4. a.edges[f].prev[k] = w.edges[f].prev[k]
    BY <1>3, <1>4, <1>5 DEF SamePrev
  <2> QED
    BY <2>1, <2>2, <2>3, <2>4
<1>15. ASSUME NEW x \in DOMAIN w.vertices, NEW k \in Lists
       PROVE  /\ d.vertices[x].head[k] = IF k = l /\ x = v /\ tail = NoIndex THEN e ELSE w.vertices[x].head[k]
              /\ d.vertices[x].tail[k] = IF k = l /\ x = v THEN e ELSE w.vertices[x].tail[k]
              /\ d.vertices[x].degree[k] = IF k = l /\ x = v THEN n ELSE w.vertices[x].degree[k]
  <2>1. d.vertices[x].head[k] = u.vertices[x].head[k]
    BY <1>4, <1>5, <1>6, <1>7, <1>8, <1>9, <1>10, <1>12 DEF SameHead
  <2>2. u.vertices[x].head[k] = IF k = l /\ x = v /\ tail = NoIndex THEN e ELSE w.vertices[x].head[k]
    BY <1>3 DEF SameHead, HeadSet
  <2>3. d.vertices[x].tail[k] = c.vertices[x].tail[k] /\ c.vertices[x].tail[k] = IF x = v /\ k = l THEN e ELSE b.vertices[x].tail[k]
    BY <1>8, <1>9, <1>10, <1>12 DEF SameTail, TailSet
  <2>4. b.vertices[x].tail[k] = w.vertices[x].tail[k]
    BY <1>3, <1>4, <1>5, <1>6, <1>7 DEF SameTail
  <2>5. d.vertices[x].degree[k] = IF x = v /\ k = l THEN n ELSE c.vertices[x].degree[k]
    BY <1>10, <1>12 DEF DegreeSet
  <2>6. c.vertices[x].degree[k] = w.vertices[x].degree[k]
    BY <1>3, <1>4, <1>5, <1>6, <1>7, <1>8, <1>9 DEF SameDegree
  <2> QED
    BY <2>1, <2>2, <2>3, <2>4, <2>5, <2>6
<1>16. OtherLists(w, d, l)
  BY <1>13, <1>14, <1>15, OtherViews
<1>17. Appended(View(w, l), View(d, l), V, E, e)
  <2>1. View(w, l).ends[e] = v /\ View(w, l).tail[v] = tail
    BY ViewFacts
  <2>2. \A f \in DOMAIN w.edges : View(d, l).ends[f] = View(w, l).ends[f]
    <3>1. \A f \in DOMAIN w.edges : EndOf(d.edges[f], l) = EndOf(w.edges[f], l)
      BY <1>13 DEF Tags, EndOf
    <3> QED
      BY <1>13, <3>1, ViewFacts DEF Tags
  <2>3. \A f \in DOMAIN w.edges :
          /\ View(d, l).next[f] = IF f = e THEN NoIndex ELSE IF f = tail /\ tail # NoIndex THEN e ELSE View(w, l).next[f]
          /\ View(d, l).prev[f] = IF f = e THEN tail ELSE View(w, l).prev[f]
    BY <1>13, <1>14, ViewFacts DEF Tags
  <2>4. \A x \in DOMAIN w.vertices :
          /\ View(d, l).head[x] = IF x = v /\ tail = NoIndex THEN e ELSE View(w, l).head[x]
          /\ View(d, l).tail[x] = IF x = v THEN e ELSE View(w, l).tail[x]
          /\ View(d, l).degree[x] = IF x = v THEN n ELSE View(w, l).degree[x]
    BY <1>13, <1>15, ViewFacts DEF Tags
  <2>5. View(w, l).degree[v] + 1 = n
    BY <1>11, ViewFacts
  <2> QED
    BY <2>1, <2>2, <2>3, <2>4, <2>5 DEF Appended
<1>18. r = d
  BY DEF a, b, c, d, n, Ended, PutLast
<1> QED
  BY <1>13, <1>16, <1>17, <1>18
(* Edge e at the end of its list, by Append1. *)
LEMMA AppendOne ==
  ASSUME NEW w \in Worlds, NEW l \in Lists, NEW e \in DOMAIN w.edges, NEW v \in DOMAIN w.vertices,
         EndOf(w.edges[e], l) = v, NEW tail, tail = w.vertices[v].tail[l],
         NEW V, V \subseteq DOMAIN w.vertices, NEW E, E \subseteq DOMAIN w.edges \ {e}, tail = NoIndex \/ tail \in E,
         NEW r, r = Append1(w, l, v, e)
  PROVE  Tags(w, r) /\ OtherLists(w, r, l) /\ Appended(View(w, l), View(r, l), V, E, e)
<1> DEFINE u == FollowedBy(w, l, v, tail, e)
<1>1. Fore(w, l, v, tail, e, u) /\ Ended(u, l, v, e, tail, r)
  BY DEF Append1, Fore, Ended
<1>2. tail = NoIndex \/ tail \in DOMAIN w.edges \ {e}
  OBVIOUS
<1> HIDE DEF u
<1> QED
  BY <1>1, <1>2, AppendFacts

LEMMA RemoveFacts ==
  ASSUME NEW w \in Worlds, NEW l \in Lists, NEW e \in DOMAIN w.edges, NEW v \in DOMAIN w.vertices,
         EndOf(w.edges[e], l) = v, NEW prev, prev = w.edges[e].prev[l], NEW next, next = w.edges[e].next[l],
         prev = NoIndex \/ prev \in DOMAIN w.edges, next = NoIndex \/ next \in DOMAIN w.edges,
         NEW V, V \subseteq DOMAIN w.vertices, NEW E, E \subseteq DOMAIN w.edges,
         NEW u, Fore(w, l, v, prev, next, u), NEW a, Aft(u, l, v, next, prev, a),
         NEW n, NEW d, Lessened(a, l, v, n, d)
  PROVE  Tags(w, d) /\ OtherLists(w, d, l) /\ Dropped(View(w, l), View(d, l), V, E, e)
<1>2. NoIndex \in Nat /\ prev \in Nat /\ next \in Nat
  BY LinkFacts, PoolAssumption
<1>3. /\ Tags(w, u) /\ SamePrev(w, u) /\ SameTail(w, u) /\ SameDegree(w, u)
      /\ IF prev = NoIndex THEN HeadSet(w, u, v, l, next) /\ SameNext(w, u)
         ELSE NextSet(w, u, prev, l, next) /\ SameHead(w, u)
  <2>1. CASE prev = NoIndex
    BY <1>2, <2>1, SetHead DEF Fore, FollowedBy
  <2>2. CASE prev # NoIndex
    BY <1>2, <2>2, SetNext DEF Fore, FollowedBy
  <2> QED
    BY <2>1, <2>2
<1>4. u \in Worlds /\ DOMAIN u.edges = DOMAIN w.edges /\ DOMAIN u.vertices = DOMAIN w.vertices
  BY <1>3 DEF Tags
<1>5. /\ Tags(u, a) /\ SameNext(u, a) /\ SameHead(u, a) /\ SameDegree(u, a)
      /\ IF next = NoIndex THEN TailSet(u, a, v, l, prev) /\ SamePrev(u, a)
         ELSE PrevSet(u, a, next, l, prev) /\ SameTail(u, a)
  <2>1. CASE next = NoIndex
    BY <1>2, <1>4, <2>1, SetTail DEF Aft, PrecededBy
  <2>2. CASE next # NoIndex
    BY <1>2, <1>4, <2>2, SetPrev DEF Aft, PrecededBy
  <2> QED
    BY <2>1, <2>2
<1>6. a \in Worlds /\ DOMAIN a.edges = DOMAIN w.edges /\ DOMAIN a.vertices = DOMAIN w.vertices
  BY <1>4, <1>5 DEF Tags
<1>11. n \in Int /\ n = w.vertices[v].degree[l] - 1
  BY <1>3, <1>4, <1>5, LinkFacts DEF SameDegree, Lessened
<1>12. /\ Tags(a, d) /\ SameNext(a, d) /\ SamePrev(a, d) /\ SameHead(a, d) /\ SameTail(a, d)
       /\ DegreeSet(a, d, v, l, n)
  BY <1>6, <1>11, SetDegree DEF Lessened
<1>13. Tags(w, d)
  BY <1>3, <1>5, <1>12, TagsOn
<1>14. ASSUME NEW f \in DOMAIN w.edges, NEW k \in Lists
       PROVE  /\ d.edges[f].next[k] = IF k = l /\ f = prev /\ prev # NoIndex THEN next ELSE w.edges[f].next[k]
              /\ d.edges[f].prev[k] = IF k = l /\ f = next /\ next # NoIndex THEN prev ELSE w.edges[f].prev[k]
  <2>1. d.edges[f].next[k] = u.edges[f].next[k]
    BY <1>4, <1>5, <1>6, <1>12 DEF SameNext
  <2>2. u.edges[f].next[k] = IF k = l /\ f = prev /\ prev # NoIndex THEN next ELSE w.edges[f].next[k]
    BY <1>3 DEF SameNext, NextSet
  <2>3. d.edges[f].prev[k] = a.edges[f].prev[k]
    BY <1>6, <1>12 DEF SamePrev
  <2>4. a.edges[f].prev[k] = IF k = l /\ f = next /\ next # NoIndex THEN prev ELSE u.edges[f].prev[k]
    BY <1>4, <1>5 DEF SamePrev, PrevSet
  <2>5. u.edges[f].prev[k] = w.edges[f].prev[k]
    BY <1>3 DEF SamePrev
  <2> QED
    BY <2>1, <2>2, <2>3, <2>4, <2>5
<1>15. ASSUME NEW x \in DOMAIN w.vertices, NEW k \in Lists
       PROVE  /\ d.vertices[x].head[k] = IF k = l /\ x = v /\ prev = NoIndex THEN next ELSE w.vertices[x].head[k]
              /\ d.vertices[x].tail[k] = IF k = l /\ x = v /\ next = NoIndex THEN prev ELSE w.vertices[x].tail[k]
              /\ d.vertices[x].degree[k] = IF k = l /\ x = v THEN n ELSE w.vertices[x].degree[k]
  <2>1. d.vertices[x].head[k] = u.vertices[x].head[k]
    BY <1>4, <1>5, <1>6, <1>12 DEF SameHead
  <2>2. u.vertices[x].head[k] = IF k = l /\ x = v /\ prev = NoIndex THEN next ELSE w.vertices[x].head[k]
    BY <1>3 DEF SameHead, HeadSet
  <2>3. d.vertices[x].tail[k] = a.vertices[x].tail[k]
    BY <1>6, <1>12 DEF SameTail
  <2>4. a.vertices[x].tail[k] = IF k = l /\ x = v /\ next = NoIndex THEN prev ELSE u.vertices[x].tail[k]
    BY <1>4, <1>5 DEF SameTail, TailSet
  <2>5. u.vertices[x].tail[k] = w.vertices[x].tail[k]
    BY <1>3 DEF SameTail
  <2>6. d.vertices[x].degree[k] = IF x = v /\ k = l THEN n ELSE a.vertices[x].degree[k]
    BY <1>6, <1>12 DEF DegreeSet
  <2>7. a.vertices[x].degree[k] = w.vertices[x].degree[k]
    BY <1>3, <1>4, <1>5 DEF SameDegree
  <2> QED
    BY <2>1, <2>2, <2>3, <2>4, <2>5, <2>6, <2>7
<1>16. OtherLists(w, d, l)
  BY <1>13, <1>14, <1>15, OtherViews
<1>17. Dropped(View(w, l), View(d, l), V, E, e)
  <2>1. View(w, l).ends[e] = v /\ View(w, l).prev[e] = prev /\ View(w, l).next[e] = next
    BY ViewFacts
  <2>2. \A f \in DOMAIN w.edges : View(d, l).ends[f] = View(w, l).ends[f]
    <3>1. \A f \in DOMAIN w.edges : EndOf(d.edges[f], l) = EndOf(w.edges[f], l)
      BY <1>13 DEF Tags, EndOf
    <3> QED
      BY <1>13, <3>1, ViewFacts DEF Tags
  <2>3. \A f \in DOMAIN w.edges :
          /\ View(d, l).next[f] = IF f = prev /\ prev # NoIndex THEN next ELSE View(w, l).next[f]
          /\ View(d, l).prev[f] = IF f = next /\ next # NoIndex THEN prev ELSE View(w, l).prev[f]
    BY <1>13, <1>14, ViewFacts DEF Tags
  <2>4. \A x \in DOMAIN w.vertices :
          /\ View(d, l).head[x] = IF x = v /\ prev = NoIndex THEN next ELSE View(w, l).head[x]
          /\ View(d, l).tail[x] = IF x = v /\ next = NoIndex THEN prev ELSE View(w, l).tail[x]
          /\ View(d, l).degree[x] = IF x = v THEN n ELSE View(w, l).degree[x]
    BY <1>13, <1>15, ViewFacts DEF Tags
  <2>5. View(w, l).degree[v] - 1 = n
    BY <1>11, ViewFacts
  <2> QED
    BY <2>1, <2>2, <2>3, <2>4, <2>5 DEF Dropped
<1> QED
  BY <1>13, <1>16, <1>17

(* Edge e off its list, by Remove1. *)
LEMMA RemoveOne ==
  ASSUME NEW w \in Worlds, NEW l \in Lists, NEW e \in DOMAIN w.edges, NEW v \in DOMAIN w.vertices,
         EndOf(w.edges[e], l) = v, NEW prev, prev = w.edges[e].prev[l], NEW next, next = w.edges[e].next[l],
         prev = NoIndex \/ prev \in DOMAIN w.edges, next = NoIndex \/ next \in DOMAIN w.edges,
         NEW V, V \subseteq DOMAIN w.vertices, NEW E, E \subseteq DOMAIN w.edges,
         NEW r, r = Remove1(w, l, e)
  PROVE  Tags(w, r) /\ OtherLists(w, r, l) /\ Dropped(View(w, l), View(r, l), V, E, e)
<1> DEFINE u == FollowedBy(w, l, v, prev, next)
           a == PrecededBy(u, l, v, next, prev)
           n == a.vertices[v].degree[l] - 1
           d == [a EXCEPT !.vertices[v].degree[l] = n]
<1>1. r = d
  BY DEF Remove1
<1>2. Lessened(a, l, v, n, d)
  BY DEF Lessened
<1>3. Fore(w, l, v, prev, next, u) /\ Aft(u, l, v, next, prev, a)
  BY DEF Fore, Aft
<1> HIDE DEF u, a, n, d
<1>4. Tags(w, d) /\ OtherLists(w, d, l) /\ Dropped(View(w, l), View(d, l), V, E, e)
  BY <1>2, <1>3, RemoveFacts
<1> QED
  BY <1>1, <1>4
LEMMA PoolFinite ==
  ASSUME NEW w \in Worlds
  PROVE  /\ IsFiniteSet(DOMAIN w.edges) /\ IsFiniteSet(DOMAIN w.vertices)
         /\ DOMAIN w.edges \subseteq Nat /\ DOMAIN w.vertices \subseteq Nat
<1>1. PICK n \in Nat : w.edges \in [0 .. n - 1 -> EdgeSlots]
  BY DEF Worlds, PoolOf
<1>2. PICK m \in Nat : w.vertices \in [0 .. m - 1 -> VertexSlots]
  BY DEF Worlds, PoolOf
<1>3. DOMAIN w.edges = 0 .. n - 1 /\ DOMAIN w.vertices = 0 .. m - 1
  BY <1>1, <1>2
<1> QED
  BY <1>3, FS_Interval

LEMMA SubsetFinite ==
  ASSUME NEW S, IsFiniteSet(S), NEW T, T \subseteq S
  PROVE  IsFiniteSet(T)
<1>1. T \in SUBSET S
  OBVIOUS
<1> QED
  BY <1>1, FS_Subset

(* The ends of a list are on it. *)
LEMMA EndsOn ==
  ASSUME NEW G, NEW V, NEW E, NEW st, Threads(G, V, E, st)
  PROVE  /\ \A v \in V : /\ G.tail[v] = NoIndex \/ G.tail[v] \in E
                         /\ G.head[v] = NoIndex \/ G.head[v] \in E
         /\ \A e \in E : /\ G.ends[e] \in V
                         /\ G.next[e] = NoIndex \/ G.next[e] \in E
                         /\ G.prev[e] = NoIndex \/ G.prev[e] \in E
<1>1. ASSUME NEW v \in V
      PROVE  /\ G.tail[v] = NoIndex \/ G.tail[v] \in E
             /\ G.head[v] = NoIndex \/ G.head[v] \in E
             /\ \A e \in On(G, E, v) : /\ G.next[e] = NoIndex \/ G.next[e] \in E
                                       /\ G.prev[e] = NoIndex \/ G.prev[e] \in E
  <2>1. Threaded(G, On(G, E, v), st, v) /\ On(G, E, v) \subseteq E
    BY DEF Threads, On
  <2> QED
    BY <2>1 DEF Threaded, Chained, Leads, Follows
<1>2. \A e \in E : G.ends[e] \in V /\ e \in On(G, E, G.ends[e])
  BY DEF Threads, On
<1> QED
  BY <1>1, <1>2

LEMMA OthersSame ==
  ASSUME NEW w, NEW r, NEW l, OtherLists(w, r, l), NEW k \in Lists \ {l},
         NEW V, V \subseteq DOMAIN w.vertices, NEW E, E \subseteq DOMAIN w.edges, NEW st, Stamped(E, st),
         Threads(View(w, k), V, E, st)
  PROVE  Threads(View(r, k), V, E, st)
<1>1. \A f \in E : /\ View(r, k).ends[f] = View(w, k).ends[f]
                   /\ View(r, k).next[f] = View(w, k).next[f]
                   /\ View(r, k).prev[f] = View(w, k).prev[f]
  BY DEF OtherLists
<1>2. \A x \in V : /\ View(r, k).head[x] = View(w, k).head[x]
                   /\ View(r, k).tail[x] = View(w, k).tail[x]
                   /\ View(r, k).degree[x] = View(w, k).degree[x]
  BY DEF OtherLists
<1> QED
  BY <1>1, <1>2, ThreadsSame

(* The links that free lists use are the same, but for the slots V and E. *)
Elsewhere(w, r, V, E) ==
  /\ \A f \in DOMAIN w.edges \ E : r.edges[f].next["out"] = w.edges[f].next["out"]
  /\ \A x \in DOMAIN w.vertices \ V : r.vertices[x].head["out"] = w.vertices[x].head["out"]

(* Outside of V and E the links of list l are the same. *)
Aside(G, H, D, C, V, E) ==
  /\ \A f \in D \ E : H.next[f] = G.next[f]
  /\ \A x \in C \ V : H.head[x] = G.head[x]

LEMMA ElsewhereFacts ==
  ASSUME NEW w \in Worlds, NEW r, NEW l \in Lists, NEW V, NEW E, Tags(w, r), OtherLists(w, r, l),
         Aside(View(w, l), View(r, l), DOMAIN w.edges, DOMAIN w.vertices, V, E)
  PROVE  Elsewhere(w, r, V, E)
<1>1. "out" \in Lists /\ DOMAIN r.edges = DOMAIN w.edges /\ DOMAIN r.vertices = DOMAIN w.vertices
  BY DEF Lists, Tags
<1>2. \A f \in DOMAIN w.edges \ E : View(r, "out").next[f] = View(w, "out").next[f]
  BY <1>1 DEF OtherLists, Aside
<1>3. \A x \in DOMAIN w.vertices \ V : View(r, "out").head[x] = View(w, "out").head[x]
  BY <1>1 DEF OtherLists, Aside
<1> QED
  BY <1>1, <1>2, <1>3, ViewFacts DEF Elsewhere

LEMMA AppendLinks ==
  ASSUME NEW w \in Worlds, NEW l \in Lists, NEW V, V \subseteq DOMAIN w.vertices, NoIndex \notin DOMAIN w.edges,
         NEW E, E \subseteq DOMAIN w.edges, NEW st, Threads(View(w, l), V, E, st),
         NEW e \in DOMAIN w.edges \ E, Stamped(E \cup {e}, st), \A f \in E : st[f] < st[e],
         NEW v \in V, EndOf(w.edges[e], l) = v, NEW r, r = Append1(w, l, v, e)
  PROVE  /\ Tags(w, r) /\ OtherLists(w, r, l) /\ Threads(View(r, l), V, E \cup {e}, st)
         /\ Elsewhere(w, r, V, E \cup {e})
<1> DEFINE tail == w.vertices[v].tail[l]
<1>1. tail = NoIndex \/ tail \in E
  <2>1. View(w, l).tail[v] = tail
    BY ViewFacts
  <2> QED
    BY <2>1, EndsOn
<1>2. tail = w.vertices[v].tail[l] /\ v \in DOMAIN w.vertices /\ E \subseteq DOMAIN w.edges \ {e}
      /\ e \in DOMAIN w.edges /\ View(w, l).tail[v] = tail /\ View(w, l).ends[e] = v
  BY ViewFacts
<1> HIDE DEF tail
<1>3. Tags(w, r) /\ OtherLists(w, r, l) /\ Appended(View(w, l), View(r, l), V, E, e)
  BY <1>1, <1>2, AppendOne
<1>4. IsFiniteSet(E) /\ e \in Nat
  BY PoolFinite, SubsetFinite
<1>5. View(w, l).ends[e] \in V
  BY ViewFacts
<1>6. Threads(View(r, l), V, E \cup {e}, st)
  BY <1>3, <1>4, <1>5, AppendThreads
<1>7. Appended(View(w, l), View(r, l), DOMAIN w.vertices, DOMAIN w.edges \ {e}, e)
  <2>1. tail = NoIndex \/ tail \in DOMAIN w.edges \ {e}
    BY <1>1, <1>2
  <2> QED
    BY <1>2, <2>1, AppendOne
<1>8. Aside(View(w, l), View(r, l), DOMAIN w.edges, DOMAIN w.vertices, V, E \cup {e})
  <2>1. v \in V /\ tail \notin DOMAIN w.edges \ (E \cup {e})
    BY <1>1
  <2>2. \A f \in DOMAIN w.edges \ {e} : f # tail => View(r, l).next[f] = View(w, l).next[f]
    BY <1>2, <1>7 DEF Appended
  <2>3. \A x \in DOMAIN w.vertices : x # v => View(r, l).head[x] = View(w, l).head[x]
    BY <1>2, <1>7 DEF Appended
  <2> QED
    BY <2>1, <2>2, <2>3 DEF Aside
<1>9. Elsewhere(w, r, V, E \cup {e})
  BY <1>3, <1>8, ElsewhereFacts
<1> QED
  BY <1>3, <1>6, <1>9

LEMMA RemoveLinks ==
  ASSUME NEW w \in Worlds, NEW l \in Lists, NEW V, V \subseteq DOMAIN w.vertices, NoIndex \notin DOMAIN w.edges,
         NEW E, E \subseteq DOMAIN w.edges, NEW st, Threads(View(w, l), V, E, st), Stamped(E, st),
         NEW e \in E, NEW r, r = Remove1(w, l, e)
  PROVE  /\ Tags(w, r) /\ OtherLists(w, r, l) /\ Threads(View(r, l), V, E \ {e}, st)
         /\ Elsewhere(w, r, V, E)
<1> DEFINE v == EndOf(w.edges[e], l)
           prev == w.edges[e].prev[l]
           next == w.edges[e].next[l]
<1>1. v \in V /\ (prev = NoIndex \/ prev \in E) /\ (next = NoIndex \/ next \in E)
  <2>1. View(w, l).ends[e] = v /\ View(w, l).prev[e] = prev /\ View(w, l).next[e] = next
    BY ViewFacts
  <2> QED
    BY <2>1, EndsOn
<1>2. v = EndOf(w.edges[e], l) /\ prev = w.edges[e].prev[l] /\ next = w.edges[e].next[l]
      /\ v \in DOMAIN w.vertices /\ e \in DOMAIN w.edges
      /\ (prev = NoIndex \/ prev \in DOMAIN w.edges) /\ (next = NoIndex \/ next \in DOMAIN w.edges)
      /\ View(w, l).ends[e] = v /\ View(w, l).prev[e] = prev
  BY <1>1, ViewFacts
<1> HIDE DEF v, prev, next
<1>3. Tags(w, r) /\ OtherLists(w, r, l) /\ Dropped(View(w, l), View(r, l), V, E, e)
  BY <1>2, RemoveOne
<1>4. IsFiniteSet(E)
  BY PoolFinite, SubsetFinite
<1>5. Threads(View(r, l), V, E \ {e}, st)
  BY <1>3, <1>4, DropThreads
<1>6. Dropped(View(w, l), View(r, l), DOMAIN w.vertices, DOMAIN w.edges, e)
  BY <1>2, RemoveOne
<1>7. Aside(View(w, l), View(r, l), DOMAIN w.edges, DOMAIN w.vertices, V, E)
  <2>1. \A f \in DOMAIN w.edges : f # prev => View(r, l).next[f] = View(w, l).next[f]
    BY <1>2, <1>6 DEF Dropped
  <2>2. \A x \in DOMAIN w.vertices : x # v => View(r, l).head[x] = View(w, l).head[x]
    BY <1>2, <1>6 DEF Dropped
  <2>3. v \in V /\ prev \notin DOMAIN w.edges \ E
    BY <1>1
  <2> QED
    BY <2>1, <2>2, <2>3 DEF Aside
<1>8. Elsewhere(w, r, V, E)
  BY <1>3, <1>7, ElsewhereFacts
<1> QED
  BY <1>3, <1>5, <1>8

(***************************************************************************)
(* LinkEdge and UnlinkEdge.                                                *)
(***************************************************************************)
Used(w, p) == {i \in DOMAIN w[p] : w[p][i].active}

(* The edges E are on the two lists of their ends, in the order of their stamps. *)
OnLists(w, V, E, st) == \A l \in Lists : Threads(View(w, l), V, E, st)

(* A linked edge changes nothing but its ends, its use and links. *)
Tied(w, e, src, dst, u) ==
  u = [w EXCEPT !.edges[e].src = src, !.edges[e].dst = dst, !.edges[e].active = TRUE]

(* The edge e of u has those ends and is in use; the others are the same. *)
Placed(w, e, src, dst, u) ==
  /\ u \in Worlds /\ Beside(w, u) /\ u.vertices = w.vertices /\ DOMAIN u.edges = DOMAIN w.edges
  /\ \A f \in DOMAIN w.edges : f # e => u.edges[f] = w.edges[f]
  /\ u.edges[e].src = src /\ u.edges[e].dst = dst /\ u.edges[e].active = TRUE
  /\ u.edges[e].generation = w.edges[e].generation

LEMMA TiedFacts ==
  ASSUME NEW w \in Worlds, NEW e \in DOMAIN w.edges, NEW src \in Nat, NEW dst \in Nat, NEW u, Tied(w, e, src, dst, u)
  PROVE  Placed(w, e, src, dst, u)
<1> DEFINE x == [w.edges[e] EXCEPT !.src = src, !.dst = dst, !.active = TRUE]
<1>1. w.edges[e] \in EdgeSlots
  BY SlotFacts
<1>2. /\ x \in EdgeSlots /\ x.src = src /\ x.dst = dst /\ x.active = TRUE
      /\ x.generation = w.edges[e].generation
  BY <1>1 DEF EdgeSlots
<1>3. u = EdgeAs(w, e, x)
  BY DEF Tied, EdgeAs, Worlds
<1> HIDE DEF x
<1>4. EdgeWritten(w, u, e, x)
  BY <1>2, <1>3, EdgeWrite
<1> QED
  BY <1>2, <1>4 DEF EdgeWritten, Placed
(* Stamps in the order of insertion, hi being later than all of them. *)
Ordered(E, st, hi) == Stamped(E, st) /\ hi \in Int /\ \A e \in E : st[e] < hi

LinkedOn(w, V, E) == \E st, hi : Ordered(E, st, hi) /\ OnLists(w, V, E, st)

(* What the writes of a call to the links and the ends of edges leave alone. *)
Wired(w, r, V, E) ==
  /\ r \in Worlds /\ Beside(w, r) /\ Elsewhere(w, r, V, E)
  /\ DOMAIN r.edges = DOMAIN w.edges /\ DOMAIN r.vertices = DOMAIN w.vertices
  /\ \A f \in DOMAIN w.edges : r.edges[f].generation = w.edges[f].generation
  /\ \A x \in DOMAIN w.vertices : /\ r.vertices[x].generation = w.vertices[x].generation
                                  /\ r.vertices[x].active = w.vertices[x].active

LEMMA TagsWired ==
  ASSUME NEW w, NEW r, NEW V, NEW E, Tags(w, r), Elsewhere(w, r, V, E)
  PROVE  Wired(w, r, V, E)
  BY DEF Tags, Wired

LEMMA WiredOn ==
  ASSUME NEW w, NEW u, NEW r, NEW V, NEW E, Wired(w, u, V, E), Wired(u, r, V, E)
  PROVE  Wired(w, r, V, E)
<1>1. Beside(w, r)
  BY BesideOn DEF Wired
<1>2. Elsewhere(w, r, V, E)
  BY DEF Wired, Elsewhere
<1> QED
  BY <1>1, <1>2 DEF Wired

LEMMA Restamped ==
  ASSUME NEW E, NEW st, NEW hi, Ordered(E, st, hi), NEW e \in Nat, e # NoIndex, e \notin E
  PROVE  \E tt : /\ Stamped(E \cup {e}, tt) /\ Stamped(E, tt) /\ tt[e] = hi
                 /\ \A f \in E : tt[f] = st[f] /\ tt[f] < tt[e]
<1> DEFINE tt == [st EXCEPT ![e] = hi]
<1>1. st \in [Nat -> Int] /\ hi \in Int /\ E \subseteq Nat /\ NoIndex \notin E
  BY DEF Ordered, Stamped, Stamps
<1>2. tt \in [Nat -> Int] /\ tt[e] = hi /\ \A f \in E : tt[f] = st[f]
  BY <1>1
<1>3. \A f \in E : tt[f] < tt[e]
  BY <1>2 DEF Ordered
<1>4. \A f, g \in E \cup {e} : tt[f] = tt[g] => f = g
  <2>1. \A f, g \in E : st[f] = st[g] => f = g
    BY DEF Ordered, Stamped, Distinct
  <2>2. \A f \in E \cup {e} : tt[f] \in Int
    BY <1>1, <1>2
  <2> HIDE DEF tt
  <2>3. \A f \in E : tt[f] # tt[e]
    BY <1>3, <2>2
  <2> QED
    BY <1>2, <2>1, <2>3
<1> HIDE DEF tt
<1>5. Stamped(E \cup {e}, tt)
  BY <1>1, <1>2, <1>4 DEF Stamped, Stamps, Distinct
<1>6. Stamped(E, tt)
  BY <1>5, StampedSubset
<1> QED
  BY <1>2, <1>3, <1>5, <1>6

(* Edge e has joined the edges E, and is in use. *)
LinkedWith(w, r, V, E, e) ==
  /\ Wired(w, r, V, E \cup {e}) /\ LinkedOn(r, V, E \cup {e})
  /\ \A f \in DOMAIN w.edges : r.edges[f].active = (f = e \/ w.edges[f].active)

LEMMA LinkEdgeFacts ==
  ASSUME NEW w \in Worlds, NoIndex \notin DOMAIN w.edges, NEW V, V \subseteq DOMAIN w.vertices,
         NEW E, E \subseteq DOMAIN w.edges, LinkedOn(w, V, E), NEW e \in DOMAIN w.edges \ E,
         NEW src \in V, NEW dst \in V, NEW r, r = LinkEdge(w, e, src, dst)
  PROVE  LinkedWith(w, r, V, E, e)
<1> DEFINE u == [w EXCEPT !.edges[e].src = src, !.edges[e].dst = dst, !.edges[e].active = TRUE]
           a == Append1(u, "out", src, e)
<1>0. "out" \in Lists /\ "in" \in Lists /\ "out" # "in" /\ e \in Nat /\ e # NoIndex /\ src \in Nat /\ dst \in Nat
      /\ (\A l \in Lists : l = "out" \/ l = "in")
  BY PoolFinite DEF Lists
<1>1. r = Append1(a, "in", dst, e)
  BY DEF LinkEdge
<1>2. Tied(w, e, src, dst, u)
  BY DEF Tied
<1> HIDE DEF u
<1>3. /\ u \in Worlds /\ Beside(w, u) /\ u.vertices = w.vertices /\ DOMAIN u.edges = DOMAIN w.edges
      /\ \A f \in DOMAIN w.edges : f # e => u.edges[f] = w.edges[f]
      /\ u.edges[e].src = src /\ u.edges[e].dst = dst /\ u.edges[e].active = TRUE
      /\ u.edges[e].generation = w.edges[e].generation
  <2>1. Placed(w, e, src, dst, u)
    BY <1>0, <1>2, TiedFacts
  <2> QED
    BY <2>1 DEF Placed
<1>4. Wired(w, u, V, E \cup {e})
  BY <1>3 DEF Wired, Elsewhere
<1>5. PICK st, hi : Ordered(E, st, hi) /\ OnLists(w, V, E, st)
  BY DEF LinkedOn
<1>6. PICK tt : /\ Stamped(E \cup {e}, tt) /\ Stamped(E, tt) /\ tt[e] = hi
                /\ \A f \in E : tt[f] = st[f] /\ tt[f] < tt[e]
  BY <1>0, <1>5, Restamped
<1>7. ASSUME NEW l \in Lists PROVE Threads(View(u, l), V, E, tt)
  <2>1. Threads(View(w, l), V, E, st) /\ Stamped(E, st)
    BY <1>5 DEF OnLists, Ordered
  <2>2. Threads(View(w, l), V, E, tt)
    BY <1>6, <2>1, ThreadsRestamped
  <2>3. \A f \in E : /\ View(u, l).ends[f] = View(w, l).ends[f] /\ View(u, l).next[f] = View(w, l).next[f]
                     /\ View(u, l).prev[f] = View(w, l).prev[f]
    BY <1>3, ViewFacts
  <2>4. \A x \in V : /\ View(u, l).head[x] = View(w, l).head[x] /\ View(u, l).tail[x] = View(w, l).tail[x]
                     /\ View(u, l).degree[x] = View(w, l).degree[x]
    BY <1>3, ViewFacts
  <2> QED
    BY <1>6, <2>2, <2>3, <2>4, ThreadsSame
<1>8. EndOf(u.edges[e], "out") = src /\ V \subseteq DOMAIN u.vertices /\ E \subseteq DOMAIN u.edges
      /\ e \in DOMAIN u.edges \ E /\ NoIndex \notin DOMAIN u.edges
  BY <1>3 DEF EndOf
<1>9. /\ Tags(u, a) /\ OtherLists(u, a, "out") /\ Threads(View(a, "out"), V, E \cup {e}, tt)
      /\ Elsewhere(u, a, V, E \cup {e})
  BY <1>0, <1>3, <1>6, <1>7, <1>8, AppendLinks
<1> HIDE DEF a
<1>10. Threads(View(a, "in"), V, E, tt)
  BY <1>0, <1>6, <1>7, <1>8, <1>9, OthersSame
<1>11. a \in Worlds /\ EndOf(a.edges[e], "in") = dst /\ V \subseteq DOMAIN a.vertices /\ E \subseteq DOMAIN a.edges
       /\ e \in DOMAIN a.edges \ E /\ E \cup {e} \subseteq DOMAIN a.edges /\ NoIndex \notin DOMAIN a.edges
  BY <1>0, <1>3, <1>8, <1>9 DEF EndOf, Tags
<1>12. /\ Tags(a, r) /\ OtherLists(a, r, "in") /\ Threads(View(r, "in"), V, E \cup {e}, tt)
       /\ Elsewhere(a, r, V, E \cup {e})
  BY <1>0, <1>1, <1>6, <1>10, <1>11, AppendLinks
<1>13. Threads(View(r, "out"), V, E \cup {e}, tt)
  BY <1>0, <1>6, <1>9, <1>11, <1>12, OthersSame
<1>14. LinkedOn(r, V, E \cup {e})
  <2>1. OnLists(r, V, E \cup {e}, tt)
    BY <1>0, <1>12, <1>13 DEF OnLists
  <2>2. hi \in Int /\ hi + 1 \in Int /\ \A f \in E : st[f] < hi /\ st[f] \in Int
    BY <1>5, StampFacts DEF Ordered
  <2>3. Ordered(E \cup {e}, tt, hi + 1)
    BY <1>6, <2>2 DEF Ordered
  <2> QED
    BY <2>1, <2>3 DEF LinkedOn
<1>15. Wired(w, r, V, E \cup {e})
  BY <1>4, <1>9, <1>12, TagsWired, WiredOn
<1>16. ASSUME NEW f \in DOMAIN w.edges PROVE r.edges[f].active = (f = e \/ w.edges[f].active)
  <2>1. r.edges[f].active = u.edges[f].active
    BY <1>3, <1>9, <1>12 DEF Tags
  <2>2. w.edges[f].active \in BOOLEAN
    BY <1>0, LinkFacts
  <2> QED
    BY <1>3, <2>1, <2>2
<1> QED
  BY <1>14, <1>15, <1>16 DEF LinkedWith

LEMMA UnlinkEdgeFacts ==
  ASSUME NEW w \in Worlds, NoIndex \notin DOMAIN w.edges, NEW V, V \subseteq DOMAIN w.vertices,
         NEW E, E \subseteq DOMAIN w.edges, LinkedOn(w, V, E), NEW e \in E, NEW r, r = UnlinkEdge(w, e)
  PROVE  Wired(w, r, V, E) /\ LinkedOn(r, V, E \ {e}) /\ Tags(w, r)
<1> DEFINE a == Remove1(w, "out", e)
<1>0. "out" \in Lists /\ "in" \in Lists /\ "out" # "in" /\ (\A l \in Lists : l = "out" \/ l = "in")
  BY DEF Lists
<1>1. r = Remove1(a, "in", e)
  BY DEF UnlinkEdge
<1>2. PICK st, hi : Ordered(E, st, hi) /\ OnLists(w, V, E, st)
  BY DEF LinkedOn
<1>3. Stamped(E, st) /\ Stamped(E \ {e}, st) /\ \A l \in Lists : Threads(View(w, l), V, E, st)
  <2>1. Stamped(E, st) /\ E \ {e} \subseteq E
    BY <1>2 DEF Ordered
  <2> QED
    BY <1>2, <2>1, StampedSubset DEF OnLists
<1>4. /\ Tags(w, a) /\ OtherLists(w, a, "out") /\ Threads(View(a, "out"), V, E \ {e}, st)
      /\ Elsewhere(w, a, V, E)
  BY <1>0, <1>3, RemoveLinks
<1> HIDE DEF a
<1>5. Threads(View(a, "in"), V, E, st)
  BY <1>0, <1>3, <1>4, OthersSame
<1>6. a \in Worlds /\ V \subseteq DOMAIN a.vertices /\ E \subseteq DOMAIN a.edges /\ E \ {e} \subseteq DOMAIN a.edges
      /\ NoIndex \notin DOMAIN a.edges
  BY <1>4 DEF Tags
<1>7. /\ Tags(a, r) /\ OtherLists(a, r, "in") /\ Threads(View(r, "in"), V, E \ {e}, st)
      /\ Elsewhere(a, r, V, E)
  BY <1>0, <1>1, <1>3, <1>5, <1>6, RemoveLinks
<1>8. Threads(View(r, "out"), V, E \ {e}, st)
  BY <1>0, <1>3, <1>4, <1>6, <1>7, OthersSame
<1>9. LinkedOn(r, V, E \ {e})
  <2>1. OnLists(r, V, E \ {e}, st)
    BY <1>0, <1>7, <1>8 DEF OnLists
  <2>2. Ordered(E \ {e}, st, hi)
    BY <1>2, <1>3 DEF Ordered
  <2> QED
    BY <2>1, <2>2 DEF LinkedOn
<1>10. Wired(w, r, V, E)
  BY <1>4, <1>7, TagsWired, WiredOn
<1>11. Tags(w, r)
  BY <1>4, <1>7, TagsOn
<1> QED
  BY <1>9, <1>10, <1>11
(***************************************************************************)
(* Free lists: the slots F, the last one freed in front.                   *)
(***************************************************************************)
Latest(F, st, lo) == Stamped(F, st) /\ lo \in Int /\ \A f \in F : lo < st[f]

FreedOn(w, p, F) == \E st, lo : Latest(F, st, lo) /\ Chained(F, st, FreeLinks(w, p), w.cb.free[p])

LEMMA FreeLinksFacts ==
  ASSUME NEW w, NEW p, NEW i \in DOMAIN w[p]
  PROVE  FreeLinks(w, p)[i] = FreeLink(w, p, i)
  BY DEF FreeLinks

LEMMA FreedSame ==
  ASSUME NEW w, NEW u, NEW p, NEW F, FreedOn(w, p, F), F \subseteq DOMAIN w[p], F \subseteq DOMAIN u[p],
         \A f \in F : FreeLink(u, p, f) = FreeLink(w, p, f), u.cb.free[p] = w.cb.free[p]
  PROVE  FreedOn(u, p, F)
<1>1. PICK st, lo : Latest(F, st, lo) /\ Chained(F, st, FreeLinks(w, p), w.cb.free[p])
  BY DEF FreedOn
<1>2. \A f \in F : FreeLinks(u, p)[f] = FreeLinks(w, p)[f] /\ st[f] = st[f]
  BY FreeLinksFacts
<1>3. Chained(F, st, FreeLinks(u, p), w.cb.free[p])
  BY <1>1, <1>2, ChainedSame
<1> QED
  BY <1>1, <1>3 DEF FreedOn

(* The slots of u are those of w, of which i is now in front. *)
LEMMA FreedFront ==
  ASSUME NEW w, NEW u, NEW p, NEW F, FreedOn(w, p, F), F \subseteq DOMAIN w[p], F \subseteq DOMAIN u[p],
         NEW i \in Nat, i \in DOMAIN u[p], i # NoIndex, i \notin F,
         \A f \in F : FreeLink(u, p, f) = FreeLink(w, p, f),
         FreeLink(u, p, i) = w.cb.free[p], u.cb.free[p] = i
  PROVE  FreedOn(u, p, F \cup {i})
<1>1. PICK st, lo : Latest(F, st, lo) /\ Chained(F, st, FreeLinks(w, p), w.cb.free[p])
  BY DEF FreedOn
<1>2. lo \in Int /\ \A f \in F : lo < st[f] /\ st[f] \in Int
  BY <1>1, StampFacts DEF Latest
<1>3. PICK tt : /\ Stamped(F \cup {i}, tt) /\ tt[i] = lo /\ \A f \in F : tt[f] = st[f]
  <2> DEFINE tt == [st EXCEPT ![i] = lo]
  <2>1. st \in [Nat -> Int] /\ lo \in Int /\ F \subseteq Nat /\ NoIndex \notin F
    BY <1>1 DEF Latest, Stamped, Stamps
  <2>2. tt \in [Nat -> Int] /\ tt[i] = lo /\ \A f \in F : tt[f] = st[f]
    BY <2>1
  <2>3. \A f, g \in F : st[f] = st[g] => f = g
    BY <1>1 DEF Latest, Stamped, Distinct
  <2> HIDE DEF tt
  <2>4. \A f \in F : tt[f] # tt[i]
    BY <1>2, <2>2
  <2>5. Stamped(F \cup {i}, tt)
    BY <2>1, <2>2, <2>3, <2>4 DEF Stamped, Stamps, Distinct
  <2> QED
    BY <2>2, <2>5
<1>4. Chained(F, tt, FreeLinks(w, p), w.cb.free[p])
  BY <1>1, <1>3, ChainedSame
<1>5. \A f \in F : tt[i] < tt[f]
  BY <1>2, <1>3
<1>6. FreeLinks(u, p)[i] = w.cb.free[p] /\ \A f \in F : FreeLinks(u, p)[f] = FreeLinks(w, p)[f]
  BY FreeLinksFacts
<1>7. Chained(F \cup {i}, tt, FreeLinks(u, p), i)
  BY <1>3, <1>4, <1>5, <1>6, ChainFront
<1>8. Latest(F \cup {i}, tt, lo - 1)
  <2>1. lo - 1 \in Int /\ \A f \in F \cup {i} : lo - 1 < tt[f]
    BY <1>2, <1>3
  <2> QED
    BY <1>3, <2>1 DEF Latest
<1> QED
  BY <1>7, <1>8 DEF FreedOn

(* The slot in front is taken. *)
LEMMA FreedPop ==
  ASSUME NEW w, NEW u, NEW p, NEW F, FreedOn(w, p, F), F \subseteq DOMAIN w[p], F \subseteq DOMAIN u[p],
         NEW i, w.cb.free[p] = i, i # NoIndex,
         \A f \in F : FreeLink(u, p, f) = FreeLink(w, p, f), u.cb.free[p] = FreeLink(w, p, i)
  PROVE  i \in F /\ FreedOn(u, p, F \ {i})
<1>1. PICK st, lo : Latest(F, st, lo) /\ Chained(F, st, FreeLinks(w, p), w.cb.free[p])
  BY DEF FreedOn
<1>2. Stamped(F, st) /\ lo \in Int /\ \A f \in F : lo < st[f]
  BY <1>1 DEF Latest
<1>3. i \in F /\ \A f \in F : st[i] <= st[f]
  BY <1>1 DEF Chained, Leads
<1>4. Follows(F, Backward(st), i, NoIndex)
  <2>1. \A f \in F : Backward(st)[f] = -st[f]
    BY <1>2, BackwardFacts
  <2>2. \A f \in F : st[f] \in Int
    BY <1>2, StampFacts
  <2> QED
    BY <1>3, <2>1, <2>2 DEF Follows
<1>5. \A f \in F : FreeLinks(u, p)[f] = FreeLinks(w, p)[f] /\ FreeLinks(w, p)[i] = FreeLink(w, p, i)
  BY <1>3, FreeLinksFacts
<1>6. Chained(F \ {i}, st, FreeLinks(u, p), FreeLinks(w, p)[i])
  <2> DEFINE none == NoIndex
             first == FreeLinks(w, p)[i]
  <2>1. none = NoIndex /\ Follows(F, Backward(st), i, none) /\ first = FreeLinks(w, p)[i]
    BY <1>4
  <2> HIDE DEF none, first
  <2>2. first = IF none = NoIndex THEN FreeLinks(w, p)[i] ELSE w.cb.free[p]
    BY <2>1
  <2>3. Cut(F, FreeLinks(w, p), w.cb.free[p], i, none, FreeLinks(u, p), first)
    BY <1>5, <2>1, <2>2 DEF Cut
  <2>4. Chained(F \ {i}, st, FreeLinks(u, p), first)
    BY <1>1, <1>2, <1>3, <2>1, <2>3, ChainCut
  <2> QED
    BY <2>1, <2>4
<1>7. Latest(F \ {i}, st, lo)
  <2>1. F \ {i} \subseteq F
    OBVIOUS
  <2>2. Stamped(F \ {i}, st)
    BY <1>2, <2>1, StampedSubset
  <2> QED
    BY <1>2, <2>2 DEF Latest
<1> QED
  BY <1>3, <1>5, <1>6, <1>7 DEF FreedOn

LEMMA FreedNone ==
  ASSUME NEW w, NEW p
  PROVE  /\ \A F : FreedOn(w, p, F) => (w.cb.free[p] = NoIndex <=> F = {})
         /\ w.cb.free[p] = NoIndex => FreedOn(w, p, {})
<1>1. ASSUME NEW F, FreedOn(w, p, F) PROVE w.cb.free[p] = NoIndex <=> F = {}
  <2>1. PICK st, lo : Latest(F, st, lo) /\ Chained(F, st, FreeLinks(w, p), w.cb.free[p])
    BY <1>1 DEF FreedOn
  <2> QED
    BY <2>1 DEF Chained, Leads
<1>2. ASSUME w.cb.free[p] = NoIndex PROVE FreedOn(w, p, {})
  <2> DEFINE st == [i \in Nat |-> 0]
  <2>1. Latest({}, st, 0)
    BY DEF Latest, Stamped, Stamps, Distinct
  <2>2. Chained({}, st, FreeLinks(w, p), w.cb.free[p])
    BY <1>2 DEF Chained, Leads
  <2> HIDE DEF st
  <2> QED
    BY <2>1, <2>2 DEF FreedOn
<1> QED
  BY <1>1, <1>2

(* One slot after the other. *)
LEMMA FreedAll ==
  ASSUME NEW w, NEW p, NEW n \in Nat, DOMAIN w[p] = 0 .. n - 1, NoIndex \notin 0 .. n - 1, NoIndex \in Nat,
         \A i \in 0 .. n - 1 : FreeLink(w, p, i) = IF i + 1 = n THEN NoIndex ELSE i + 1,
         w.cb.free[p] = IF n = 0 THEN NoIndex ELSE 0
  PROVE  FreedOn(w, p, 0 .. n - 1)
<1> DEFINE st == [i \in Nat |-> i]
           F == 0 .. n - 1
<1>1. \A i \in F : st[i] = i
  OBVIOUS
<1>2. Latest(F, st, -1)
  <2>1. st \in [Nat -> Int]
    OBVIOUS
  <2> HIDE DEF st
  <2> QED
    BY <1>1, <2>1 DEF Latest, Stamped, Stamps, Distinct
<1> HIDE DEF st
<1>3. Leads(F, st, w.cb.free[p])
  <2>1. n # 0 => 0 \in F
    OBVIOUS
  <2> QED
    BY <1>1, <2>1 DEF Leads
<1>4. ASSUME NEW i \in F PROVE Follows(F, st, i, FreeLinks(w, p)[i])
  <2>1. FreeLinks(w, p)[i] = IF i + 1 = n THEN NoIndex ELSE i + 1
    BY FreeLinksFacts
  <2>2. CASE i + 1 = n
    <3>1. \A f \in F : f <= i
      BY <2>2
    <3> HIDE DEF F
    <3> QED
      BY <1>1, <2>1, <2>2, <3>1 DEF Follows
  <2>3. CASE i + 1 # n
    <3>1. i + 1 \in F /\ i < i + 1 /\ \A f \in F : f <= i \/ i + 1 <= f
      BY <2>3
    <3>2. i + 1 # NoIndex
      BY <3>1
    <3> HIDE DEF F
    <3> QED
      BY <1>1, <2>1, <2>3, <3>1, <3>2 DEF Follows
  <2> QED
    BY <2>2, <2>3
<1>5. Chained(F, st, FreeLinks(w, p), w.cb.free[p])
  BY <1>3, <1>4 DEF Chained
<1>6. FreedOn(w, p, F)
  <2> HIDE DEF F
  <2> QED
    BY <1>2, <1>5 DEF FreedOn
<1> QED
  BY <1>6
(***************************************************************************)
(* The structure of a graph.                                               *)
(***************************************************************************)
Spare(w, p) == DOMAIN w[p] \ Used(w, p)

Lined(w) == LinkedOn(w, Used(w, "vertices"), Used(w, "edges"))

Counted(w) == \A p \in Pools : w.cb.count[p] = Cardinality(Used(w, p))

Formed(w) == Lined(w) /\ Counted(w) /\ \A p \in Pools : FreedOn(w, p, Spare(w, p))

(* Slot i of pool q was taken off its free list. *)
Beyond(w, q, i) == [p \in Pools |-> IF p = q THEN Spare(w, p) \ {i} ELSE Spare(w, p)]
FormedBut(w, q, i) == Lined(w) /\ Counted(w) /\ \A p \in Pools : FreedOn(w, p, Beyond(w, q, i)[p])

(* A graph that is set up. *)
Good(w) == Kept(w) /\ Formed(w)

(* Memory and settings are the same. *)
Frame(w, u) ==
  /\ u \in Worlds /\ u.bytes = w.bytes /\ u.outstanding = w.outstanding /\ u.contract = w.contract
  /\ u.cb.capacity = w.cb.capacity /\ u.cb.initial = w.cb.initial /\ u.cb.max = w.cb.max
  /\ u.cb.allocator = w.cb.allocator /\ u.cb.weighted = w.cb.weighted /\ u.cb.growable = w.cb.growable
  /\ u.cb.weight_capacity = w.cb.weight_capacity /\ u.cb.work_capacity = w.cb.work_capacity
  /\ u.cb.visited_words = w.cb.visited_words

(* The slots lie below the marks, and the edges in use have their weights. *)
Covered(u) ==
  /\ \A p \in Pools : DOMAIN u[p] = 0 .. u.cb.watermark[p] - 1 /\ u.cb.watermark[p] <= u.cb.capacity[p]
  /\ DOMAIN u.weights \subseteq 0 .. u.cb.watermark.edges - 1
  /\ u.cb.weighted => \A e \in DOMAIN u.edges : u.edges[e].active => e \in DOMAIN u.weights

LEMMA KeptOn ==
  ASSUME NEW w, Kept(w), NEW u, Frame(w, u), Covered(u)
  PROVE  Kept(u)
<1>1. Sound(w) /\ Settled(w.cb) /\ Capped(w.cb) /\ Furnished(w)
  BY DEF Kept
<1>2. Balanced(u)
  BY <1>1 DEF Sound, Balanced, Frame
<1>3. Sound(u)
  BY <1>1, <1>2 DEF Sound, Frame, Covered
<1>4. Settled(u.cb) /\ Capped(u.cb)
  BY <1>1 DEF Settled, Capped, Frame
<1>5. Furnished(u)
  BY <1>1 DEF Furnished, Fitted, Roomy, Frame
<1> QED
  BY <1>3, <1>4, <1>5 DEF Kept

(* The states differ in nothing but their history and their update phase. *)
Twin(w, u) ==
  /\ Frame(w, u) /\ u.vertices = w.vertices /\ u.edges = w.edges /\ u.weights = w.weights
  /\ u.cb.count = w.cb.count /\ u.cb.free = w.cb.free /\ u.cb.watermark = w.cb.watermark

LEMMA SlotsFacts ==
  ASSUME NEW w, Kept(w)
  PROVE  /\ w \in Worlds /\ NoIndex \in Nat /\ Covered(w)
         /\ \A p \in Pools : /\ NoIndex \notin DOMAIN w[p] /\ DOMAIN w[p] = 0 .. w.cb.watermark[p] - 1
                             /\ w.cb.watermark[p] \in Nat /\ DOMAIN w[p] \subseteq Nat
                             /\ Used(w, p) \subseteq DOMAIN w[p] /\ Spare(w, p) \subseteq DOMAIN w[p]
                             /\ IsFiniteSet(DOMAIN w[p]) /\ IsFiniteSet(Used(w, p))
                             /\ Cardinality(DOMAIN w[p]) = w.cb.watermark[p]
         /\ DOMAIN w.vertices = DOMAIN w["vertices"] /\ DOMAIN w.edges = DOMAIN w["edges"]
<1>1. w \in Worlds /\ NoIndex \in Nat /\ NoIndex > MaxCapacity /\ MaxCapacity \in Nat /\ Covered(w)
  BY PoolAssumption DEF Kept, Sound, Covered
<1>2. ASSUME NEW p \in Pools
      PROVE  /\ NoIndex \notin DOMAIN w[p] /\ DOMAIN w[p] = 0 .. w.cb.watermark[p] - 1
             /\ w.cb.watermark[p] \in Nat /\ DOMAIN w[p] \subseteq Nat
             /\ Used(w, p) \subseteq DOMAIN w[p] /\ Spare(w, p) \subseteq DOMAIN w[p]
             /\ IsFiniteSet(DOMAIN w[p]) /\ IsFiniteSet(Used(w, p))
             /\ Cardinality(DOMAIN w[p]) = w.cb.watermark[p]
  <2>1. w.cb.watermark[p] \in Nat /\ w.cb.capacity[p] \in Nat /\ w.cb.capacity[p] <= MaxCapacity
        /\ w.cb.watermark[p] <= w.cb.capacity[p] /\ DOMAIN w[p] = 0 .. w.cb.watermark[p] - 1
    BY KeptFacts DEF Kept, Sound
  <2>2. NoIndex \notin DOMAIN w[p] /\ DOMAIN w[p] \subseteq Nat
    BY <1>1, <2>1
  <2>3. IsFiniteSet(DOMAIN w[p]) /\ Cardinality(DOMAIN w[p]) = w.cb.watermark[p]
    BY <2>1, CountTo
  <2>4. Used(w, p) \subseteq DOMAIN w[p] /\ Spare(w, p) \subseteq DOMAIN w[p]
    BY DEF Used, Spare
  <2>5. IsFiniteSet(Used(w, p))
    BY <2>3, <2>4, SubsetFinite
  <2> QED
    BY <2>1, <2>2, <2>3, <2>4, <2>5
<1> QED
  BY <1>1, <1>2

LEMMA LinkedSame ==
  ASSUME NEW w, NEW u, NEW V, NEW E, u.vertices = w.vertices, u.edges = w.edges, LinkedOn(w, V, E)
  PROVE  LinkedOn(u, V, E)
<1>1. \A l \in Lists : View(u, l) = View(w, l)
  BY DEF View
<1> QED
  BY <1>1 DEF LinkedOn, OnLists

LEMMA UsedSame ==
  ASSUME NEW w, NEW u, u.vertices = w.vertices, u.edges = w.edges, NEW p \in Pools
  PROVE  u[p] = w[p] /\ Used(u, p) = Used(w, p) /\ Spare(u, p) = Spare(w, p)
         /\ \A i \in DOMAIN w[p] : FreeLink(u, p, i) = FreeLink(w, p, i)
<1>1. u[p] = w[p]
  BY PoolNames
<1> QED
  BY <1>1 DEF Used, Spare, FreeLink

LEMMA FormedSame ==
  ASSUME NEW w, NEW u, u.vertices = w.vertices, u.edges = w.edges, u.cb.count = w.cb.count, u.cb.free = w.cb.free
  PROVE  /\ Formed(w) => Formed(u)
         /\ \A q, i : FormedBut(w, q, i) => FormedBut(u, q, i)
<1>1. \A p \in Pools : u[p] = w[p] /\ Used(u, p) = Used(w, p) /\ Spare(u, p) = Spare(w, p)
  BY UsedSame
<1>2. \A p \in Pools : \A F : FreedOn(w, p, F) => FreedOn(u, p, F)
  <2>1. \A p \in Pools : FreeLinks(u, p) = FreeLinks(w, p)
    BY <1>1 DEF FreeLinks, FreeLink
  <2> QED
    BY <2>1 DEF FreedOn
<1>3. Lined(w) => Lined(u)
  BY <1>1, PoolNames, LinkedSame DEF Lined
<1>4. Counted(w) => Counted(u)
  BY <1>1 DEF Counted
<1>5. \A q, i : Beyond(u, q, i) = Beyond(w, q, i)
  BY <1>1 DEF Beyond
<1> QED
  BY <1>1, <1>2, <1>3, <1>4, <1>5 DEF Formed, FormedBut

LEMMA TwinFacts ==
  ASSUME NEW w, Kept(w), NEW u, Twin(w, u)
  PROVE  Kept(u) /\ (Formed(w) => Formed(u)) /\ (\A p \in Pools : u[p] = w[p] /\ Used(u, p) = Used(w, p))
<1>1. \A p \in Pools : u[p] = w[p] /\ Used(u, p) = Used(w, p)
  BY UsedSame DEF Twin
<1>2. Covered(u)
  <2>1. Covered(w)
    BY SlotsFacts
  <2> QED
    BY <1>1, <2>1 DEF Covered, Twin, Frame
<1>3. Kept(u)
  BY <1>2, KeptOn DEF Twin
<1> QED
  BY <1>1, <1>3, FormedSame DEF Twin

(***************************************************************************)
(* Version and update phase.                                               *)
(***************************************************************************)
(* The history and the update phase of a state. *)
Phased(w, in_update, update_dirty, steps, touched) ==
  [w EXCEPT !.cb.in_update = in_update, !.cb.update_dirty = update_dirty, !.steps = steps, !.touched = touched]

LEMMA PhaseTwin ==
  ASSUME NEW w \in Worlds, NEW in_update \in BOOLEAN, NEW update_dirty \in BOOLEAN,
         NEW steps \in Int, NEW touched \in BOOLEAN, NEW u, u = Phased(w, in_update, update_dirty, steps, touched)
  PROVE  Twin(w, u) /\ u.calls = w.calls
<1> DEFINE cb == [w.cb EXCEPT !.in_update = in_update, !.update_dirty = update_dirty]
<1>1. w.cb \in ControlBlocks
  BY WorldFacts
<1>2. /\ cb \in ControlBlocks /\ cb.capacity = w.cb.capacity /\ cb.initial = w.cb.initial /\ cb.max = w.cb.max
      /\ cb.allocator = w.cb.allocator /\ cb.weighted = w.cb.weighted /\ cb.growable = w.cb.growable
      /\ cb.weight_capacity = w.cb.weight_capacity /\ cb.work_capacity = w.cb.work_capacity
      /\ cb.visited_words = w.cb.visited_words
      /\ cb.count = w.cb.count /\ cb.free = w.cb.free /\ cb.watermark = w.cb.watermark
  BY <1>1 DEF ControlBlocks
<1>3. u = [w EXCEPT !.cb = cb, !.steps = steps, !.touched = touched]
  BY DEF Worlds, Phased
<1> HIDE DEF cb
<1>4. /\ u \in Worlds /\ u.cb = cb /\ u.vertices = w.vertices /\ u.edges = w.edges /\ u.weights = w.weights
      /\ u.bytes = w.bytes /\ u.outstanding = w.outstanding /\ u.contract = w.contract /\ u.calls = w.calls
  BY <1>2, <1>3 DEF Worlds
<1> QED
  BY <1>2, <1>4 DEF Twin, Frame

LEMMA Plain ==
  ASSUME NEW w \in Worlds
  PROVE  /\ w.cb.in_update \in BOOLEAN /\ w.cb.update_dirty \in BOOLEAN /\ w.steps \in Int /\ w.touched \in BOOLEAN
         /\ w = Phased(w, w.cb.in_update, w.cb.update_dirty, w.steps, w.touched)
<1>1. w.cb \in ControlBlocks
  BY WorldFacts
<1>2. w.cb = [w.cb EXCEPT !.in_update = w.cb.in_update, !.update_dirty = w.cb.update_dirty]
  BY <1>1 DEF ControlBlocks
<1> QED
  BY <1>1, <1>2, CbFacts DEF Worlds, Phased

LEMMA TouchTwin ==
  ASSUME NEW w \in Worlds
  PROVE  Twin(w, Touch(w)) /\ Touch(w).calls = w.calls
<1> DEFINE yes == TRUE
<1>1. w.cb.in_update \in BOOLEAN /\ w.cb.update_dirty \in BOOLEAN /\ w.steps \in Int /\ w.steps + 1 \in Int /\ w.touched \in BOOLEAN
  BY Plain
<1>2. CASE w.cb.in_update
  <2>1. Touch(w) = Phased(w, w.cb.in_update, yes, w.steps, yes)
    <3>1. w.cb = [w.cb EXCEPT !.in_update = w.cb.in_update]
      BY WorldFacts DEF ControlBlocks
    <3> QED
      BY <1>2, <3>1 DEF Touch, Phased, Worlds
  <2>2. yes \in BOOLEAN
    OBVIOUS
  <2> HIDE DEF yes
  <2> QED
    BY <1>1, <2>1, <2>2, PhaseTwin
<1>3. CASE ~w.cb.in_update
  <2> DEFINE more == w.steps + 1
  <2>1. Touch(w) = Phased(w, w.cb.in_update, w.cb.update_dirty, more, yes)
    <3>1. w.cb = [w.cb EXCEPT !.in_update = w.cb.in_update, !.update_dirty = w.cb.update_dirty]
      BY WorldFacts DEF ControlBlocks
    <3> QED
      BY <1>3, <3>1 DEF Touch, Phased, Worlds
  <2>2. yes \in BOOLEAN /\ more \in Int
    BY <1>1
  <2> HIDE DEF yes, more
  <2> QED
    BY <1>1, <2>1, <2>2, PhaseTwin
<1> QED
  BY <1>2, <1>3

(* What dv_graph_begin_update makes of a state. *)
Begun(w) == [w EXCEPT !.cb.in_update = TRUE, !.cb.update_dirty = FALSE]

LEMMA PhaseFacts ==
  ASSUME NEW w \in Worlds, NEW outer \in BOOLEAN
  PROVE  /\ Twin(w, ClosePhase(w)) /\ ClosePhase(w).calls = w.calls
         /\ Twin(w, BatchBegin(w)) /\ BatchBegin(w).calls = w.calls
         /\ Twin(w, BatchEnd(w, outer)) /\ BatchEnd(w, outer).calls = w.calls
         /\ Twin(w, Begun(w))
<1>1. w.cb.in_update \in BOOLEAN /\ w.cb.update_dirty \in BOOLEAN /\ w.steps \in Int /\ w.steps + 1 \in Int /\ w.touched \in BOOLEAN
      /\ w.cb \in ControlBlocks
  BY Plain, WorldFacts
<1> DEFINE yes == TRUE
           no == FALSE
<1>8. yes \in BOOLEAN /\ no \in BOOLEAN
  OBVIOUS
<1>2. Twin(w, ClosePhase(w)) /\ ClosePhase(w).calls = w.calls
  <2> DEFINE steps == IF w.cb.update_dirty THEN w.steps + 1 ELSE w.steps
  <2>1. steps \in Int
    BY <1>1
  <2>2. ClosePhase(w) = Phased(w, no, no, steps, w.touched)
    BY DEF ClosePhase, Phased, Worlds
  <2> HIDE DEF steps, yes, no
  <2> QED
    BY <1>1, <1>8, <2>1, <2>2, PhaseTwin
<1>3. Twin(w, BatchBegin(w)) /\ BatchBegin(w).calls = w.calls
  <2>1. [w.cb EXCEPT !.in_update = TRUE] = [w.cb EXCEPT !.in_update = TRUE, !.update_dirty = w.cb.update_dirty]
    BY <1>1 DEF ControlBlocks
  <2>2. BatchBegin(w) = Phased(w, yes, w.cb.update_dirty, w.steps, w.touched)
    BY <2>1 DEF BatchBegin, Phased, Worlds
  <2> HIDE DEF yes
  <2> QED
    BY <1>1, <1>8, <2>2, PhaseTwin
<1>4. Twin(w, w)
  BY <1>1, Plain, PhaseTwin
<1>5. Twin(w, BatchEnd(w, outer)) /\ BatchEnd(w, outer).calls = w.calls
  BY <1>2, <1>4 DEF BatchEnd
<1>6. Twin(w, Begun(w))
  <2>1. Begun(w) = Phased(w, yes, no, w.steps, w.touched)
    BY DEF Begun, Phased, Worlds
  <2> HIDE DEF yes, no
  <2> QED
    BY <1>1, <1>8, <2>1, PhaseTwin
<1> QED
  BY <1>2, <1>3, <1>5, <1>6
(***************************************************************************)
(* What a call does to the slots that a caller may hold handles of.        *)
(***************************************************************************)
(* A fixed graph keeps its memory. *)
Quiet(w, u) == u.cb.growable = w.cb.growable /\ (~w.cb.growable => u.calls = w.calls)

Adds(w, u) ==
  \A p \in Pools : \A i \in DOMAIN w[p] :
    /\ i \in DOMAIN u[p] /\ u[p][i].generation = w[p][i].generation
    /\ w[p][i].active => u[p][i].active

Retires(w, u) ==
  \A p \in Pools : \A i \in DOMAIN w[p] :
    /\ i \in DOMAIN u[p] /\ (u[p][i].active => w[p][i].active)
    /\ u[p][i].generation = IF w[p][i].active /\ ~u[p][i].active THEN Bump(w[p][i].generation)
                            ELSE w[p][i].generation

(* A slot that is retired is on its next generation. *)
Ages(w, u) ==
  \A p \in Pools : \A i \in DOMAIN w[p] :
    /\ i \in DOMAIN u[p]
    /\ u[p][i].generation = IF w[p][i].active /\ ~u[p][i].active THEN Bump(w[p][i].generation)
                            ELSE w[p][i].generation

LEMMA AgesFacts ==
  ASSUME NEW w, NEW u
  PROVE  (Adds(w, u) => Ages(w, u)) /\ (Retires(w, u) => Ages(w, u))
  BY DEF Adds, Retires, Ages

LEMMA AddsOn ==
  ASSUME NEW w, NEW u, NEW v, Adds(w, u), Adds(u, v)
  PROVE  Adds(w, v)
  BY DEF Adds

LEMMA RetiresOn ==
  ASSUME NEW w, NEW u, NEW v, Retires(w, u), Retires(u, v)
  PROVE  Retires(w, v)
  BY DEF Retires

LEMMA QuietOn ==
  ASSUME NEW w, NEW u, NEW v, Quiet(w, u), Quiet(u, v)
  PROVE  Quiet(w, v)
  BY DEF Quiet

LEMMA SameSlots ==
  ASSUME NEW w, NEW u, u.vertices = w.vertices, u.edges = w.edges
  PROVE  Adds(w, u) /\ Retires(w, u)
<1>1. \A p \in Pools : u[p] = w[p]
  BY UsedSame
<1> QED
  BY <1>1 DEF Adds, Retires

(* The links of V and E are the same. *)
SameLinks(w, u, V, E) ==
  /\ \A e \in E : /\ e \in DOMAIN w.edges /\ e \in DOMAIN u.edges
                  /\ u.edges[e].src = w.edges[e].src /\ u.edges[e].dst = w.edges[e].dst
                  /\ u.edges[e].next = w.edges[e].next /\ u.edges[e].prev = w.edges[e].prev
  /\ \A v \in V : /\ v \in DOMAIN w.vertices /\ v \in DOMAIN u.vertices
                  /\ u.vertices[v].head = w.vertices[v].head /\ u.vertices[v].tail = w.vertices[v].tail
                  /\ u.vertices[v].degree = w.vertices[v].degree

LEMMA LinkedFrom ==
  ASSUME NEW w, NEW u, NEW V, NEW E, LinkedOn(w, V, E), SameLinks(w, u, V, E)
  PROVE  LinkedOn(u, V, E)
<1>1. PICK st, hi : Ordered(E, st, hi) /\ OnLists(w, V, E, st)
  BY DEF LinkedOn
<1>2. ASSUME NEW l \in Lists PROVE Threads(View(u, l), V, E, st)
  <2>1. Threads(View(w, l), V, E, st) /\ Stamped(E, st)
    BY <1>1 DEF OnLists, Ordered
  <2>2. \A e \in E : EndOf(u.edges[e], l) = EndOf(w.edges[e], l)
    BY DEF SameLinks, EndOf
  <2>3. \A e \in E : /\ View(u, l).ends[e] = View(w, l).ends[e]
                     /\ View(u, l).next[e] = View(w, l).next[e]
                     /\ View(u, l).prev[e] = View(w, l).prev[e]
    BY <2>2, ViewFacts DEF SameLinks
  <2>4. \A v \in V : /\ View(u, l).head[v] = View(w, l).head[v]
                     /\ View(u, l).tail[v] = View(w, l).tail[v]
                     /\ View(u, l).degree[v] = View(w, l).degree[v]
    BY ViewFacts DEF SameLinks
  <2> QED
    BY <2>1, <2>3, <2>4, ThreadsSame
<1>3. OnLists(u, V, E, st)
  BY <1>2 DEF OnLists
<1> QED
  BY <1>1, <1>3 DEF LinkedOn

(***************************************************************************)
(* Taking a slot.                                                          *)
(***************************************************************************)
Taken(w, u, p, i) ==
  /\ Kept(u) /\ FormedBut(u, p, i) /\ i \in Spare(u, p) /\ Adds(w, u)
  /\ \A q \in Pools : Used(u, q) = Used(w, q)

Popped(w, p) == [w EXCEPT !.cb.free[p] = FreeLink(w, p, w.cb.free[p])]

LEMMA FreeWritten ==
  ASSUME NEW w \in Worlds, NEW p \in Pools, NEW i \in Nat, NEW u, u = [w EXCEPT !.cb.free[p] = i]
  PROVE  /\ Frame(w, u) /\ u.vertices = w.vertices /\ u.edges = w.edges /\ u.weights = w.weights
         /\ u.cb.count = w.cb.count /\ u.cb.watermark = w.cb.watermark /\ u.calls = w.calls
         /\ \A q \in Pools : u.cb.free[q] = IF q = p THEN i ELSE w.cb.free[q]
<1> DEFINE cb == [w.cb EXCEPT !.free[p] = i]
<1>1. w.cb \in ControlBlocks
  BY WorldFacts
<1>2. w.cb.free \in [Pools -> Nat]
  BY <1>1 DEF ControlBlocks
<1>3. [w.cb.free EXCEPT ![p] = i] \in [Pools -> Nat]
  BY <1>2
<1>4. /\ cb \in ControlBlocks /\ cb.capacity = w.cb.capacity /\ cb.initial = w.cb.initial /\ cb.max = w.cb.max
      /\ cb.allocator = w.cb.allocator /\ cb.weighted = w.cb.weighted /\ cb.growable = w.cb.growable
      /\ cb.weight_capacity = w.cb.weight_capacity /\ cb.work_capacity = w.cb.work_capacity
      /\ cb.visited_words = w.cb.visited_words
      /\ cb.count = w.cb.count /\ cb.free = [w.cb.free EXCEPT ![p] = i] /\ cb.watermark = w.cb.watermark
  BY <1>1, <1>3 DEF ControlBlocks
<1>5. u = [w EXCEPT !.cb = cb]
  BY DEF Worlds
<1> HIDE DEF cb
<1>6. /\ u \in Worlds /\ u.cb = cb /\ u.vertices = w.vertices /\ u.edges = w.edges /\ u.weights = w.weights
      /\ u.bytes = w.bytes /\ u.outstanding = w.outstanding /\ u.contract = w.contract /\ u.calls = w.calls
  BY <1>4, <1>5 DEF Worlds
<1> QED
  BY <1>2, <1>4, <1>6 DEF Frame

LEMMA PopTaken ==
  ASSUME NEW w, Good(w), NEW p \in Pools, NEW i, w.cb.free[p] = i, i # NoIndex, NEW u, u = Popped(w, p)
  PROVE  Taken(w, u, p, i) /\ u.calls = w.calls /\ Quiet(w, u)
<1>1. Kept(w) /\ Formed(w) /\ w \in Worlds
  BY SlotsFacts DEF Good
<1>2. FreedOn(w, p, Spare(w, p)) /\ Spare(w, p) \subseteq DOMAIN w[p]
  BY <1>1, SlotsFacts DEF Formed
<1>3. i \in Spare(w, p)
  <2>1. PICK st, lo : Chained(Spare(w, p), st, FreeLinks(w, p), w.cb.free[p])
    BY <1>2 DEF FreedOn
  <2> QED
    BY <2>1 DEF Chained, Leads
<1>4. FreeLink(w, p, i) \in Nat
  <2>1. i \in DOMAIN w[p] /\ "out" \in Lists
    BY <1>2, <1>3 DEF Lists
  <2> QED
    BY <1>1, <2>1, LinkFacts, PoolNames DEF FreeLink
<1> DEFINE link == FreeLink(w, p, i)
<1>5. u = [w EXCEPT !.cb.free[p] = link] /\ link \in Nat
  BY <1>4 DEF Popped
<1>a. link = FreeLink(w, p, i)
  OBVIOUS
<1> HIDE DEF link
<1>6. /\ Frame(w, u) /\ u.vertices = w.vertices /\ u.edges = w.edges /\ u.weights = w.weights
      /\ u.cb.count = w.cb.count /\ u.cb.watermark = w.cb.watermark /\ u.calls = w.calls
      /\ \A q \in Pools : u.cb.free[q] = IF q = p THEN link ELSE w.cb.free[q]
  BY <1>1, <1>5, FreeWritten
<1>7. \A q \in Pools : u[q] = w[q] /\ Used(u, q) = Used(w, q) /\ Spare(u, q) = Spare(w, q)
        /\ \A j \in DOMAIN w[q] : FreeLink(u, q, j) = FreeLink(w, q, j)
  BY <1>6, UsedSame
<1>8. Kept(u)
  <2>1. Covered(w)
    BY <1>1, SlotsFacts
  <2>2. Covered(u)
    BY <1>6, <1>7, <2>1 DEF Covered, Frame
  <2> QED
    BY <1>1, <1>6, <2>2, KeptOn
<1>9. Lined(u) /\ Counted(u)
  <2>1. Lined(w) /\ Counted(w)
    BY <1>1 DEF Formed
  <2>2. Lined(u)
    BY <1>6, <1>7, <2>1, PoolNames, LinkedSame DEF Lined
  <2> QED
    BY <1>6, <1>7, <2>1, <2>2 DEF Counted
<1>10. ASSUME NEW q \in Pools PROVE FreedOn(u, q, Beyond(u, p, i)[q])
  <2>1. CASE q = p
    <3>1. FreedOn(u, p, Spare(w, p) \ {i})
      <4>1. /\ \A f \in Spare(w, p) : FreeLink(u, p, f) = FreeLink(w, p, f)
            /\ u.cb.free[p] = FreeLink(w, p, i) /\ Spare(w, p) \subseteq DOMAIN u[p]
        BY <1>2, <1>6, <1>7, <1>a
      <4> QED
        BY <1>2, <4>1, FreedPop
    <3>2. Beyond(u, p, i)[q] = Spare(w, p) \ {i}
      BY <1>7, <2>1 DEF Beyond
    <3> QED
      BY <2>1, <3>1, <3>2
  <2>2. CASE q # p
    <3>1. FreedOn(w, q, Spare(w, q)) /\ Spare(w, q) \subseteq DOMAIN w[q] /\ Spare(w, q) \subseteq DOMAIN u[q]
          /\ (\A f \in Spare(w, q) : FreeLink(u, q, f) = FreeLink(w, q, f)) /\ u.cb.free[q] = w.cb.free[q]
      BY <1>1, <1>6, <1>7, <2>2, SlotsFacts DEF Formed
    <3>2. FreedOn(u, q, Spare(w, q))
      BY <3>1, FreedSame
    <3>3. Beyond(u, p, i)[q] = Spare(w, q)
      BY <1>7, <2>2 DEF Beyond
    <3> QED
      BY <3>2, <3>3
  <2> QED
    BY <2>1, <2>2
<1>11. Adds(w, u)
  BY <1>6, SameSlots
<1>12. Quiet(w, u)
  BY <1>6 DEF Quiet, Frame
<1> QED
  BY <1>3, <1>6, <1>7, <1>8, <1>9, <1>10, <1>11, <1>12 DEF Taken, FormedBut
(* A slot above the mark is taken. *)
Freshened(w, p) ==
  [w EXCEPT !.cb.watermark[p] = @ + 1, ![p] = Extend(@, w.cb.watermark[p], FirstUse(p))]

FreshSlot(w, u, p, i, x) ==
  /\ Frame(w, u) /\ u.weights = w.weights /\ u.cb.count = w.cb.count /\ u.cb.free = w.cb.free /\ u.calls = w.calls
  /\ \A q \in Pools : u.cb.watermark[q] = IF q = p THEN i + 1 ELSE w.cb.watermark[q]
  /\ \A q \in Pools \ {p} : u[q] = w[q]
  /\ DOMAIN u[p] = 0 .. i /\ u[p][i] = x /\ \A j \in DOMAIN w[p] : u[p][j] = w[p][j]

Extended(S, f, i, x, g) ==
  /\ g \in PoolOf(S) /\ DOMAIN g = 0 .. i /\ g[i] = x
  /\ \A j \in DOMAIN f : g[j] = f[j]

LEMMA ExtendFacts ==
  ASSUME NEW S, NEW i \in Nat, NEW f, f \in [DOMAIN f -> S], DOMAIN f = 0 .. i - 1, NEW x \in S,
         NEW g, g = Extend(f, i, x)
  PROVE  Extended(S, f, i, x, g)
<1>1. DOMAIN f \cup {i} = 0 .. (i + 1) - 1 /\ (i + 1) - 1 = i /\ i + 1 \in Nat /\ i \notin DOMAIN f
  OBVIOUS
<1>2. g = [j \in 0 .. i |-> IF j = i THEN x ELSE f[j]]
  BY <1>1 DEF Extend
<1>3. g \in [0 .. (i + 1) - 1 -> S]
  BY <1>1, <1>2
<1>4. g \in PoolOf(S)
  BY <1>1, <1>3 DEF PoolOf
<1>5. DOMAIN g = 0 .. i /\ g[i] = x /\ \A j \in DOMAIN f : g[j] = f[j]
  BY <1>1, <1>2
<1> QED
  BY <1>4, <1>5 DEF Extended

LEMMA FirstUseFacts ==
  /\ FirstUse("vertices") \in VertexSlots /\ FirstUse("edges") \in EdgeSlots
  /\ \A p \in Pools : FirstUse(p).active = FALSE
<1>1. NoIndex \in Nat /\ 1 \in 1 .. GenMax /\ NoLinks \in [Lists -> Nat] /\ [l \in Lists |-> 0] \in [Lists -> Int]
  BY PoolAssumption DEF NoLinks
<1> QED
  BY <1>1 DEF FirstUse, VertexSlots, EdgeSlots

LEMMA MarkWritten ==
  ASSUME NEW w \in Worlds, NEW p \in Pools, NEW i \in Nat, NEW cb, cb = [w.cb EXCEPT !.watermark[p] = i]
  PROVE  /\ cb \in ControlBlocks /\ cb.capacity = w.cb.capacity /\ cb.initial = w.cb.initial /\ cb.max = w.cb.max
         /\ cb.allocator = w.cb.allocator /\ cb.weighted = w.cb.weighted /\ cb.growable = w.cb.growable
         /\ cb.weight_capacity = w.cb.weight_capacity /\ cb.work_capacity = w.cb.work_capacity
         /\ cb.visited_words = w.cb.visited_words /\ cb.count = w.cb.count /\ cb.free = w.cb.free
         /\ \A q \in Pools : cb.watermark[q] = IF q = p THEN i ELSE w.cb.watermark[q]
<1>1. w.cb \in ControlBlocks
  BY WorldFacts
<1>2. w.cb.watermark \in [Pools -> Nat]
  BY <1>1 DEF ControlBlocks
<1>3. [w.cb.watermark EXCEPT ![p] = i] \in [Pools -> Nat]
  BY <1>2
<1> QED
  BY <1>1, <1>2, <1>3 DEF ControlBlocks

LEMMA FreshWritten ==
  ASSUME NEW w, Kept(w), NEW p \in Pools, NEW i, i = w.cb.watermark[p], NEW u, u = Freshened(w, p)
  PROVE  FreshSlot(w, u, p, i, FirstUse(p))
<1> DEFINE cb == [w.cb EXCEPT !.watermark[p] = i + 1]
           x == FirstUse(p)
           pool == Extend(w[p], i, x)
<1>1. w \in Worlds /\ i \in Nat /\ i + 1 \in Nat /\ DOMAIN w[p] = 0 .. i - 1
  BY SlotsFacts
<1>2. /\ cb \in ControlBlocks /\ cb.capacity = w.cb.capacity /\ cb.initial = w.cb.initial /\ cb.max = w.cb.max
      /\ cb.allocator = w.cb.allocator /\ cb.weighted = w.cb.weighted /\ cb.growable = w.cb.growable
      /\ cb.weight_capacity = w.cb.weight_capacity /\ cb.work_capacity = w.cb.work_capacity
      /\ cb.visited_words = w.cb.visited_words /\ cb.count = w.cb.count /\ cb.free = w.cb.free
      /\ \A q \in Pools : cb.watermark[q] = IF q = p THEN i + 1 ELSE w.cb.watermark[q]
  BY <1>1, MarkWritten
<1>3. u = [w EXCEPT !.cb = cb, ![p] = pool]
  BY PoolNames DEF Freshened, Worlds, Pools
<1> HIDE DEF cb
<1>4. CASE p = "vertices"
  <2>1. w.vertices \in [0 .. i - 1 -> VertexSlots]
    BY <1>1, <1>4, WorldFacts
  <2>2. /\ pool \in PoolOf(VertexSlots) /\ DOMAIN pool = 0 .. i /\ pool[i] = x
        /\ \A j \in 0 .. i - 1 : pool[j] = w.vertices[j]
    <3> DEFINE f == w.vertices
    <3>1. f \in [DOMAIN f -> VertexSlots] /\ DOMAIN f = 0 .. i - 1 /\ x \in VertexSlots /\ pool = Extend(f, i, x)
      BY <1>4, <2>1, FirstUseFacts
    <3> HIDE DEF f, x, pool
    <3>2. Extended(VertexSlots, f, i, x, pool)
      BY <1>1, <3>1, ExtendFacts
    <3> QED
      BY <3>1, <3>2 DEF f, Extended
  <2> HIDE DEF pool, x
  <2>3. /\ u \in Worlds /\ u.cb = cb /\ u.vertices = pool /\ u.edges = w.edges /\ u.weights = w.weights
        /\ u.bytes = w.bytes /\ u.outstanding = w.outstanding /\ u.contract = w.contract /\ u.calls = w.calls
    BY <1>1, <1>2, <1>3, <1>4, <2>2 DEF Worlds
  <2>4. u[p] = pool /\ \A q \in Pools \ {p} : u[q] = w[q]
    BY <1>4, <2>3, PoolNames
  <2>5. Frame(w, u)
    BY <1>2, <2>3 DEF Frame
  <2>6. w[p] = w.vertices
    BY <1>4
  <2>7. FreshSlot(w, u, p, i, x)
    BY <1>1, <1>2, <2>2, <2>3, <2>4, <2>5, <2>6 DEF FreshSlot
  <2> QED
    BY <2>7 DEF x
<1>5. CASE p = "edges"
  <2>1. w.edges \in [0 .. i - 1 -> EdgeSlots]
    BY <1>1, <1>5, WorldFacts
  <2>2. /\ pool \in PoolOf(EdgeSlots) /\ DOMAIN pool = 0 .. i /\ pool[i] = x
        /\ \A j \in 0 .. i - 1 : pool[j] = w.edges[j]
    <3> DEFINE f == w.edges
    <3>1. f \in [DOMAIN f -> EdgeSlots] /\ DOMAIN f = 0 .. i - 1 /\ x \in EdgeSlots /\ pool = Extend(f, i, x)
      BY <1>5, <2>1, FirstUseFacts
    <3> HIDE DEF f, x, pool
    <3>2. Extended(EdgeSlots, f, i, x, pool)
      BY <1>1, <3>1, ExtendFacts
    <3> QED
      BY <3>1, <3>2 DEF f, Extended
  <2> HIDE DEF pool, x
  <2>3. /\ u \in Worlds /\ u.cb = cb /\ u.edges = pool /\ u.vertices = w.vertices /\ u.weights = w.weights
        /\ u.bytes = w.bytes /\ u.outstanding = w.outstanding /\ u.contract = w.contract /\ u.calls = w.calls
    BY <1>1, <1>2, <1>3, <1>5, <2>2 DEF Worlds
  <2>4. u[p] = pool /\ \A q \in Pools \ {p} : u[q] = w[q]
    BY <1>5, <2>3, PoolNames
  <2>5. Frame(w, u)
    BY <1>2, <2>3 DEF Frame
  <2>6. w[p] = w.edges
    BY <1>5
  <2>7. FreshSlot(w, u, p, i, x)
    BY <1>1, <1>2, <2>2, <2>3, <2>4, <2>5, <2>6 DEF FreshSlot
  <2> QED
    BY <2>7 DEF x
<1>6. FreshSlot(w, u, p, i, x)
  BY <1>4, <1>5, PoolNames
<1> QED
  BY <1>6

LEMMA FreshTaken ==
  ASSUME NEW w, Good(w), NEW p \in Pools, w.cb.free[p] = NoIndex, w.cb.watermark[p] < w.cb.capacity[p],
         NEW i, i = w.cb.watermark[p], NEW u, u = Freshened(w, p)
  PROVE  Taken(w, u, p, i) /\ u.calls = w.calls /\ Quiet(w, u)
<1>1. Kept(w) /\ Formed(w) /\ w \in Worlds
  BY SlotsFacts DEF Good
<1>2. FreshSlot(w, u, p, i, FirstUse(p))
  BY <1>1, FreshWritten
<1> DEFINE x == FirstUse(p)
<1>3. /\ Frame(w, u) /\ u.weights = w.weights /\ u.cb.count = w.cb.count /\ u.cb.free = w.cb.free /\ u.calls = w.calls
      /\ \A q \in Pools : u.cb.watermark[q] = IF q = p THEN i + 1 ELSE w.cb.watermark[q]
      /\ \A q \in Pools \ {p} : u[q] = w[q]
      /\ DOMAIN u[p] = 0 .. i /\ u[p][i] = x /\ \A j \in DOMAIN w[p] : u[p][j] = w[p][j]
  BY <1>2 DEF FreshSlot
<1>4. x.active = FALSE
  BY FirstUseFacts
<1> HIDE DEF x
<1>5. i \in Nat /\ DOMAIN w[p] = 0 .. i - 1 /\ DOMAIN u[p] = DOMAIN w[p] \cup {i} /\ i \notin DOMAIN w[p]
  BY <1>1, <1>3, SlotsFacts
<1>6. \A q \in Pools : /\ DOMAIN w[q] \subseteq DOMAIN u[q] /\ \A j \in DOMAIN w[q] : u[q][j] = w[q][j]
                       /\ Used(u, q) = Used(w, q)
  <2>1. ASSUME NEW q \in Pools PROVE DOMAIN w[q] \subseteq DOMAIN u[q] /\ \A j \in DOMAIN w[q] : u[q][j] = w[q][j]
    BY <1>3, <1>5
  <2>2. Used(u, p) = Used(w, p)
    BY <1>3, <1>4, <1>5 DEF Used
  <2>3. \A q \in Pools \ {p} : Used(u, q) = Used(w, q)
    BY <1>3 DEF Used
  <2> QED
    BY <2>1, <2>2, <2>3
<1>7. Kept(u)
  <2>1. Covered(w)
    BY <1>1, SlotsFacts
  <2>2. \A q \in Pools : DOMAIN u[q] = 0 .. u.cb.watermark[q] - 1 /\ u.cb.watermark[q] <= u.cb.capacity[q]
    <3>1. DOMAIN u[p] = 0 .. u.cb.watermark[p] - 1 /\ u.cb.watermark[p] <= u.cb.capacity[p]
      <4>1. w.cb.capacity[p] \in Nat /\ i < w.cb.capacity[p] /\ u.cb.watermark[p] = i + 1
        BY <1>1, <1>3, KeptFacts
      <4>2. u.cb.capacity[p] = w.cb.capacity[p]
        BY <1>3 DEF Frame
      <4>3. (i + 1) - 1 = i /\ i + 1 <= w.cb.capacity[p]
        BY <1>5, <4>1
      <4> QED
        BY <1>3, <4>1, <4>2, <4>3
    <3>2. \A q \in Pools \ {p} : DOMAIN u[q] = 0 .. u.cb.watermark[q] - 1 /\ u.cb.watermark[q] <= u.cb.capacity[q]
      BY <1>3, <2>1 DEF Covered, Frame
    <3> QED
      BY <3>1, <3>2
  <2>3. DOMAIN u.weights \subseteq 0 .. u.cb.watermark.edges - 1
    <3>1. w.cb.watermark.edges \in Nat /\ u.cb.watermark.edges \in {w.cb.watermark.edges, w.cb.watermark.edges + 1}
      BY <1>1, <1>3, SlotsFacts, PoolNames
    <3>2. DOMAIN u.weights \subseteq 0 .. w.cb.watermark.edges - 1
      BY <1>3, <2>1 DEF Covered
    <3> QED
      BY <3>1, <3>2
  <2>4. u.cb.weighted => \A e \in DOMAIN u.edges : u.edges[e].active => e \in DOMAIN u.weights
    <3>1. Used(u, "edges") = Used(w, "edges") /\ u.cb.weighted = w.cb.weighted
      BY <1>3, <1>6, PoolNames DEF Frame
    <3> QED
      BY <1>3, <2>1, <3>1 DEF Covered, Used
  <2>5. Covered(u)
    BY <2>2, <2>3, <2>4 DEF Covered
  <2> QED
    BY <1>1, <1>3, <2>5, KeptOn
<1>8. Lined(u)
  <2>1. Lined(w) /\ Used(w, "edges") \subseteq DOMAIN w.edges /\ Used(w, "vertices") \subseteq DOMAIN w.vertices
    BY <1>1, SlotsFacts, PoolNames DEF Formed
  <2>2. SameLinks(w, u, Used(w, "vertices"), Used(w, "edges"))
    BY <1>6, <2>1, PoolNames DEF SameLinks
  <2> QED
    BY <1>6, <2>1, <2>2, PoolNames, LinkedFrom DEF Lined
<1>9. Counted(u)
  BY <1>1, <1>3, <1>6 DEF Formed, Counted
<1>10. i \in Spare(u, p) /\ Spare(u, p) = Spare(w, p) \cup {i}
  BY <1>3, <1>4, <1>5, <1>6 DEF Spare, Used
<1>11. ASSUME NEW q \in Pools PROVE FreedOn(u, q, Beyond(u, p, i)[q])
  <2>1. CASE q = p
    <3>1. Spare(w, p) = {}
      BY <1>1, FreedNone DEF Formed
    <3>2. Beyond(u, p, i)[q] = {}
      BY <1>10, <2>1, <3>1 DEF Beyond
    <3>3. u.cb.free[q] = NoIndex
      BY <1>3, <2>1
    <3> QED
      BY <3>2, <3>3, FreedNone
  <2>2. CASE q # p
    <3>1. u[q] = w[q] /\ u.cb.free[q] = w.cb.free[q]
      BY <1>3, <2>2
    <3>2. FreedOn(w, q, Spare(w, q)) /\ Spare(w, q) \subseteq DOMAIN w[q] /\ Spare(u, q) = Spare(w, q)
      BY <1>1, <1>6, <3>1, SlotsFacts DEF Formed, Spare
    <3>3. \A f \in Spare(w, q) : FreeLink(u, q, f) = FreeLink(w, q, f)
      <4>1. CASE q = "vertices"
        BY <3>1, <4>1 DEF FreeLink
      <4>2. CASE q = "edges"
        BY <3>1, <4>2 DEF FreeLink
      <4> QED
        BY <4>1, <4>2, PoolNames
    <3>4. FreedOn(u, q, Spare(w, q))
      BY <3>1, <3>2, <3>3, FreedSame
    <3>5. Beyond(u, p, i)[q] = Spare(w, q)
      BY <2>2, <3>2 DEF Beyond
    <3> QED
      BY <3>4, <3>5
  <2> QED
    BY <2>1, <2>2
<1>12. Adds(w, u)
  BY <1>6 DEF Adds
<1>13. Quiet(w, u)
  BY <1>3 DEF Quiet, Frame
<1> QED
  BY <1>3, <1>6, <1>7, <1>8, <1>9, <1>10, <1>11, <1>12, <1>13 DEF Taken, FormedBut
(* Resizes leave all that is used where it is. *)
Unmoved(w, u) == Good(u) /\ Adds(w, u) /\ Quiet(w, u) /\ \A p \in Pools : Used(u, p) = Used(w, p)

LEMMA RefitGood ==
  ASSUME NEW w, Good(w), NEW u, Refit(w, u)
  PROVE  Unmoved(w, u) /\ Retires(w, u)
<1>1. Kept(u) /\ SameButMemory(w, u) /\ (~w.cb.growable => u = w)
  BY DEF Refit
<1>2. Formed(u)
  BY <1>1, FormedSame DEF Good, SameButMemory
<1>3. Adds(w, u) /\ Retires(w, u)
  BY <1>1, SameSlots DEF SameButMemory
<1>4. \A p \in Pools : Used(u, p) = Used(w, p)
  BY <1>1, UsedSame DEF SameButMemory
<1>5. Quiet(w, u)
  BY <1>1 DEF Quiet, SameButMemory
<1> QED
  BY <1>1, <1>2, <1>3, <1>4, <1>5 DEF Good, Unmoved

LEMMA UnmovedSame ==
  ASSUME NEW w, Good(w)
  PROVE  Unmoved(w, w)
<1>1. Adds(w, w)
  BY SameSlots
<1> QED
  BY <1>1 DEF Unmoved, Quiet

(* A pool without a free list has all its slots in use. *)
LEMMA SpareNone ==
  ASSUME NEW w, Good(w), NEW p \in Pools, w.cb.free[p] = NoIndex
  PROVE  w.cb.count[p] = w.cb.watermark[p]
<1>1. Kept(w) /\ FreedOn(w, p, Spare(w, p)) /\ w.cb.count[p] = Cardinality(Used(w, p))
  BY DEF Good, Formed, Counted
<1>2. Spare(w, p) = {}
  BY <1>1, FreedNone
<1>3. Used(w, p) = DOMAIN w[p]
  BY <1>2 DEF Used, Spare
<1> QED
  BY <1>1, <1>3, SlotsFacts

LEMMA TakeCases ==
  ASSUME NEW w, NEW p, NEW r \in Take(w, p)
  PROVE  \/ /\ w.cb.free[p] # NoIndex
            /\ r = [w |-> Popped(w, p), status |-> "OK", index |-> w.cb.free[p]]
         \/ /\ w.cb.free[p] = NoIndex /\ w.cb.watermark[p] # w.cb.capacity[p]
            /\ r = [w |-> Freshened(w, p), status |-> "OK", index |-> w.cb.watermark[p]]
         \/ /\ w.cb.free[p] = NoIndex /\ w.cb.watermark[p] = w.cb.capacity[p]
            /\ \E g \in Grow(w, p) :
                 IF g.status = "OK"
                 THEN r = [w |-> Freshened(g.w, p), status |-> "OK", index |-> g.w.cb.watermark[p]]
                 ELSE r = g
  BY Zenon DEF Take, Then, Popped, Freshened

TakeDone(w, p, r) ==
  /\ Quiet(w, r.w)
  /\ IF r.status = "OK" THEN Taken(w, r.w, p, r.index) ELSE Unmoved(w, r.w)
  /\ w.cb.count[p] < w.cb.capacity[p] => r.w.calls = w.calls

LEMMA TakeFacts ==
  ASSUME NEW w, Good(w), NEW p \in Pools, NEW r \in Take(w, p)
  PROVE  TakeDone(w, p, r)
<1>1. Kept(w)
  BY DEF Good
<1>2. CASE /\ w.cb.free[p] # NoIndex
           /\ r = [w |-> Popped(w, p), status |-> "OK", index |-> w.cb.free[p]]
  <2> DEFINE u == Popped(w, p)
             i == w.cb.free[p]
  <2>1. r.w = u /\ r.status = "OK" /\ r.index = i /\ i # NoIndex
    BY <1>2
  <2>2. Taken(w, u, p, i) /\ u.calls = w.calls /\ Quiet(w, u)
    BY <2>1, PopTaken
  <2> HIDE DEF u, i
  <2> QED
    BY <2>1, <2>2 DEF TakeDone
<1>3. CASE /\ w.cb.free[p] = NoIndex /\ w.cb.watermark[p] # w.cb.capacity[p]
           /\ r = [w |-> Freshened(w, p), status |-> "OK", index |-> w.cb.watermark[p]]
  <2> DEFINE u == Freshened(w, p)
             i == w.cb.watermark[p]
  <2>1. r.w = u /\ r.status = "OK" /\ r.index = i
    BY <1>3
  <2>2. w.cb.watermark[p] < w.cb.capacity[p]
    BY <1>1, <1>3, KeptFacts
  <2>3. Taken(w, u, p, i) /\ u.calls = w.calls /\ Quiet(w, u)
    BY <1>3, <2>2, FreshTaken
  <2> HIDE DEF u, i
  <2> QED
    BY <2>1, <2>3 DEF TakeDone
<1>4. CASE /\ w.cb.free[p] = NoIndex /\ w.cb.watermark[p] = w.cb.capacity[p]
           /\ \E g \in Grow(w, p) :
                IF g.status = "OK"
                THEN r = [w |-> Freshened(g.w, p), status |-> "OK", index |-> g.w.cb.watermark[p]]
                ELSE r = g
  <2>1. PICK g \in Grow(w, p) :
          IF g.status = "OK"
          THEN r = [w |-> Freshened(g.w, p), status |-> "OK", index |-> g.w.cb.watermark[p]]
          ELSE r = g
    BY <1>4
  <2> DEFINE v == g.w
  <2>2. Refit(w, v) /\ (g.status = "OK" => v.cb.capacity[p] > w.cb.capacity[p])
    BY <1>1, GrowRefit
  <2>3. Unmoved(w, v)
    BY <2>2, RefitGood
  <2>4. ~(w.cb.count[p] < w.cb.capacity[p])
    BY <1>1, <1>4, SpareNone, KeptFacts
  <2>5. CASE g.status # "OK"
    BY <2>1, <2>3, <2>4, <2>5 DEF TakeDone, Unmoved
  <2>6. CASE g.status = "OK"
    <3> DEFINE u == Freshened(v, p)
               i == v.cb.watermark[p]
    <3>1. r.w = u /\ r.status = "OK" /\ r.index = i
      BY <2>1, <2>6
    <3>2. Good(v) /\ Kept(v) /\ v.cb.free[p] = NoIndex /\ v.cb.watermark[p] = w.cb.watermark[p]
      BY <1>4, <2>2, <2>3 DEF Unmoved, Good, Refit, SameButMemory
    <3>3. v.cb.watermark[p] < v.cb.capacity[p]
      BY <1>1, <1>4, <2>2, <2>6, <3>2, KeptFacts
    <3> HIDE DEF v
    <3>4. Taken(v, u, p, i) /\ Quiet(v, u)
      BY <3>2, <3>3, FreshTaken
    <3> HIDE DEF u, i
    <3>5. Taken(w, u, p, i)
      BY <2>3, <3>4, AddsOn DEF Taken, Unmoved
    <3>6. Quiet(w, u)
      BY <2>3, <3>4, QuietOn DEF Unmoved
    <3> QED
      BY <2>4, <3>1, <3>5, <3>6 DEF TakeDone
  <2> QED
    BY <2>5, <2>6
<1> QED
  BY <1>2, <1>3, <1>4, TakeCases
(***************************************************************************)
(* A slot put to use, or out of use.                                       *)
(***************************************************************************)
(* The control blocks differ in counts, free lists and update phase. *)
CbLike(cb, c) ==
  /\ c \in ControlBlocks
  /\ c.capacity = cb.capacity /\ c.initial = cb.initial /\ c.max = cb.max
  /\ c.allocator = cb.allocator /\ c.weighted = cb.weighted /\ c.growable = cb.growable
  /\ c.weight_capacity = cb.weight_capacity /\ c.work_capacity = cb.work_capacity
  /\ c.visited_words = cb.visited_words /\ c.watermark = cb.watermark

LEMMA CountWritten ==
  ASSUME NEW w \in Worlds, NEW p \in Pools, NEW n \in Int, NEW c, c = [w.cb EXCEPT !.count[p] = n]
  PROVE  /\ CbLike(w.cb, c) /\ c.free = w.cb.free
         /\ \A q \in Pools : c.count[q] = IF q = p THEN n ELSE w.cb.count[q]
<1>1. w.cb \in ControlBlocks
  BY WorldFacts
<1>2. w.cb.count \in [Pools -> Int]
  BY <1>1 DEF ControlBlocks
<1>3. [w.cb.count EXCEPT ![p] = n] \in [Pools -> Int]
  BY <1>2
<1>4. c \in ControlBlocks
  BY <1>1, <1>3 DEF ControlBlocks
<1>5. /\ c.capacity = w.cb.capacity /\ c.initial = w.cb.initial /\ c.max = w.cb.max
      /\ c.allocator = w.cb.allocator /\ c.weighted = w.cb.weighted /\ c.growable = w.cb.growable
      /\ c.weight_capacity = w.cb.weight_capacity /\ c.work_capacity = w.cb.work_capacity
      /\ c.visited_words = w.cb.visited_words /\ c.watermark = w.cb.watermark
      /\ c.free = w.cb.free /\ c.count = [w.cb.count EXCEPT ![p] = n]
  BY <1>1 DEF ControlBlocks
<1> QED
  BY <1>2, <1>4, <1>5 DEF CbLike

FreedCb(cb, p, i, n) == [cb EXCEPT !.free[p] = i, !.count[p] = n]

LEMMA FreedWritten ==
  ASSUME NEW w \in Worlds, NEW p \in Pools, NEW n \in Int, NEW i \in Nat,
         NEW c, c = FreedCb(w.cb, p, i, n)
  PROVE  /\ CbLike(w.cb, c)
         /\ \A q \in Pools : /\ c.count[q] = IF q = p THEN n ELSE w.cb.count[q]
                             /\ c.free[q] = IF q = p THEN i ELSE w.cb.free[q]
<1>1. w.cb \in ControlBlocks
  BY WorldFacts
<1>2. w.cb.count \in [Pools -> Int] /\ w.cb.free \in [Pools -> Nat]
  BY <1>1 DEF ControlBlocks, FreedCb
<1>3. [w.cb.count EXCEPT ![p] = n] \in [Pools -> Int] /\ [w.cb.free EXCEPT ![p] = i] \in [Pools -> Nat]
  BY <1>2
<1>4. c \in ControlBlocks
  BY <1>1, <1>3 DEF ControlBlocks, FreedCb
<1>5. /\ c.capacity = w.cb.capacity /\ c.initial = w.cb.initial /\ c.max = w.cb.max
      /\ c.allocator = w.cb.allocator /\ c.weighted = w.cb.weighted /\ c.growable = w.cb.growable
      /\ c.weight_capacity = w.cb.weight_capacity /\ c.work_capacity = w.cb.work_capacity
      /\ c.visited_words = w.cb.visited_words /\ c.watermark = w.cb.watermark
      /\ c.free = [w.cb.free EXCEPT ![p] = i] /\ c.count = [w.cb.count EXCEPT ![p] = n]
  BY <1>1 DEF ControlBlocks, FreedCb
<1> QED
  BY <1>2, <1>4, <1>5 DEF CbLike

(* Slot i of the vertices is x, and the control block c. *)
VertexMade(w, u, i, x, c) ==
  /\ Frame(w, u) /\ CbLike(w.cb, c) /\ u.cb = c
  /\ u.edges = w.edges /\ u.weights = w.weights /\ u.calls = w.calls
  /\ DOMAIN u.vertices = DOMAIN w.vertices
  /\ \A j \in DOMAIN w.vertices : u.vertices[j] = IF j = i THEN x ELSE w.vertices[j]

LEMMA VertexMadeFacts ==
  ASSUME NEW w \in Worlds, NEW i \in DOMAIN w.vertices, NEW x \in VertexSlots, NEW c, CbLike(w.cb, c),
         NEW u, u = [w EXCEPT !.vertices = [w.vertices EXCEPT ![i] = x], !.cb = c]
  PROVE  VertexMade(w, u, i, x, c)
<1> DEFINE f == [w.vertices EXCEPT ![i] = x]
<1>1. w.vertices \in PoolOf(VertexSlots)
  BY DEF Worlds
<1>2. f \in PoolOf(VertexSlots)
  BY <1>1, PoolWrite
<1>3. DOMAIN f = DOMAIN w.vertices /\ \A j \in DOMAIN w.vertices : f[j] = IF j = i THEN x ELSE w.vertices[j]
  OBVIOUS
<1>a. u = [w EXCEPT !.vertices = f, !.cb = c] /\ c \in ControlBlocks
  BY DEF CbLike
<1> HIDE DEF f
<1>4. u \in Worlds
  BY <1>2, <1>a DEF Worlds
<1>5. /\ u.cb = c /\ u.vertices = f /\ u.edges = w.edges /\ u.weights = w.weights /\ u.bytes = w.bytes
      /\ u.outstanding = w.outstanding /\ u.contract = w.contract /\ u.calls = w.calls
  BY <1>a DEF Worlds
<1>6. Frame(w, u)
  BY <1>4, <1>5 DEF Frame, CbLike
<1> QED
  BY <1>3, <1>5, <1>6 DEF VertexMade

(* A vertex without edges joins the live ones. *)
LEMMA LinkedWider ==
  ASSUME NEW w, NEW u, NEW V, NEW E, LinkedOn(w, V, E), SameLinks(w, u, V, E), NEW i, i \notin V,
         i \in DOMAIN u.vertices,
         \A l \in Lists : u.vertices[i].head[l] = NoIndex /\ u.vertices[i].tail[l] = NoIndex
                          /\ u.vertices[i].degree[l] = 0
  PROVE  LinkedOn(u, V \cup {i}, E)
<1>1. PICK st, hi : Ordered(E, st, hi) /\ OnLists(u, V, E, st)
  BY LinkedFrom DEF LinkedOn
<1>2. ASSUME NEW l \in Lists PROVE Threads(View(u, l), V \cup {i}, E, st)
  <2> DEFINE G == View(u, l)
  <2>1. Threads(G, V, E, st)
    BY <1>1 DEF OnLists
  <2>2. G.head[i] = NoIndex /\ G.tail[i] = NoIndex /\ G.degree[i] = 0
    BY ViewFacts
  <2> HIDE DEF G
  <2>3. On(G, E, i) = {}
    BY <2>1 DEF On, Threads
  <2>4. Threaded(G, On(G, E, i), st, i)
    <3>1. Cardinality({}) = 0
      BY FS_EmptySet
    <3> QED
      BY <2>2, <2>3, <3>1 DEF Threaded, Chained, Leads
  <2> QED
    BY <2>1, <2>4 DEF Threads, G
<1> QED
  BY <1>1, <1>2 DEF LinkedOn, OnLists

(* A vertex without edges leaves. *)
LEMMA LinkedNarrower ==
  ASSUME NEW w, NEW u, NEW V, NEW E, LinkedOn(w, V, E), NEW v,
         \A e \in E : \A l \in Lists : e \in DOMAIN w.edges /\ EndOf(w.edges[e], l) # v,
         SameLinks(w, u, V \ {v}, E)
  PROVE  LinkedOn(u, V \ {v}, E)
<1>1. PICK st, hi : Ordered(E, st, hi) /\ OnLists(w, V, E, st)
  BY DEF LinkedOn
<1>2. ASSUME NEW l \in Lists PROVE Threads(View(w, l), V \ {v}, E, st)
  <2>1. Threads(View(w, l), V, E, st)
    BY <1>1 DEF OnLists
  <2>2. \A e \in E : View(w, l).ends[e] # v
    BY ViewFacts
  <2> QED
    BY <2>1, <2>2 DEF Threads
<1>3. LinkedOn(w, V \ {v}, E)
  BY <1>1, <1>2 DEF LinkedOn, OnLists
<1> QED
  BY <1>3, LinkedFrom

(* The free list of a pool that is as it was. *)
LEMMA FreedAsIs ==
  ASSUME NEW w, NEW u, NEW q \in Pools, NEW F, FreedOn(w, q, F), F \subseteq DOMAIN w[q], F \subseteq DOMAIN u[q],
         \A j \in F : u[q][j] = w[q][j], u.cb.free[q] = w.cb.free[q]
  PROVE  FreedOn(u, q, F)
<1>1. \A f \in F : FreeLink(u, q, f) = FreeLink(w, q, f)
  <2>1. CASE q = "vertices"
    BY <2>1 DEF FreeLink
  <2>2. CASE q = "edges"
    BY <2>2 DEF FreeLink
  <2> QED
    BY <2>1, <2>2, PoolNames
<1> QED
  BY <1>1, FreedSame
(* Slot i of pool p, taken before, is in use now. *)
Opens(w, u, p, i) ==
  /\ Good(u) /\ Adds(w, u) /\ Quiet(w, u) /\ u.calls = w.calls
  /\ \A q \in Pools : Used(u, q) = IF q = p THEN Used(w, q) \cup {i} ELSE Used(w, q)

(* The step of the version. *)
LEMMA OpensTouched ==
  ASSUME NEW w, NEW u, NEW p, NEW i, Opens(w, u, p, i)
  PROVE  Opens(w, Touch(u), p, i)
<1>1. Good(u) /\ Kept(u) /\ u \in Worlds
  BY SlotsFacts DEF Opens, Good
<1> DEFINE t == Touch(u)
<1>2. Twin(u, t) /\ t.calls = u.calls
  BY <1>1, TouchTwin
<1> HIDE DEF t
<1>3. Good(t) /\ \A q \in Pools : t[q] = u[q] /\ Used(t, q) = Used(u, q)
  BY <1>1, <1>2, TwinFacts DEF Good
<1>4. Adds(u, t)
  BY <1>2, SameSlots DEF Twin
<1>5. Adds(w, t)
  BY <1>4, AddsOn DEF Opens
<1>6. Quiet(w, t)
  BY <1>2 DEF Opens, Quiet, Twin, Frame
<1> QED
  BY <1>2, <1>3, <1>5, <1>6 DEF Opens, t

Opened(w, i) ==
  [w EXCEPT !.vertices[i] = [@ EXCEPT !.head = NoLinks, !.tail = NoLinks,
                                      !.degree = [l \in Lists |-> 0], !.active = TRUE],
            !.cb.count.vertices = @ + 1]

OpenedAs(w, u, i) ==
  \E x, c : /\ VertexMade(w, u, i, x, c) /\ c.free = w.cb.free
            /\ \A q \in Pools : c.count[q] = IF q = "vertices" THEN w.cb.count[q] + 1 ELSE w.cb.count[q]
            /\ x.generation = w.vertices[i].generation /\ x.active = TRUE
            /\ \A l \in Lists : x.head[l] = NoIndex /\ x.tail[l] = NoIndex /\ x.degree[l] = 0

LEMMA OpenedMade ==
  ASSUME NEW w \in Worlds, NEW i \in DOMAIN w.vertices, NEW u, u = Opened(w, i)
  PROVE  OpenedAs(w, u, i)
<1> DEFINE n == w.cb.count["vertices"] + 1
           c == [w.cb EXCEPT !.count["vertices"] = n]
           s == w.vertices[i]
           x == [s EXCEPT !.head = NoLinks, !.tail = NoLinks, !.degree = [l \in Lists |-> 0], !.active = TRUE]
<1>1. s \in VertexSlots /\ n \in Int
  BY SlotFacts, WorldFacts, CbFacts, PoolNames
<1>2. NoLinks \in [Lists -> Nat] /\ [l \in Lists |-> 0] \in [Lists -> Int]
  BY PoolAssumption DEF NoLinks
<1>3. x \in VertexSlots
  BY <1>1, <1>2 DEF VertexSlots
<1>4. /\ x.generation = s.generation /\ x.active = TRUE
      /\ \A l \in Lists : x.head[l] = NoIndex /\ x.tail[l] = NoIndex /\ x.degree[l] = 0
  BY <1>1 DEF VertexSlots, NoLinks
<1>5. u = [w EXCEPT !.vertices = [w.vertices EXCEPT ![i] = x], !.cb = c]
  BY PoolNames DEF Opened, Worlds
<1> HIDE DEF x
<1>6. /\ CbLike(w.cb, c) /\ c.free = w.cb.free
      /\ \A q \in Pools : c.count[q] = IF q = "vertices" THEN n ELSE w.cb.count[q]
  <2> HIDE DEF n
  <2> QED
    BY <1>1, CountWritten, PoolNames
<1> HIDE DEF c
<1>7. VertexMade(w, u, i, x, c)
  BY <1>3, <1>5, <1>6, VertexMadeFacts
<1> QED
  BY <1>4, <1>6, <1>7 DEF OpenedAs

LEMMA OpenedFacts ==
  ASSUME NEW w, Kept(w), NEW i, FormedBut(w, "vertices", i), i \in Spare(w, "vertices"), NEW u, u = Opened(w, i)
  PROVE  Opens(w, u, "vertices", i)
<1>1. /\ w \in Worlds /\ Covered(w) /\ i \in DOMAIN w.vertices /\ i \notin Used(w, "vertices")
      /\ w["vertices"] = w.vertices /\ w["edges"] = w.edges
  BY SlotsFacts DEF Spare
<1>2. PICK x, c : /\ VertexMade(w, u, i, x, c) /\ c.free = w.cb.free
                  /\ \A q \in Pools : c.count[q] = IF q = "vertices" THEN w.cb.count[q] + 1 ELSE w.cb.count[q]
                  /\ x.generation = w.vertices[i].generation /\ x.active = TRUE
                  /\ \A l \in Lists : x.head[l] = NoIndex /\ x.tail[l] = NoIndex /\ x.degree[l] = 0
  <2>1. OpenedAs(w, u, i)
    BY <1>1, OpenedMade
  <2> QED
    BY <2>1 DEF OpenedAs
<1>3. /\ Frame(w, u) /\ CbLike(w.cb, c) /\ u.cb = c /\ u.edges = w.edges /\ u.weights = w.weights
      /\ u.calls = w.calls /\ DOMAIN u.vertices = DOMAIN w.vertices
      /\ \A j \in DOMAIN w.vertices : u.vertices[j] = IF j = i THEN x ELSE w.vertices[j]
  BY <1>2 DEF VertexMade
<1>4. /\ \A q \in Pools : DOMAIN u[q] = DOMAIN w[q]
      /\ \A q \in Pools : Used(u, q) = IF q = "vertices" THEN Used(w, q) \cup {i} ELSE Used(w, q)
  <2>1. u["vertices"] = u.vertices /\ u["edges"] = u.edges
    BY <1>1
  <2>2. Used(u, "vertices") = Used(w, "vertices") \cup {i}
    BY <1>1, <1>2, <1>3, <2>1 DEF Used
  <2>3. Used(u, "edges") = Used(w, "edges")
    BY <1>1, <1>3, <2>1 DEF Used
  <2> QED
    BY <1>1, <1>3, <2>1, <2>2, <2>3, PoolNames
<1>5. Kept(u)
  <2>1. Covered(u)
    BY <1>1, <1>3, <1>4 DEF Covered, CbLike
  <2> QED
    BY <1>3, <2>1, KeptOn
<1>6. Lined(u)
  <2> DEFINE V == Used(w, "vertices")
             E == Used(w, "edges")
  <2>1. LinkedOn(w, V, E) /\ i \notin V /\ V \subseteq DOMAIN w.vertices /\ E \subseteq DOMAIN w.edges
    BY <1>1 DEF FormedBut, Lined, Used
  <2>2. Used(u, "vertices") = V \cup {i} /\ Used(u, "edges") = E
    BY <1>4, PoolNames
  <2> HIDE DEF V, E
  <2>3. SameLinks(w, u, V, E)
    BY <1>3, <2>1 DEF SameLinks
  <2>4. \A l \in Lists : u.vertices[i].head[l] = NoIndex /\ u.vertices[i].tail[l] = NoIndex
                          /\ u.vertices[i].degree[l] = 0
    BY <1>1, <1>2, <1>3
  <2>5. LinkedOn(u, V \cup {i}, E)
    BY <1>1, <1>3, <2>1, <2>3, <2>4, LinkedWider
  <2> QED
    BY <2>2, <2>5 DEF Lined
<1>7. Counted(u)
  <2>1. IsFiniteSet(Used(w, "vertices"))
    BY SlotsFacts, PoolNames
  <2>2. Cardinality(Used(w, "vertices") \cup {i}) = Cardinality(Used(w, "vertices")) + 1
    BY <1>1, <2>1, FS_AddElement
  <2>3. Counted(w)
    BY DEF FormedBut
  <2>4. \A q \in Pools : u.cb.count[q] = Cardinality(Used(u, q))
    BY <1>2, <1>3, <1>4, <2>2, <2>3, PoolNames DEF Counted
  <2> QED
    BY <2>4 DEF Counted
<1>8. ASSUME NEW q \in Pools PROVE FreedOn(u, q, Spare(u, q))
  <2>1. Spare(u, q) = Beyond(w, "vertices", i)[q]
    BY <1>4 DEF Spare, Beyond
  <2>2. FreedOn(w, q, Spare(u, q)) /\ Spare(u, q) \subseteq DOMAIN w[q] /\ Spare(u, q) \subseteq DOMAIN u[q]
    BY <1>4, <2>1 DEF FormedBut, Spare
  <2>3. \A j \in Spare(u, q) : u[q][j] = w[q][j]
    <3>1. CASE q = "vertices"
      <4>1. i \notin Spare(u, q)
        BY <1>4, <3>1 DEF Spare
      <4> QED
        BY <1>3, <2>2, <3>1, <4>1
    <3>2. CASE q = "edges"
      BY <1>3, <3>2
    <3> QED
      BY <3>1, <3>2, PoolNames
  <2>4. u.cb.free[q] = w.cb.free[q]
    BY <1>2, <1>3
  <2> QED
    BY <2>2, <2>3, <2>4, FreedAsIs
<1>9. Adds(w, u)
  <2>1. \A j \in DOMAIN w.vertices : /\ u.vertices[j].generation = w.vertices[j].generation
                                     /\ w.vertices[j].active => u.vertices[j].active
    BY <1>2, <1>3
  <2>2. ASSUME NEW q \in Pools, NEW j \in DOMAIN w[q]
        PROVE  /\ j \in DOMAIN u[q] /\ u[q][j].generation = w[q][j].generation
               /\ w[q][j].active => u[q][j].active
    <3>1. CASE q = "vertices"
      BY <1>3, <2>1, <2>2, <3>1
    <3>2. CASE q = "edges"
      BY <1>3, <2>2, <3>2
    <3> QED
      BY <3>1, <3>2, PoolNames
  <2> QED
    BY <2>2 DEF Adds
<1>10. Quiet(w, u)
  BY <1>3 DEF Quiet, Frame
<1> QED
  BY <1>3, <1>4, <1>5, <1>6, <1>7, <1>8, <1>9, <1>10 DEF Opens, Good, Formed

LEMMA NewVertexFacts ==
  ASSUME NEW w, Kept(w), NEW i, FormedBut(w, "vertices", i), i \in Spare(w, "vertices")
  PROVE  Opens(w, NewVertex(w, i), "vertices", i)
<1>1. NewVertex(w, i) = Touch(Opened(w, i))
  BY DEF NewVertex, Opened
<1> DEFINE u == Opened(w, i)
<1>2. Opens(w, u, "vertices", i)
  BY OpenedFacts
<1> HIDE DEF u
<1>3. Opens(w, Touch(u), "vertices", i)
  BY <1>2, OpensTouched
<1> QED
  BY <1>1, <1>3 DEF u

(* The outcomes of an insertion: a slot in use, or resizes at most. *)
AddDone(w, p, r) ==
  /\ Good(r.w) /\ Adds(w, r.w) /\ Quiet(w, r.w)
  /\ IF r.status = "OK"
     THEN /\ r.index \in Used(r.w, p)
          /\ \A q \in Pools : Used(r.w, q) = IF q = p THEN Used(w, q) \cup {r.index} ELSE Used(w, q)
     ELSE \A q \in Pools : Used(r.w, q) = Used(w, q)
  /\ w.cb.count[p] < w.cb.capacity[p] => r.w.calls = w.calls

LEMMA AddDoneFacts ==
  ASSUME NEW w, Good(w), NEW p \in Pools, NEW r, TakeDone(w, p, r), r.status = "OK",
         NEW u, Opens(r.w, u, p, r.index)
  PROVE  AddDone(w, p, [r EXCEPT !.w = u])
<1>1. Taken(w, r.w, p, r.index) /\ Quiet(w, r.w) /\ (w.cb.count[p] < w.cb.capacity[p] => r.w.calls = w.calls)
  BY DEF TakeDone
<1>2. Good(u) /\ Adds(w, u)
  BY <1>1, AddsOn DEF Opens, Taken
<1>3. Quiet(w, u)
  BY <1>1, QuietOn DEF Opens
<1>4. \A q \in Pools : Used(u, q) = IF q = p THEN Used(w, q) \cup {r.index} ELSE Used(w, q)
  BY <1>1 DEF Opens, Taken
<1> QED
  BY <1>1, <1>2, <1>3, <1>4 DEF AddDone, Opens
LEMMA AddVertexFacts ==
  ASSUME NEW w, Good(w), NEW r \in AddVertexTo(w)
  PROVE  AddDone(w, "vertices", r)
<1>1. PICK q \in Take(w, "vertices") :
        r = IF q.status = "OK" THEN [q EXCEPT !.w = NewVertex(@, q.index)]
            ELSE [w |-> q.w, status |-> q.status, index |-> NoIndex]
  BY DEF AddVertexTo
<1> DEFINE p == "vertices"
<1>2. p \in Pools /\ p = "vertices" /\ q \in Take(w, p)
  BY PoolNames
<1> HIDE DEF p
<1>3. TakeDone(w, p, q)
  BY <1>2, TakeFacts
<1>4. CASE q.status = "OK"
  <2> DEFINE v == q.w
             i == q.index
             u == NewVertex(v, i)
  <2>1. Taken(w, v, p, i)
    BY <1>3, <1>4 DEF TakeDone
  <2>2. Kept(v) /\ FormedBut(v, "vertices", i) /\ i \in Spare(v, "vertices")
    BY <1>2, <2>1 DEF Taken
  <2>3. r = [q EXCEPT !.w = u]
    BY <1>1, <1>4
  <2> HIDE DEF v, i
  <2>4. Opens(v, u, p, i)
    BY <1>2, <2>2, NewVertexFacts
  <2> HIDE DEF u
  <2>5. Opens(q.w, u, p, q.index)
    BY <2>4 DEF v, i
  <2>6. AddDone(w, p, r)
    BY <1>2, <1>3, <1>4, <2>3, <2>5, AddDoneFacts
  <2> QED
    BY <1>2, <2>6
<1>5. CASE q.status # "OK"
  <2>1. r.w = q.w /\ r.status # "OK"
    BY <1>1, <1>5
  <2>2. AddDone(w, p, r)
    BY <1>3, <1>5, <2>1 DEF AddDone, TakeDone, Unmoved
  <2> QED
    BY <1>2, <2>2
<1> QED
  BY <1>4, <1>5

(* The edge has its weight and counts. *)
Weighed(w, e, weight) ==
  [w EXCEPT !.weights = IF w.bytes.weights # 0 THEN Extend(@, e, weight) ELSE @, !.cb.count.edges = @ + 1]

WeighedAs(w, u, e) ==
  /\ Frame(w, u) /\ CbLike(w.cb, u.cb) /\ u.vertices = w.vertices /\ u.edges = w.edges /\ u.calls = w.calls
  /\ u.cb.free = w.cb.free
  /\ \A q \in Pools : u.cb.count[q] = IF q = "edges" THEN w.cb.count[q] + 1 ELSE w.cb.count[q]
  /\ DOMAIN u.weights = IF w.bytes.weights # 0 THEN DOMAIN w.weights \cup {e} ELSE DOMAIN w.weights

LEMMA WeighedFacts ==
  ASSUME NEW w \in Worlds, NEW e \in Nat, NEW weight \in Weights, NEW u, u = Weighed(w, e, weight)
  PROVE  WeighedAs(w, u, e)
<1> DEFINE n == w.cb.count["edges"] + 1
           c == [w.cb EXCEPT !.count["edges"] = n]
           f == IF w.bytes.weights # 0 THEN Extend(w.weights, e, weight) ELSE w.weights
<1>1. n \in Int
  BY WorldFacts, CbFacts, PoolNames
<1>2. /\ CbLike(w.cb, c) /\ c.free = w.cb.free
      /\ \A q \in Pools : c.count[q] = IF q = "edges" THEN n ELSE w.cb.count[q]
  <2> HIDE DEF n
  <2> QED
    BY <1>1, CountWritten, PoolNames
<1>3. u = [w EXCEPT !.weights = f, !.cb = c]
  BY DEF Weighed, Worlds
<1> HIDE DEF c
<1>4. w.weights \in [DOMAIN w.weights -> Weights] /\ DOMAIN w.weights \subseteq Nat
  BY WorldFacts
<1>5. f \in [DOMAIN f -> Weights] /\ DOMAIN f \subseteq Nat
      /\ DOMAIN f = IF w.bytes.weights # 0 THEN DOMAIN w.weights \cup {e} ELSE DOMAIN w.weights
  BY <1>4 DEF Extend
<1> HIDE DEF f
<1>6. f \in UNION {[D -> Weights] : D \in SUBSET Nat}
  BY <1>5
<1>7. c \in ControlBlocks
  BY <1>2 DEF CbLike
<1>8. u \in Worlds
  BY <1>3, <1>6, <1>7 DEF Worlds
<1>9. /\ u.cb = c /\ u.weights = f /\ u.vertices = w.vertices /\ u.edges = w.edges /\ u.calls = w.calls
      /\ u.bytes = w.bytes /\ u.outstanding = w.outstanding /\ u.contract = w.contract
  BY <1>3 DEF Worlds
<1>10. Frame(w, u)
  BY <1>2, <1>8, <1>9 DEF Frame, CbLike
<1> QED
  BY <1>2, <1>5, <1>9, <1>10 DEF WeighedAs

(* Edge e between two vertices in use, in a slot taken for it. *)
LEMMA WeighedOpens ==
  ASSUME NEW w, Kept(w), NEW e, FormedBut(w, "edges", e), e \in Spare(w, "edges"),
         NEW src \in Used(w, "vertices"), NEW dst \in Used(w, "vertices"), NEW weight \in Weights,
         NEW v, v = LinkEdge(w, e, src, dst), NEW u, u = Weighed(v, e, weight)
  PROVE  Opens(w, u, "edges", e)
<1> DEFINE V == Used(w, "vertices")
           E == Used(w, "edges")
<1>1. /\ w \in Worlds /\ Covered(w) /\ e \in DOMAIN w.edges /\ e \notin E /\ e \in Nat
      /\ w["vertices"] = w.vertices /\ w["edges"] = w.edges /\ NoIndex \notin DOMAIN w.edges
      /\ V \subseteq DOMAIN w.vertices /\ E \subseteq DOMAIN w.edges
  BY SlotsFacts, PoolNames DEF Spare
<1>2. LinkedOn(w, V, E) /\ src \in V /\ dst \in V
  BY DEF FormedBut, Lined
<1> HIDE DEF V, E
<1>3. /\ Wired(w, v, V, E \cup {e}) /\ LinkedOn(v, V, E \cup {e})
      /\ \A f \in DOMAIN w.edges : v.edges[f].active = (f = e \/ w.edges[f].active)
  <2>1. LinkedWith(w, v, V, E, e)
    BY <1>1, <1>2, LinkEdgeFacts
  <2> QED
    BY <2>1 DEF LinkedWith
<1>4. /\ v \in Worlds /\ Beside(w, v) /\ Elsewhere(w, v, V, E \cup {e})
      /\ DOMAIN v.edges = DOMAIN w.edges /\ DOMAIN v.vertices = DOMAIN w.vertices
      /\ \A f \in DOMAIN w.edges : v.edges[f].generation = w.edges[f].generation
      /\ \A x \in DOMAIN w.vertices : /\ v.vertices[x].generation = w.vertices[x].generation
                                      /\ v.vertices[x].active = w.vertices[x].active
  BY <1>3 DEF Wired
<1>5. WeighedAs(v, u, e)
  BY <1>1, <1>4, WeighedFacts
<1>6. /\ u.vertices = v.vertices /\ u.edges = v.edges /\ u["vertices"] = v.vertices /\ u["edges"] = v.edges
      /\ u.calls = w.calls /\ u.cb.free = w.cb.free /\ CbLike(w.cb, u.cb)
      /\ \A q \in Pools : u.cb.count[q] = IF q = "edges" THEN w.cb.count[q] + 1 ELSE w.cb.count[q]
      /\ DOMAIN u.weights = IF w.bytes.weights # 0 THEN DOMAIN w.weights \cup {e} ELSE DOMAIN w.weights
  BY <1>4, <1>5 DEF WeighedAs, Beside
<1>7. Frame(w, u)
  BY <1>4, <1>5 DEF WeighedAs, Beside, Frame
<1>8. /\ \A q \in Pools : DOMAIN u[q] = DOMAIN w[q]
      /\ Used(u, "vertices") = V /\ Used(u, "edges") = E \cup {e}
  <2>1. \A q \in Pools : DOMAIN u[q] = DOMAIN w[q]
    BY <1>1, <1>4, <1>6, PoolNames
  <2>2. Used(u, "vertices") = V
    BY <1>1, <1>4, <1>6 DEF Used, V
  <2>3. Used(u, "edges") = E \cup {e}
    <3>1. DOMAIN u["edges"] = DOMAIN w["edges"] /\ e \in DOMAIN w["edges"]
      BY <1>1, <1>4, <1>6
    <3>2. \A f \in DOMAIN w["edges"] : u["edges"][f].active <=> f = e \/ w["edges"][f].active
      BY <1>1, <1>3, <1>6
    <3> QED
      BY <3>1, <3>2 DEF Used, E
  <2> QED
    BY <2>1, <2>2, <2>3
<1>9. \A q \in Pools : Used(u, q) = IF q = "edges" THEN Used(w, q) \cup {e} ELSE Used(w, q)
  BY <1>8, PoolNames DEF V, E
<1>10. Kept(u)
  <2>1. w.cb.weighted => w.bytes.weights # 0
    <3>1. Sound(w) /\ w.cb.capacity["edges"] \in Nat /\ w.cb.watermark["edges"] \in Nat
          /\ w.cb.watermark["edges"] <= w.cb.capacity["edges"] /\ w.cb.weight_capacity \in Nat
      BY <1>1, KeptFacts, PoolNames, WorldFacts, CbFacts
    <3>2. e < w.cb.watermark["edges"]
      BY <1>1, SlotsFacts, PoolNames
    <3>3. w.cb.weighted => w.cb.weight_capacity >= w.cb.capacity["edges"]
      BY <3>1 DEF Sound
    <3>4. w.bytes.weights = w.cb.weight_capacity * 8
      BY <3>1 DEF Sound
    <3> QED
      BY <1>1, <3>1, <3>2, <3>3, <3>4
  <2>2. DOMAIN u.weights \subseteq 0 .. u.cb.watermark.edges - 1
    <3>1. DOMAIN w.weights \subseteq 0 .. w.cb.watermark.edges - 1 /\ DOMAIN w.edges = 0 .. w.cb.watermark.edges - 1
      BY <1>1, PoolNames DEF Covered
    <3>2. u.cb.watermark = w.cb.watermark
      BY <1>6 DEF CbLike
    <3>3. DOMAIN u.weights \subseteq DOMAIN w.weights \cup {e}
      BY <1>6
    <3> QED
      BY <1>1, <3>1, <3>2, <3>3
  <2>3. u.cb.weighted => \A f \in DOMAIN u.edges : u.edges[f].active => f \in DOMAIN u.weights
    BY <1>1, <1>3, <1>4, <1>6, <2>1 DEF Covered, CbLike
  <2>4. \A p \in Pools : DOMAIN u[p] = 0 .. u.cb.watermark[p] - 1 /\ u.cb.watermark[p] <= u.cb.capacity[p]
    BY <1>1, <1>6, <1>8 DEF Covered, CbLike
  <2>5. Covered(u)
    BY <2>2, <2>3, <2>4 DEF Covered
  <2> QED
    BY <1>7, <2>5, KeptOn
<1>11. Lined(u)
  <2> DEFINE F == E \cup {e}
  <2>1. LinkedOn(v, V, F) /\ Used(u, "vertices") = V /\ Used(u, "edges") = F
    BY <1>3, <1>8
  <2> HIDE DEF F
  <2>2. LinkedOn(u, V, F)
    BY <1>6, <2>1, LinkedSame
  <2> QED
    BY <2>1, <2>2 DEF Lined
<1>12. Counted(u)
  <2>1. IsFiniteSet(E)
    BY SlotsFacts, PoolNames DEF E
  <2>2. Cardinality(E \cup {e}) = Cardinality(E) + 1
    BY <1>1, <2>1, FS_AddElement
  <2>3. Counted(w)
    BY DEF FormedBut
  <2>4. \A q \in Pools : u.cb.count[q] = Cardinality(Used(u, q))
    BY <1>6, <1>8, <2>2, <2>3, PoolNames DEF Counted, E, V
  <2> QED
    BY <2>4 DEF Counted
<1>13. ASSUME NEW q \in Pools PROVE FreedOn(u, q, Spare(u, q))
  <2>1. Spare(u, q) = Beyond(w, "edges", e)[q]
    BY <1>8, <1>9 DEF Spare, Beyond
  <2>2. FreedOn(w, q, Spare(u, q)) /\ Spare(u, q) \subseteq DOMAIN w[q] /\ Spare(u, q) \subseteq DOMAIN u[q]
    BY <1>8, <2>1 DEF FormedBut, Spare
  <2>3. \A j \in Spare(u, q) : FreeLink(u, q, j) = FreeLink(w, q, j)
    <3>1. CASE q = "vertices"
      <4>1. \A j \in Spare(u, q) : j \in DOMAIN w.vertices \ V
        BY <1>8, <2>2, <3>1 DEF Spare
      <4> QED
        BY <1>4, <1>6, <3>1, <4>1 DEF FreeLink, Elsewhere
    <3>2. CASE q = "edges"
      <4>1. \A j \in Spare(u, q) : j \in DOMAIN w.edges \ (E \cup {e})
        BY <1>8, <2>2, <3>2 DEF Spare
      <4> QED
        BY <1>4, <1>6, <3>2, <4>1 DEF FreeLink, Elsewhere
    <3> QED
      BY <3>1, <3>2, PoolNames
  <2> QED
    BY <1>6, <2>2, <2>3, FreedSame
<1>14. Adds(w, u)
  <2>1. ASSUME NEW q \in Pools, NEW j \in DOMAIN w[q]
        PROVE  /\ j \in DOMAIN u[q] /\ u[q][j].generation = w[q][j].generation
               /\ w[q][j].active => u[q][j].active
    <3>1. CASE q = "vertices"
      BY <1>4, <1>6, <2>1, <3>1
    <3>2. CASE q = "edges"
      BY <1>3, <1>4, <1>6, <2>1, <3>2
    <3> QED
      BY <3>1, <3>2, PoolNames
  <2> QED
    BY <2>1 DEF Adds
<1>15. Quiet(w, u)
  BY <1>6, <1>7 DEF Quiet, Frame
<1> QED
  BY <1>6, <1>9, <1>10, <1>11, <1>12, <1>13, <1>14, <1>15 DEF Opens, Good, Formed
LEMMA NewEdgeFacts ==
  ASSUME NEW w, Kept(w), NEW e, FormedBut(w, "edges", e), e \in Spare(w, "edges"),
         NEW src \in Used(w, "vertices"), NEW dst \in Used(w, "vertices"), NEW weight \in Weights
  PROVE  Opens(w, NewEdge(w, e, src, dst, weight), "edges", e)
<1> DEFINE v == LinkEdge(w, e, src, dst)
           u == Weighed(v, e, weight)
<1>1. NewEdge(w, e, src, dst, weight) = Touch(u)
  BY DEF NewEdge, Weighed
<1>2. Opens(w, u, "edges", e)
  BY WeighedOpens
<1> HIDE DEF u, v
<1>3. Opens(w, Touch(u), "edges", e)
  BY <1>2, OpensTouched
<1> QED
  BY <1>1, <1>3

(* A handle that is accepted names a slot in use. *)
LEMMA LiveFacts ==
  ASSUME NEW w, Kept(w), NEW p \in Pools, NEW h, h.index \in Nat, Live(w, p, h)
  PROVE  h.index \in Used(w, p) /\ h.index \in DOMAIN w[p]
<1>1. DOMAIN w[p] = 0 .. w.cb.watermark[p] - 1 /\ w.cb.watermark[p] \in Nat
  BY SlotsFacts
<1> QED
  BY <1>1 DEF Live, Used

AddEdgeEnds(w, src, dst, weight, r) ==
  \/ r.w = w /\ r.status # "OK"
  \/ /\ Live(w, "vertices", src) /\ Live(w, "vertices", dst)
     /\ \E q \in Take(w, "edges") :
          r = IF q.status = "OK" THEN [q EXCEPT !.w = NewEdge(@, q.index, src.index, dst.index, weight)]
              ELSE NoEdge(q.w, q.status)

LEMMA AddEdgeCases ==
  ASSUME NEW w, NEW src, NEW dst, NEW weight, NEW r \in AddEdgeTo(w, src, dst, weight)
  PROVE  AddEdgeEnds(w, src, dst, weight, r)
<1>1. \A s \in {"STALE", "INVALID", "EXISTS"} : NoEdge(w, s).w = w /\ NoEdge(w, s).status # "OK"
  BY DEF NoEdge
<1>2. CASE r = NoEdge(w, "STALE")
  BY <1>1, <1>2 DEF AddEdgeEnds
<1>3. CASE r = NoEdge(w, "INVALID")
  BY <1>1, <1>3 DEF AddEdgeEnds
<1>4. CASE r = NoEdge(w, "EXISTS")
  BY <1>1, <1>4 DEF AddEdgeEnds
<1>5. CASE /\ Live(w, "vertices", src) /\ Live(w, "vertices", dst)
           /\ \E q \in Take(w, "edges") :
                r = IF q.status = "OK" THEN [q EXCEPT !.w = NewEdge(@, q.index, src.index, dst.index, weight)]
                    ELSE NoEdge(q.w, q.status)
  BY <1>5 DEF AddEdgeEnds
<1> QED
  BY <1>2, <1>3, <1>4, <1>5, Zenon DEF AddEdgeTo

LEMMA AddEdgeFacts ==
  ASSUME NEW w, Good(w), NEW src, src.index \in Nat, NEW dst, dst.index \in Nat, NEW weight \in Weights,
         NEW r \in AddEdgeTo(w, src, dst, weight)
  PROVE  AddDone(w, "edges", r)
<1> DEFINE p == "edges"
<1>1. p \in Pools /\ p = "edges" /\ "vertices" \in Pools /\ p # "vertices" /\ Kept(w)
  BY PoolNames DEF Good
<1> HIDE DEF p
<1>2. CASE r.w = w /\ r.status # "OK"
  <2>1. Unmoved(w, w)
    BY UnmovedSame
  <2>2. AddDone(w, p, r)
    BY <1>2, <2>1 DEF AddDone, Unmoved
  <2> QED
    BY <1>1, <2>2
<1>3. CASE /\ Live(w, "vertices", src) /\ Live(w, "vertices", dst)
           /\ \E q \in Take(w, "edges") :
                r = IF q.status = "OK" THEN [q EXCEPT !.w = NewEdge(@, q.index, src.index, dst.index, weight)]
                    ELSE NoEdge(q.w, q.status)
  <2>1. PICK q \in Take(w, p) :
          r = IF q.status = "OK" THEN [q EXCEPT !.w = NewEdge(@, q.index, src.index, dst.index, weight)]
              ELSE NoEdge(q.w, q.status)
    BY <1>1, <1>3
  <2>2. TakeDone(w, p, q)
    BY <1>1, TakeFacts
  <2> DEFINE s == src.index
             d == dst.index
  <2>3. s \in Used(w, "vertices") /\ d \in Used(w, "vertices")
    BY <1>1, <1>3, LiveFacts
  <2>4. CASE q.status = "OK"
    <3> DEFINE v == q.w
               i == q.index
               u == NewEdge(v, i, s, d, weight)
    <3>1. Taken(w, v, p, i)
      BY <2>2, <2>4 DEF TakeDone
    <3>2. /\ Kept(v) /\ FormedBut(v, "edges", i) /\ i \in Spare(v, "edges")
          /\ Used(v, "vertices") = Used(w, "vertices")
      BY <1>1, <3>1 DEF Taken
    <3>3. r = [q EXCEPT !.w = u]
      BY <2>1, <2>4
    <3> HIDE DEF v, i, s, d
    <3>4. Opens(v, u, "edges", i)
      BY <2>3, <3>2, NewEdgeFacts
    <3> HIDE DEF u
    <3>5. Opens(q.w, u, p, q.index)
      BY <1>1, <3>4 DEF v, i
    <3>6. AddDone(w, p, r)
      BY <1>1, <2>2, <2>4, <3>3, <3>5, AddDoneFacts
    <3> QED
      BY <1>1, <3>6
  <2>5. CASE q.status # "OK"
    <3>1. r.w = q.w /\ r.status # "OK"
      BY <2>1, <2>5 DEF NoEdge
    <3>2. AddDone(w, p, r)
      BY <2>2, <2>5, <3>1 DEF AddDone, TakeDone, Unmoved
    <3> QED
      BY <1>1, <3>2
  <2> QED
    BY <2>4, <2>5
<1> QED
  BY <1>2, <1>3, AddEdgeCases DEF AddEdgeEnds
(* Slot i of pool p is retired. *)
Shuts(w, u, p, i) ==
  /\ Good(u) /\ Retires(w, u) /\ Quiet(w, u) /\ u.calls = w.calls
  /\ \A q \in Pools : Used(u, q) = IF q = p THEN Used(w, q) \ {i} ELSE Used(w, q)

LEMMA ShutsTouched ==
  ASSUME NEW w, NEW u, NEW p, NEW i, Shuts(w, u, p, i)
  PROVE  Shuts(w, Touch(u), p, i)
<1>1. Good(u) /\ Kept(u) /\ u \in Worlds
  BY SlotsFacts DEF Shuts, Good
<1> DEFINE t == Touch(u)
<1>2. Twin(u, t) /\ t.calls = u.calls
  BY <1>1, TouchTwin
<1> HIDE DEF t
<1>3. Good(t) /\ \A q \in Pools : t[q] = u[q] /\ Used(t, q) = Used(u, q)
  BY <1>1, <1>2, TwinFacts DEF Good
<1>4. Retires(u, t)
  BY <1>2, SameSlots DEF Twin
<1>5. Retires(w, t)
  BY <1>4, RetiresOn DEF Shuts
<1>6. Quiet(w, t)
  BY <1>2 DEF Shuts, Quiet, Twin, Frame
<1> QED
  BY <1>2, <1>3, <1>5, <1>6 DEF Shuts, t

(* Slot i of the edges is x, and the control block c. *)
EdgeMade(w, u, i, x, c) ==
  /\ Frame(w, u) /\ CbLike(w.cb, c) /\ u.cb = c
  /\ u.vertices = w.vertices /\ u.weights = w.weights /\ u.calls = w.calls
  /\ DOMAIN u.edges = DOMAIN w.edges
  /\ \A j \in DOMAIN w.edges : u.edges[j] = IF j = i THEN x ELSE w.edges[j]

LEMMA EdgeMadeFacts ==
  ASSUME NEW w \in Worlds, NEW i \in DOMAIN w.edges, NEW x \in EdgeSlots, NEW c, CbLike(w.cb, c),
         NEW u, u = [w EXCEPT !.edges = [w.edges EXCEPT ![i] = x], !.cb = c]
  PROVE  EdgeMade(w, u, i, x, c)
<1> DEFINE f == [w.edges EXCEPT ![i] = x]
<1>1. w.edges \in PoolOf(EdgeSlots)
  BY DEF Worlds
<1>2. f \in PoolOf(EdgeSlots)
  BY <1>1, PoolWrite
<1>3. DOMAIN f = DOMAIN w.edges /\ \A j \in DOMAIN w.edges : f[j] = IF j = i THEN x ELSE w.edges[j]
  OBVIOUS
<1>a. u = [w EXCEPT !.edges = f, !.cb = c] /\ c \in ControlBlocks
  BY DEF CbLike
<1> HIDE DEF f
<1>4. u \in Worlds
  BY <1>2, <1>a DEF Worlds
<1>5. /\ u.cb = c /\ u.edges = f /\ u.vertices = w.vertices /\ u.weights = w.weights /\ u.bytes = w.bytes
      /\ u.outstanding = w.outstanding /\ u.contract = w.contract /\ u.calls = w.calls
  BY <1>a DEF Worlds
<1>6. Frame(w, u)
  BY <1>4, <1>5 DEF Frame, CbLike
<1> QED
  BY <1>3, <1>5, <1>6 DEF EdgeMade

LEMMA BumpFacts ==
  ASSUME NEW g \in 1 .. GenMax
  PROVE  Bump(g) \in 1 .. GenMax
  BY PoolAssumption DEF Bump

(* What is left to do for an edge off its lists. *)
Shelved(w, e) ==
  [w EXCEPT !.edges[e] = [@ EXCEPT !.active = FALSE, !.generation = Bump(w.edges[e].generation),
                                   !.next.out = w.cb.free.edges],
            !.cb.free.edges = e, !.cb.count.edges = @ - 1]

ShelvedAs(w, u, e) ==
  \E x, c : /\ EdgeMade(w, u, e, x, c)
            /\ \A q \in Pools : /\ c.count[q] = IF q = "edges" THEN w.cb.count[q] - 1 ELSE w.cb.count[q]
                                /\ c.free[q] = IF q = "edges" THEN e ELSE w.cb.free[q]
            /\ x.generation = Bump(w.edges[e].generation) /\ x.active = FALSE
            /\ x.next["out"] = w.cb.free["edges"] /\ x.src = w.edges[e].src /\ x.dst = w.edges[e].dst

LEMMA ShelvedMade ==
  ASSUME NEW w \in Worlds, NEW e \in DOMAIN w.edges, NEW u, u = Shelved(w, e)
  PROVE  ShelvedAs(w, u, e)
<1> DEFINE n == w.cb.count["edges"] - 1
           c == FreedCb(w.cb, "edges", e, n)
           s == w.edges[e]
           g == Bump(s.generation)
           k == w.cb.free["edges"]
           x == [s EXCEPT !.active = FALSE, !.generation = g, !.next["out"] = k]
<1>1. s \in EdgeSlots /\ n \in Int /\ k \in Nat /\ e \in Nat
  BY SlotFacts, WorldFacts, CbFacts, PoolNames
<1>2. g \in 1 .. GenMax /\ s.next \in [Lists -> Nat] /\ "out" \in Lists
  BY <1>1, BumpFacts DEF EdgeSlots, Lists
<1>3. u = [w EXCEPT !.edges = [w.edges EXCEPT ![e] = x], !.cb = c]
  <2>1. u = [w EXCEPT !.edges[e] = x, !.cb.free.edges = e, !.cb.count.edges = @ - 1]
    BY DEF Shelved
  <2> HIDE DEF x
  <2>2. w.cb \in ControlBlocks
    BY WorldFacts
  <2>3. u.cb = c
    BY <2>1, <2>2 DEF Worlds, FreedCb, ControlBlocks
  <2>4. u = [w EXCEPT !.edges = [w.edges EXCEPT ![e] = x], !.cb = u.cb]
    BY <2>1 DEF Worlds
  <2> QED
    BY <2>3, <2>4
<1> HIDE DEF g, k
<1>4. x \in EdgeSlots
  <2>1. [s.next EXCEPT !["out"] = k] \in [Lists -> Nat]
    BY <1>1, <1>2
  <2> QED
    BY <1>1, <1>2, <2>1 DEF EdgeSlots
<1>5. x.generation = g /\ x.active = FALSE /\ x.next["out"] = k /\ x.src = s.src /\ x.dst = s.dst
  BY <1>1, <1>2 DEF EdgeSlots
<1> HIDE DEF x
<1>6. /\ CbLike(w.cb, c)
      /\ \A q \in Pools : /\ c.count[q] = IF q = "edges" THEN n ELSE w.cb.count[q]
                          /\ c.free[q] = IF q = "edges" THEN e ELSE w.cb.free[q]
  <2> DEFINE p == "edges"
  <2>1. p \in Pools /\ p = "edges" /\ c = FreedCb(w.cb, p, e, n)
    BY PoolNames
  <2> HIDE DEF n, p, c
  <2>2. /\ CbLike(w.cb, c)
        /\ \A q \in Pools : /\ c.count[q] = IF q = p THEN n ELSE w.cb.count[q]
                            /\ c.free[q] = IF q = p THEN e ELSE w.cb.free[q]
    BY <1>1, <2>1, FreedWritten
  <2> QED
    BY <2>1, <2>2
<1> HIDE DEF c
<1>7. EdgeMade(w, u, e, x, c)
  BY <1>3, <1>4, <1>6, EdgeMadeFacts
<1> QED
  BY <1>5, <1>6, <1>7 DEF ShelvedAs, g, k

SameEnds(w, u) ==
  /\ DOMAIN u.edges = DOMAIN w.edges
  /\ \A f \in DOMAIN w.edges : u.edges[f].src = w.edges[f].src /\ u.edges[f].dst = w.edges[f].dst

LEMMA ShelvedShuts ==
  ASSUME NEW w, Good(w), NEW e \in Used(w, "edges"), NEW v, v = UnlinkEdge(w, e), NEW u, u = Shelved(v, e)
  PROVE  Shuts(w, u, "edges", e) /\ SameEnds(w, u)
<1> DEFINE V == Used(w, "vertices")
           E == Used(w, "edges")
<1>1. /\ Kept(w) /\ w \in Worlds /\ Covered(w) /\ e \in DOMAIN w.edges /\ e \in E /\ e \in Nat /\ e # NoIndex
      /\ w["vertices"] = w.vertices /\ w["edges"] = w.edges /\ NoIndex \notin DOMAIN w.edges
      /\ V \subseteq DOMAIN w.vertices /\ E \subseteq DOMAIN w.edges
  <2>1. Kept(w)
    BY DEF Good
  <2>2. e \in E /\ E \subseteq DOMAIN w["edges"] /\ V \subseteq DOMAIN w["vertices"]
    BY <2>1, SlotsFacts, PoolNames
  <2> HIDE DEF E, V
  <2>3. w["vertices"] = w.vertices /\ w["edges"] = w.edges
    OBVIOUS
  <2> QED
    BY <2>1, <2>2, <2>3, SlotsFacts, PoolNames
<1>2. LinkedOn(w, V, E) /\ Counted(w) /\ \A q \in Pools : FreedOn(w, q, Spare(w, q))
  BY DEF Good, Formed, Lined
<1> HIDE DEF V, E
<1>3. Wired(w, v, V, E) /\ LinkedOn(v, V, E \ {e}) /\ Tags(w, v)
  BY <1>1, <1>2, UnlinkEdgeFacts
<1>4. /\ v \in Worlds /\ Beside(w, v) /\ Elsewhere(w, v, V, E)
      /\ DOMAIN v.edges = DOMAIN w.edges /\ DOMAIN v.vertices = DOMAIN w.vertices
      /\ \A f \in DOMAIN w.edges : /\ v.edges[f].generation = w.edges[f].generation
                                   /\ v.edges[f].active = w.edges[f].active
                                   /\ v.edges[f].src = w.edges[f].src /\ v.edges[f].dst = w.edges[f].dst
      /\ \A x \in DOMAIN w.vertices : /\ v.vertices[x].generation = w.vertices[x].generation
                                      /\ v.vertices[x].active = w.vertices[x].active
  BY <1>3 DEF Wired, Tags
<1>5. ShelvedAs(v, u, e)
  BY <1>1, <1>4, ShelvedMade
<1>6. PICK x, c : /\ EdgeMade(v, u, e, x, c)
                  /\ \A q \in Pools : /\ c.count[q] = IF q = "edges" THEN v.cb.count[q] - 1 ELSE v.cb.count[q]
                                      /\ c.free[q] = IF q = "edges" THEN e ELSE v.cb.free[q]
                  /\ x.generation = Bump(v.edges[e].generation) /\ x.active = FALSE
                  /\ x.next["out"] = v.cb.free["edges"] /\ x.src = v.edges[e].src /\ x.dst = v.edges[e].dst
  BY <1>5 DEF ShelvedAs
<1>7. /\ Frame(w, u) /\ CbLike(w.cb, u.cb) /\ u.vertices = v.vertices /\ u.weights = w.weights
      /\ u.calls = w.calls /\ DOMAIN u.edges = DOMAIN w.edges /\ DOMAIN u.vertices = DOMAIN w.vertices
      /\ \A j \in DOMAIN w.edges : u.edges[j] = IF j = e THEN x ELSE v.edges[j]
      /\ \A q \in Pools : /\ u.cb.count[q] = IF q = "edges" THEN w.cb.count[q] - 1 ELSE w.cb.count[q]
                          /\ u.cb.free[q] = IF q = "edges" THEN e ELSE w.cb.free[q]
      /\ x.next["out"] = w.cb.free["edges"]
  BY <1>4, <1>6 DEF EdgeMade, Beside, Frame
<1>8. /\ \A q \in Pools : DOMAIN u[q] = DOMAIN w[q]
      /\ Used(u, "vertices") = V /\ Used(u, "edges") = E \ {e}
      /\ u["vertices"] = u.vertices /\ u["edges"] = u.edges
  <2>1. u["vertices"] = u.vertices /\ u["edges"] = u.edges
    BY <1>1
  <2>2. \A q \in Pools : DOMAIN u[q] = DOMAIN w[q]
    BY <1>1, <1>7, <2>1, PoolNames
  <2>3. Used(u, "vertices") = V
    BY <1>1, <1>4, <1>7, <2>1 DEF Used, V
  <2>4. Used(u, "edges") = E \ {e}
    BY <1>1, <1>4, <1>6, <1>7, <2>1 DEF Used, E
  <2> QED
    BY <2>1, <2>2, <2>3, <2>4
<1>9. \A q \in Pools : Used(u, q) = IF q = "edges" THEN Used(w, q) \ {e} ELSE Used(w, q)
  BY <1>8, PoolNames DEF V, E
<1>10. Kept(u)
  <2>1. u.cb.weighted => \A f \in DOMAIN u.edges : u.edges[f].active => f \in DOMAIN u.weights
    BY <1>1, <1>4, <1>6, <1>7 DEF Covered, CbLike
  <2>2. DOMAIN u.weights \subseteq 0 .. u.cb.watermark.edges - 1
    BY <1>1, <1>7 DEF Covered, CbLike
  <2>3. \A p \in Pools : DOMAIN u[p] = 0 .. u.cb.watermark[p] - 1 /\ u.cb.watermark[p] <= u.cb.capacity[p]
    BY <1>1, <1>7, <1>8 DEF Covered, CbLike
  <2>4. Covered(u)
    BY <2>1, <2>2, <2>3 DEF Covered
  <2> QED
    BY <1>1, <1>7, <2>4, KeptOn
<1>11. Lined(u)
  <2> DEFINE F == E \ {e}
  <2>1. LinkedOn(v, V, F) /\ Used(u, "vertices") = V /\ Used(u, "edges") = F /\ e \notin F /\ F \subseteq DOMAIN w.edges
    BY <1>1, <1>3, <1>8
  <2> HIDE DEF F
  <2>2. SameLinks(v, u, V, F)
    BY <1>1, <1>4, <1>7, <2>1 DEF SameLinks
  <2>3. LinkedOn(u, V, F)
    BY <2>1, <2>2, LinkedFrom
  <2> QED
    BY <2>1, <2>3 DEF Lined
<1>12. Counted(u)
  <2>1. IsFiniteSet(E)
    BY <1>1, SlotsFacts, PoolNames DEF E
  <2>2. Cardinality(E \ {e}) = Cardinality(E) - 1
    BY <1>1, <2>1, FS_RemoveElement
  <2>3. u.cb.count["edges"] = Cardinality(Used(u, "edges"))
    <3>1. w.cb.count["edges"] = Cardinality(E) /\ u.cb.count["edges"] = w.cb.count["edges"] - 1
      BY <1>2, <1>7, PoolNames DEF Counted, E
    <3> QED
      BY <1>8, <2>2, <3>1
  <2>4. u.cb.count["vertices"] = Cardinality(Used(u, "vertices"))
    BY <1>2, <1>7, <1>8, PoolNames DEF Counted, V
  <2> QED
    BY <2>3, <2>4, PoolNames DEF Counted
<1>13. FreedOn(u, "vertices", Spare(u, "vertices"))
  <2>1. Spare(u, "vertices") = Spare(w, "vertices") /\ Spare(w, "vertices") \subseteq DOMAIN w["vertices"]
    BY <1>1, <1>8, <1>9, PoolNames DEF Spare
  <2>2. \A j \in Spare(w, "vertices") : j \in DOMAIN w.vertices \ V
    BY <1>1 DEF Spare, V
  <2>3. \A j \in Spare(w, "vertices") : FreeLink(u, "vertices", j) = FreeLink(w, "vertices", j)
    BY <1>4, <1>7, <2>2 DEF FreeLink, Elsewhere
  <2>4. u.cb.free["vertices"] = w.cb.free["vertices"]
    BY <1>7, PoolNames
  <2> QED
    BY <1>2, <1>8, <2>1, <2>3, <2>4, PoolNames, FreedSame
<1>14. FreedOn(u, "edges", Spare(u, "edges"))
  <2> DEFINE F == Spare(w, "edges")
             q == "edges"
  <2>1. Spare(u, q) = F \cup {e} /\ F \subseteq DOMAIN w[q] /\ e \notin F /\ F \subseteq DOMAIN u[q] /\ e \in DOMAIN u[q]
    BY <1>1, <1>8, <1>9, PoolNames DEF Spare, E
  <2>2. \A j \in F : j \in DOMAIN w.edges \ E /\ j # e
    BY <1>1, <2>1 DEF Spare, E
  <2>3. \A j \in F : FreeLink(u, q, j) = FreeLink(w, q, j)
    <3>1. \A j \in F : u.edges[j].next["out"] = w.edges[j].next["out"]
      BY <1>4, <1>7, <2>2 DEF Elsewhere
    <3> QED
      BY <3>1 DEF FreeLink
  <2>4. FreeLink(u, q, e) = w.cb.free[q] /\ u.cb.free[q] = e
    <3>1. u.edges[e].next["out"] = w.cb.free["edges"]
      BY <1>1, <1>7
    <3> QED
      BY <1>7, <3>1, PoolNames DEF FreeLink
  <2>5. FreedOn(w, q, F)
    BY <1>2, PoolNames
  <2> HIDE DEF F, q
  <2>6. FreedOn(u, q, F \cup {e})
    BY <1>1, <2>1, <2>3, <2>4, <2>5, FreedFront
  <2> QED
    BY <2>1, <2>6 DEF q
<1>15. Retires(w, u)
  <2>1. ASSUME NEW q \in Pools, NEW j \in DOMAIN w[q]
        PROVE  /\ j \in DOMAIN u[q] /\ (u[q][j].active => w[q][j].active)
               /\ u[q][j].generation = IF w[q][j].active /\ ~u[q][j].active THEN Bump(w[q][j].generation)
                                       ELSE w[q][j].generation
    <3>1. CASE q = "vertices"
      BY <1>4, <1>7, <2>1, <3>1
    <3>2. CASE q = "edges" /\ j # e
      BY <1>4, <1>7, <2>1, <3>2
    <3>3. CASE q = "edges" /\ j = e
      <4>1. u.edges[e].active = FALSE /\ u.edges[e].generation = Bump(w.edges[e].generation) /\ w.edges[e].active
        BY <1>1, <1>4, <1>6, <1>7 DEF Used, E
      <4> QED
        BY <1>7, <2>1, <3>3, <4>1
    <3> QED
      BY <3>1, <3>2, <3>3, PoolNames
  <2> QED
    BY <2>1 DEF Retires
<1>16. Quiet(w, u)
  BY <1>7 DEF Quiet, Frame
<1>17. SameEnds(w, u)
  BY <1>1, <1>4, <1>6, <1>7 DEF SameEnds
<1>18. \A q \in Pools : FreedOn(u, q, Spare(u, q))
  BY <1>13, <1>14, PoolNames
<1> QED
  BY <1>7, <1>9, <1>10, <1>11, <1>12, <1>15, <1>16, <1>17, <1>18 DEF Shuts, Good, Formed

LEMMA ReleaseEdgeFacts ==
  ASSUME NEW w, Good(w), NEW e \in Used(w, "edges")
  PROVE  Shuts(w, ReleaseEdge(w, e), "edges", e) /\ SameEnds(w, ReleaseEdge(w, e))
<1> DEFINE v == UnlinkEdge(w, e)
<1>1. ReleaseEdge(w, e) = Shelved(v, e)
  BY DEF ReleaseEdge, Shelved
<1> QED
  BY <1>1, ShelvedShuts
Vacated(w, v) ==
  [w EXCEPT !.vertices[v] = [@ EXCEPT !.active = FALSE, !.generation = Bump(w.vertices[v].generation),
                                      !.head.out = w.cb.free.vertices],
            !.cb.free.vertices = v,
            !.cb.count.vertices = @ - 1]

VacatedAs(w, u, v) ==
  \E x, c : /\ VertexMade(w, u, v, x, c)
            /\ \A q \in Pools : /\ c.count[q] = IF q = "vertices" THEN w.cb.count[q] - 1 ELSE w.cb.count[q]
                                /\ c.free[q] = IF q = "vertices" THEN v ELSE w.cb.free[q]
            /\ x.generation = Bump(w.vertices[v].generation) /\ x.active = FALSE
            /\ x.head["out"] = w.cb.free["vertices"]

LEMMA VacatedMade ==
  ASSUME NEW w \in Worlds, NEW v \in DOMAIN w.vertices, NEW u, u = Vacated(w, v)
  PROVE  VacatedAs(w, u, v)
<1> DEFINE n == w.cb.count["vertices"] - 1
           c == FreedCb(w.cb, "vertices", v, n)
           s == w.vertices[v]
           g == Bump(s.generation)
           k == w.cb.free["vertices"]
           x == [s EXCEPT !.active = FALSE, !.generation = g, !.head["out"] = k]
<1>1. s \in VertexSlots /\ n \in Int /\ k \in Nat /\ v \in Nat
  BY SlotFacts, WorldFacts, CbFacts, PoolNames
<1>2. g \in 1 .. GenMax /\ s.head \in [Lists -> Nat] /\ "out" \in Lists
  BY <1>1, BumpFacts DEF VertexSlots, Lists
<1>3. u = [w EXCEPT !.vertices = [w.vertices EXCEPT ![v] = x], !.cb = c]
  <2>1. u = [w EXCEPT !.vertices[v] = x, !.cb.free.vertices = v, !.cb.count.vertices = @ - 1]
    BY DEF Vacated
  <2> HIDE DEF x
  <2>2. w.cb \in ControlBlocks
    BY WorldFacts
  <2>3. u.cb = c
    BY <2>1, <2>2 DEF Worlds, FreedCb, ControlBlocks
  <2>4. u = [w EXCEPT !.vertices = [w.vertices EXCEPT ![v] = x], !.cb = u.cb]
    BY <2>1 DEF Worlds
  <2> QED
    BY <2>3, <2>4
<1> HIDE DEF g, k
<1>4. x \in VertexSlots
  <2>1. [s.head EXCEPT !["out"] = k] \in [Lists -> Nat]
    BY <1>1, <1>2
  <2> QED
    BY <1>1, <1>2, <2>1 DEF VertexSlots
<1>5. x.generation = g /\ x.active = FALSE /\ x.head["out"] = k
  BY <1>1, <1>2 DEF VertexSlots
<1> HIDE DEF x
<1>6. /\ CbLike(w.cb, c)
      /\ \A q \in Pools : /\ c.count[q] = IF q = "vertices" THEN n ELSE w.cb.count[q]
                          /\ c.free[q] = IF q = "vertices" THEN v ELSE w.cb.free[q]
  <2> DEFINE p == "vertices"
  <2>1. p \in Pools /\ p = "vertices" /\ c = FreedCb(w.cb, p, v, n)
    BY PoolNames
  <2> HIDE DEF n, p, c
  <2>2. /\ CbLike(w.cb, c)
        /\ \A q \in Pools : /\ c.count[q] = IF q = p THEN n ELSE w.cb.count[q]
                            /\ c.free[q] = IF q = p THEN v ELSE w.cb.free[q]
    BY <1>1, <2>1, FreedWritten
  <2> QED
    BY <2>1, <2>2
<1> HIDE DEF c
<1>7. VertexMade(w, u, v, x, c)
  BY <1>3, <1>4, <1>6, VertexMadeFacts
<1> QED
  BY <1>5, <1>6, <1>7 DEF VacatedAs, g, k

(* No edge in use ends at v. *)
Isolated(w, v) == \A e \in Used(w, "edges") : w.edges[e].src # v /\ w.edges[e].dst # v

LEMMA VacatedShuts ==
  ASSUME NEW w, Good(w), NEW v \in Used(w, "vertices"), Isolated(w, v), NEW u, u = Vacated(w, v)
  PROVE  Shuts(w, u, "vertices", v)
<1> DEFINE V == Used(w, "vertices")
           E == Used(w, "edges")
<1>1. /\ Kept(w) /\ w \in Worlds /\ Covered(w) /\ v \in DOMAIN w.vertices /\ v \in V /\ v \in Nat /\ v # NoIndex
      /\ w["vertices"] = w.vertices /\ w["edges"] = w.edges
      /\ V \subseteq DOMAIN w.vertices /\ E \subseteq DOMAIN w.edges
  <2>1. Kept(w)
    BY DEF Good
  <2>2. v \in V /\ E \subseteq DOMAIN w["edges"] /\ V \subseteq DOMAIN w["vertices"]
    BY <2>1, SlotsFacts, PoolNames
  <2> HIDE DEF E, V
  <2>3. w["vertices"] = w.vertices /\ w["edges"] = w.edges
    OBVIOUS
  <2> QED
    BY <2>1, <2>2, <2>3, SlotsFacts, PoolNames
<1>2. LinkedOn(w, V, E) /\ Counted(w) /\ \A q \in Pools : FreedOn(w, q, Spare(w, q))
  BY DEF Good, Formed, Lined
<1>3. \A e \in E : w.edges[e].src # v /\ w.edges[e].dst # v
  BY DEF Isolated
<1> HIDE DEF V, E
<1>5. VacatedAs(w, u, v)
  BY <1>1, VacatedMade
<1>6. PICK x, c : /\ VertexMade(w, u, v, x, c)
                  /\ \A q \in Pools : /\ c.count[q] = IF q = "vertices" THEN w.cb.count[q] - 1 ELSE w.cb.count[q]
                                      /\ c.free[q] = IF q = "vertices" THEN v ELSE w.cb.free[q]
                  /\ x.generation = Bump(w.vertices[v].generation) /\ x.active = FALSE
                  /\ x.head["out"] = w.cb.free["vertices"]
  BY <1>5 DEF VacatedAs
<1>7. /\ Frame(w, u) /\ CbLike(w.cb, u.cb) /\ u.edges = w.edges /\ u.weights = w.weights
      /\ u.calls = w.calls /\ DOMAIN u.vertices = DOMAIN w.vertices
      /\ \A j \in DOMAIN w.vertices : u.vertices[j] = IF j = v THEN x ELSE w.vertices[j]
      /\ \A q \in Pools : /\ u.cb.count[q] = IF q = "vertices" THEN w.cb.count[q] - 1 ELSE w.cb.count[q]
                          /\ u.cb.free[q] = IF q = "vertices" THEN v ELSE w.cb.free[q]
  BY <1>6 DEF VertexMade
<1>8. /\ \A q \in Pools : DOMAIN u[q] = DOMAIN w[q]
      /\ Used(u, "vertices") = V \ {v} /\ Used(u, "edges") = E
      /\ u["vertices"] = u.vertices /\ u["edges"] = u.edges
  <2>1. u["vertices"] = u.vertices /\ u["edges"] = u.edges
    BY <1>1
  <2>2. \A q \in Pools : DOMAIN u[q] = DOMAIN w[q]
    BY <1>1, <1>7, <2>1, PoolNames
  <2>3. Used(u, "vertices") = V \ {v}
    BY <1>1, <1>6, <1>7, <2>1 DEF Used, V
  <2>4. Used(u, "edges") = E
    BY <1>1, <1>7, <2>1 DEF Used, E
  <2> QED
    BY <2>1, <2>2, <2>3, <2>4
<1>9. \A q \in Pools : Used(u, q) = IF q = "vertices" THEN Used(w, q) \ {v} ELSE Used(w, q)
  BY <1>8, PoolNames DEF V, E
<1>10. Kept(u)
  <2>1. u.cb.weighted => \A f \in DOMAIN u.edges : u.edges[f].active => f \in DOMAIN u.weights
    BY <1>1, <1>7 DEF Covered, CbLike
  <2>2. DOMAIN u.weights \subseteq 0 .. u.cb.watermark.edges - 1
    BY <1>1, <1>7 DEF Covered, CbLike
  <2>3. \A p \in Pools : DOMAIN u[p] = 0 .. u.cb.watermark[p] - 1 /\ u.cb.watermark[p] <= u.cb.capacity[p]
    BY <1>1, <1>7, <1>8 DEF Covered, CbLike
  <2>4. Covered(u)
    BY <2>1, <2>2, <2>3 DEF Covered
  <2> QED
    BY <1>1, <1>7, <2>4, KeptOn
<1>11. Lined(u)
  <2> DEFINE F == V \ {v}
  <2>1. Used(u, "vertices") = F /\ Used(u, "edges") = E /\ v \notin F /\ F \subseteq DOMAIN w.vertices
    BY <1>1, <1>8
  <2>2. SameLinks(w, u, F, E)
    <3> HIDE DEF F
    <3> QED
      BY <1>1, <1>7, <2>1 DEF SameLinks
  <2>3. \A e \in E : \A l \in Lists : e \in DOMAIN w.edges /\ EndOf(w.edges[e], l) # v
    BY <1>1, <1>3 DEF EndOf
  <2>4. LinkedOn(u, F, E)
    BY <1>2, <2>2, <2>3, LinkedNarrower
  <2> QED
    BY <2>1, <2>4 DEF Lined
<1>12. Counted(u)
  <2>1. IsFiniteSet(V)
    BY <1>1, SlotsFacts, PoolNames DEF V
  <2>2. Cardinality(V \ {v}) = Cardinality(V) - 1
    BY <1>1, <2>1, FS_RemoveElement
  <2>3. u.cb.count["vertices"] = Cardinality(Used(u, "vertices"))
    <3>1. w.cb.count["vertices"] = Cardinality(V) /\ u.cb.count["vertices"] = w.cb.count["vertices"] - 1
      BY <1>2, <1>7, PoolNames DEF Counted, V
    <3> QED
      BY <1>8, <2>2, <3>1
  <2>4. u.cb.count["edges"] = Cardinality(Used(u, "edges"))
    BY <1>2, <1>7, <1>8, PoolNames DEF Counted, E
  <2> QED
    BY <2>3, <2>4, PoolNames DEF Counted
<1>13. FreedOn(u, "edges", Spare(u, "edges"))
  <2> DEFINE q == "edges"
             F == Spare(w, q)
  <2>1. q \in Pools /\ Spare(u, q) = F /\ F \subseteq DOMAIN w[q] /\ F \subseteq DOMAIN u[q] /\ FreedOn(w, q, F)
    BY <1>2, <1>8, <1>9, PoolNames DEF Spare
  <2>2. \A j \in F : u[q][j] = w[q][j]
    BY <1>7
  <2>3. u.cb.free[q] = w.cb.free[q]
    BY <1>7, PoolNames
  <2> HIDE DEF q, F
  <2>4. FreedOn(u, q, F)
    BY <2>1, <2>2, <2>3, FreedAsIs
  <2> QED
    BY <2>1, <2>4 DEF q
<1>14. FreedOn(u, "vertices", Spare(u, "vertices"))
  <2> DEFINE F == Spare(w, "vertices")
             q == "vertices"
  <2>1. Spare(u, q) = F \cup {v} /\ F \subseteq DOMAIN w[q] /\ v \notin F /\ F \subseteq DOMAIN u[q] /\ v \in DOMAIN u[q]
    BY <1>1, <1>8, <1>9, PoolNames DEF Spare, V
  <2>3. \A j \in F : FreeLink(u, q, j) = FreeLink(w, q, j)
    <3>1. \A j \in F : u.vertices[j].head["out"] = w.vertices[j].head["out"]
      BY <1>1, <1>7, <2>1
    <3> QED
      BY <3>1 DEF FreeLink
  <2>4. FreeLink(u, q, v) = w.cb.free[q] /\ u.cb.free[q] = v
    <3>1. u.vertices[v].head["out"] = w.cb.free["vertices"]
      BY <1>1, <1>6, <1>7
    <3> QED
      BY <1>7, <3>1, PoolNames DEF FreeLink
  <2>5. FreedOn(w, q, F)
    BY <1>2, PoolNames
  <2> HIDE DEF F, q
  <2>6. FreedOn(u, q, F \cup {v})
    BY <1>1, <2>1, <2>3, <2>4, <2>5, FreedFront
  <2> QED
    BY <2>1, <2>6 DEF q
<1>15. Retires(w, u)
  <2>1. ASSUME NEW q \in Pools, NEW j \in DOMAIN w[q]
        PROVE  /\ j \in DOMAIN u[q] /\ (u[q][j].active => w[q][j].active)
               /\ u[q][j].generation = IF w[q][j].active /\ ~u[q][j].active THEN Bump(w[q][j].generation)
                                       ELSE w[q][j].generation
    <3>1. CASE q = "edges"
      BY <1>7, <2>1, <3>1
    <3>2. CASE q = "vertices" /\ j # v
      BY <1>7, <2>1, <3>2
    <3>3. CASE q = "vertices" /\ j = v
      <4>1. u.vertices[v].active = FALSE /\ u.vertices[v].generation = Bump(w.vertices[v].generation) /\ w.vertices[v].active
        BY <1>1, <1>6, <1>7 DEF Used, V
      <4> QED
        BY <1>7, <2>1, <3>3, <4>1
    <3> QED
      BY <3>1, <3>2, <3>3, PoolNames
  <2> QED
    BY <2>1 DEF Retires
<1>16. Quiet(w, u)
  BY <1>7 DEF Quiet, Frame
<1>18. \A q \in Pools : FreedOn(u, q, Spare(u, q))
  BY <1>13, <1>14, PoolNames
<1> QED
  BY <1>7, <1>9, <1>10, <1>11, <1>12, <1>15, <1>16, <1>18 DEF Shuts, Good, Formed

LEMMA RetireVertexFacts ==
  ASSUME NEW w, Good(w), NEW v \in Used(w, "vertices"), Isolated(w, v)
  PROVE  Shuts(w, RetireVertex(w, v), "vertices", v)
<1> DEFINE u == Vacated(w, v)
<1>1. RetireVertex(w, v) = Touch(u)
  BY DEF RetireVertex, Vacated
<1>2. Shuts(w, u, "vertices", v)
  BY VacatedShuts
<1> HIDE DEF u
<1>3. Shuts(w, Touch(u), "vertices", v)
  BY <1>2, ShutsTouched
<1> QED
  BY <1>1, <1>3
(***************************************************************************)
(* The lists of a vertex.                                                  *)
(***************************************************************************)
(* The edges in use on list l of v. *)
Of(w, l, v) == {e \in Used(w, "edges") : EndOf(w.edges[e], l) = v}

ListedOn(w, l, v) ==
  Enumerates(ListOf(w, l, v), Of(w, l, v)) /\ w.vertices[v].degree[l] = Cardinality(Of(w, l, v))

LEMMA ListFacts ==
  ASSUME NEW w, Good(w), NEW l \in Lists, NEW v \in Used(w, "vertices")
  PROVE  ListedOn(w, l, v)
<1> DEFINE V == Used(w, "vertices")
           E == Used(w, "edges")
           G == View(w, l)
           M == Of(w, l, v)
           link == NextOn(w, l)
           n == w.cb.watermark["edges"]
           head == w.vertices[v].head[l]
<1>1. /\ Kept(w) /\ w \in Worlds /\ v \in V /\ V \subseteq DOMAIN w.vertices /\ E \subseteq DOMAIN w.edges
      /\ n \in Nat /\ DOMAIN w.edges = 0 .. n - 1 /\ NoIndex \notin DOMAIN w.edges
  <2>1. Kept(w)
    BY DEF Good
  <2>2. v \in V /\ E \subseteq DOMAIN w["edges"] /\ V \subseteq DOMAIN w["vertices"]
    BY <2>1, SlotsFacts, PoolNames
  <2> HIDE DEF E, V
  <2>3. w["vertices"] = w.vertices /\ w["edges"] = w.edges
    OBVIOUS
  <2> QED
    BY <2>1, <2>2, <2>3, SlotsFacts, PoolNames
<1>2. PICK st, hi : Ordered(E, st, hi) /\ OnLists(w, V, E, st)
  BY DEF Good, Formed, Lined, LinkedOn
<1>3. Threads(G, V, E, st) /\ Stamped(E, st)
  BY <1>2 DEF OnLists, Ordered
<1>4. On(G, E, v) = M
  <2>1. \A e \in E : G.ends[e] = EndOf(w.edges[e], l)
    BY <1>1, ViewFacts
  <2> QED
    BY <2>1 DEF On, Of
<1>5. Threaded(G, M, st, v)
  BY <1>1, <1>3, <1>4 DEF Threads
<1>6. DOMAIN link = 0 .. n - 1 /\ (\A e \in DOMAIN w.edges : link[e] = w.edges[e].next[l])
  BY <1>1 DEF NextOn
<1>7. M \subseteq E
  BY DEF Of
<1>8. G.head[v] = head /\ G.degree[v] = w.vertices[v].degree[l] /\ \A e \in M : link[e] = G.next[e]
  BY <1>1, <1>6, <1>7, ViewFacts
<1>9. ListOf(w, l, v) = Chain(link, head)
  BY DEF ListOf
<1> HIDE DEF V, E, G, M, link, n, head
<1>10. Stamped(M, st)
  BY <1>3, <1>7, StampedSubset
<1>11. Chained(M, st, link, head)
  <2>1. Chained(M, st, G.next, head)
    BY <1>5, <1>8 DEF Threaded
  <2> DEFINE next == G.next
  <2>2. Chained(M, st, next, head) /\ \A e \in M : link[e] = next[e] /\ st[e] = st[e]
    BY <1>8, <2>1
  <2> HIDE DEF next
  <2> QED
    BY <2>2, ChainedSame
<1>12. M \subseteq 0 .. n - 1 /\ NoIndex \notin 0 .. n - 1
  BY <1>1, <1>7
<1>13. Enumerates(Chain(link, head), M)
  BY <1>1, <1>6, <1>10, <1>11, <1>12, ChainRead
<1> QED
  BY <1>5, <1>8, <1>9, <1>13 DEF ListedOn, Threaded, M

(* The edges D are retired. *)
Part(w, u, D) ==
  /\ Good(u) /\ Retires(w, u) /\ Quiet(w, u) /\ u.calls = w.calls /\ SameEnds(w, u)
  /\ Used(u, "edges") = Used(w, "edges") \ D /\ Used(u, "vertices") = Used(w, "vertices")

LEMMA PartOn ==
  ASSUME NEW w, NEW u, NEW D, Part(w, u, D), NEW e \in Used(w, "edges") \ D
  PROVE  Part(w, ReleaseEdge(u, e), D \cup {e})
<1> DEFINE v == ReleaseEdge(u, e)
<1>1. Good(u) /\ e \in Used(u, "edges")
  BY DEF Part
<1>2. Shuts(u, v, "edges", e) /\ SameEnds(u, v)
  BY <1>1, ReleaseEdgeFacts
<1> HIDE DEF v
<1>3. Retires(w, v)
  BY <1>2, RetiresOn DEF Part, Shuts
<1>4. Quiet(w, v)
  BY <1>2, QuietOn DEF Part, Shuts
<1>5. SameEnds(w, v)
  BY <1>2 DEF Part, SameEnds
<1>6. Used(v, "edges") = Used(w, "edges") \ (D \cup {e}) /\ Used(v, "vertices") = Used(w, "vertices")
  BY <1>2, PoolNames DEF Part, Shuts
<1>7. Good(v) /\ v.calls = w.calls
  BY <1>2 DEF Part, Shuts
<1>8. Part(w, v, D \cup {e})
  BY <1>3, <1>4, <1>5, <1>6, <1>7 DEF Part
<1> QED
  BY <1>8 DEF v

LEMMA ReleaseListFacts ==
  ASSUME NEW w, Good(w), NEW l \in Lists, NEW v \in Used(w, "vertices")
  PROVE  Part(w, ReleaseList(w, l, v), Of(w, l, v))
<1> DEFINE list == ListOf(w, l, v)
           M == Of(w, l, v)
           n == Len(list)
           front == [k \in 0 .. n |-> {list[j] : j \in 1 .. k}]
           A == [k \in 0 .. n |-> {u \in Worlds : Part(w, u, front[k])}]
           step == [k \in 1 .. n |-> [u \in A[k - 1] |-> ReleaseEdge(u, list[k])]]
           body(g) == [k \in 0 .. n |-> IF k = 0 THEN w ELSE ReleaseEdge(g[k - 1], list[k])]
           left == CHOOSE g : g = body(g)
<1>1. Kept(w) /\ IsFiniteSet(Used(w, "edges"))
  BY SlotsFacts, PoolNames DEF Good
<1>2. M \subseteq Used(w, "edges") /\ IsFiniteSet(M)
  <2>1. M \subseteq Used(w, "edges")
    BY DEF Of
  <2> QED
    BY <1>1, <2>1, SubsetFinite
<1>3. Enumerates(list, M)
  BY ListFacts DEF ListedOn
<1>4. ReleaseList(w, l, v) = left[n]
  BY DEF ReleaseList
<1> HIDE DEF list, M
<1>5. /\ n \in Nat /\ (\A k \in 1 .. n : list[k] \in M) /\ (\A m \in M : \E k \in 1 .. n : list[k] = m)
      /\ (\A j, k \in 1 .. n : list[j] = list[k] => j = k)
  BY <1>2, <1>3, EnumeratesFacts
<1> HIDE DEF n
<1>6. front[0] = {} /\ front[n] = M
  BY <1>5
<1>7. ASSUME NEW k \in 1 .. n
      PROVE  /\ k \in 0 .. n /\ k - 1 \in 0 .. n /\ front[k] = front[k - 1] \cup {list[k]}
             /\ list[k] \in Used(w, "edges") \ front[k - 1]
  <2>1. k \in 0 .. n /\ k - 1 \in 0 .. n /\ \A j \in 1 .. k : j \in 1 .. k - 1 \/ j = k
    BY <1>5
  <2>2. front[k] = front[k - 1] \cup {list[k]}
    BY <1>5, <2>1
  <2>3. \A j \in 1 .. k - 1 : list[j] # list[k]
    BY <1>5, <2>1
  <2> QED
    BY <1>2, <1>5, <2>1, <2>2, <2>3
<1> HIDE DEF front
<1>8. w \in A[0]
  <2>1. Retires(w, w) /\ Quiet(w, w) /\ SameEnds(w, w)
    BY SameSlots DEF Quiet, SameEnds
  <2>2. w \in Worlds /\ Part(w, w, front[0])
    BY <1>1, <1>6, <2>1, SlotsFacts DEF Part
  <2> QED
    BY <1>5, <2>2
<1>9. ASSUME NEW k \in 1 .. n, NEW u \in A[k - 1] PROVE ReleaseEdge(u, list[k]) \in A[k]
  <2>1. Part(w, u, front[k - 1])
    BY <1>7
  <2> DEFINE e == list[k]
             D == front[k - 1]
             r == ReleaseEdge(u, e)
  <2>2. e \in Used(w, "edges") \ D /\ front[k] = D \cup {e} /\ Part(w, u, D)
    BY <1>7, <2>1
  <2> HIDE DEF D, e
  <2>3. Part(w, r, D \cup {e})
    BY <2>2, PartOn
  <2> HIDE DEF r
  <2>4. r \in Worlds
    BY <2>3, SlotsFacts DEF Part, Good
  <2> DEFINE F == front[k]
  <2>5. A[k] = {x \in Worlds : Part(w, x, F)} /\ F = D \cup {e}
    BY <1>7, <2>2
  <2> HIDE DEF F, A
  <2>6. r \in A[k]
    BY <2>3, <2>4, <2>5
  <2> QED
    BY <2>6 DEF r, e
<1>10. PICK f : RunsTo(f, n, A, w, step)
  <2>1. \A k \in 1 .. n : step[k] \in [A[k - 1] -> A[k]]
    BY <1>9
  <2>2. Rounds(n, A, w, step)
    BY <1>5, <1>8, <2>1 DEF Rounds
  <2> HIDE DEF A, step
  <2> QED
    BY <2>2, ChainExists
<1>11. f = body(f)
  <2>1. ASSUME NEW k \in 0 .. n PROVE f[k] = IF k = 0 THEN w ELSE ReleaseEdge(f[k - 1], list[k])
    <3>1. CASE k = 0
      BY <1>10, <3>1 DEF RunsTo
    <3>2. CASE k # 0
      <4>1. k \in 1 .. n /\ k - 1 \in 0 .. n
        BY <1>5, <3>2
      <4>2. f[k] = step[k][f[k - 1]] /\ f[k - 1] \in A[k - 1]
        <5> HIDE DEF A, step
        <5> QED
          BY <1>10, <3>2, <4>1 DEF RunsTo
      <4> HIDE DEF A
      <4> QED
        BY <3>2, <4>1, <4>2
    <3> QED
      BY <3>1, <3>2
  <2>2. f = [k \in 0 .. n |-> f[k]]
    <3> HIDE DEF A, step
    <3> QED
      BY <1>10 DEF RunsTo
  <2> QED
    BY <2>1, <2>2
<1>12. left = body(left)
  BY <1>11
<1> HIDE DEF left, step
<1> DEFINE B == {k \in Nat : k <= n => left[k] \in A[k]}
<1>13. 0 \in B
  <2>1. left[0] = w
    BY <1>5, <1>12
  <2> HIDE DEF A
  <2> QED
    BY <1>8, <2>1
<1>14. ASSUME NEW k \in B PROVE k + 1 \in B
  <2> SUFFICES ASSUME k + 1 <= n PROVE left[k + 1] \in A[k + 1]
    BY <1>14
  <2>1. k + 1 \in 1 .. n /\ k + 1 \in 0 .. n /\ k + 1 # 0 /\ (k + 1) - 1 = k /\ k <= n
    BY <1>5
  <2>2. left[k] \in A[k]
    BY <1>14, <2>1
  <2>3. left[k + 1] = ReleaseEdge(left[k], list[k + 1])
    BY <1>12, <2>1
  <2> HIDE DEF A
  <2>4. \A u \in A[(k + 1) - 1] : ReleaseEdge(u, list[k + 1]) \in A[k + 1]
    BY <1>9, <2>1
  <2> QED
    BY <2>1, <2>2, <2>3, <2>4
<1>15. n \in B
  <2>1. B \subseteq Nat
    OBVIOUS
  <2> HIDE DEF B
  <2> QED
    BY <1>5, <1>13, <1>14, <2>1, Induction
<1>16. Part(w, left[n], front[n])
  BY <1>5, <1>15
<1> QED
  BY <1>4, <1>6, <1>16 DEF M
(***************************************************************************)
(* What the calls make of a graph.                                         *)
(***************************************************************************)
Done(w, u) == Good(u) /\ Ages(w, u) /\ Quiet(w, u)

LEMMA ShutsDone ==
  ASSUME NEW w, NEW u, NEW p, NEW i, Shuts(w, u, p, i)
  PROVE  Done(w, u)
  BY AgesFacts DEF Shuts, Done

LEMMA AddDoneDone ==
  ASSUME NEW w, NEW p, NEW r, AddDone(w, p, r)
  PROVE  Done(w, r.w)
<1> DEFINE u == r.w
<1>1. Good(u) /\ Adds(w, u) /\ Quiet(w, u)
  BY DEF AddDone
<1> HIDE DEF u
<1>2. Done(w, u)
  BY <1>1, AgesFacts DEF Done
<1> QED
  BY <1>2 DEF u

LEMMA RefitDone ==
  ASSUME NEW w, Good(w), NEW u, Refit(w, u)
  PROVE  Done(w, u)
  BY RefitGood, AgesFacts DEF Unmoved, Done

(* dv_graph_remove_vertex *)
LEMMA RemovedDone ==
  ASSUME NEW w, Good(w), NEW v \in Used(w, "vertices"),
         NEW a, a = ReleaseList(w, "out", v), NEW b, b = ReleaseList(a, "in", v)
  PROVE  Done(w, RetireVertex(b, v))
<1>1. Part(w, a, Of(w, "out", v))
  BY ReleaseListFacts DEF Lists
<1>2. Good(a) /\ v \in Used(a, "vertices")
  BY <1>1 DEF Part
<1>3. Part(a, b, Of(a, "in", v))
  BY <1>2, ReleaseListFacts DEF Lists
<1>4. Good(b) /\ v \in Used(b, "vertices")
  BY <1>2, <1>3 DEF Part
<1>5. Isolated(b, v)
  <2> SUFFICES ASSUME NEW e \in Used(b, "edges") PROVE b.edges[e].src # v /\ b.edges[e].dst # v
    BY DEF Isolated
  <2>1. e \in Used(a, "edges") /\ e \notin Of(a, "in", v) /\ e \in Used(w, "edges") /\ e \notin Of(w, "out", v)
    BY <1>1, <1>3 DEF Part
  <2>2. e \in DOMAIN w.edges /\ e \in DOMAIN a.edges
    <3>1. \A x : e \in Used(x, "edges") => e \in DOMAIN x.edges
      BY DEF Used
    <3> QED
      BY <2>1, <3>1
  <2>3. a.edges[e].src = w.edges[e].src /\ b.edges[e].src = a.edges[e].src /\ b.edges[e].dst = a.edges[e].dst
    BY <1>1, <1>3, <2>2 DEF Part, SameEnds
  <2>4. w.edges[e].src # v /\ a.edges[e].dst # v
    BY <2>1 DEF Of, EndOf
  <2> QED
    BY <2>3, <2>4
<1> DEFINE u == RetireVertex(b, v)
<1>6. Shuts(b, u, "vertices", v)
  BY <1>4, <1>5, RetireVertexFacts
<1> HIDE DEF u
<1>7. Retires(w, u)
  <2>1. Retires(w, b)
    BY <1>1, <1>3, RetiresOn DEF Part
  <2> QED
    BY <1>6, <2>1, RetiresOn DEF Shuts
<1>8. Quiet(w, u)
  <2>1. Quiet(w, b)
    BY <1>1, <1>3, QuietOn DEF Part
  <2> QED
    BY <1>6, <2>1, QuietOn DEF Shuts
<1>9. Done(w, u)
  BY <1>6, <1>7, <1>8, AgesFacts DEF Done, Shuts
<1> QED
  BY <1>9 DEF u

(* dv_graph_remove_edge *)
LEMMA CutDone ==
  ASSUME NEW w, Good(w), NEW e \in Used(w, "edges")
  PROVE  Done(w, Touch(ReleaseEdge(w, e)))
<1> DEFINE u == ReleaseEdge(w, e)
<1>1. Shuts(w, u, "edges", e)
  BY ReleaseEdgeFacts
<1> HIDE DEF u
<1> DEFINE t == Touch(u)
<1>2. Shuts(w, t, "edges", e)
  BY <1>1, ShutsTouched
<1> HIDE DEF t
<1>3. Done(w, t)
  BY <1>2, ShutsDone
<1> QED
  BY <1>3 DEF t, u

(* No slot is in use. *)
LEMMA BareLinked ==
  ASSUME NEW w
  PROVE  LinkedOn(w, {}, {})
<1> DEFINE st == [i \in Nat |-> 0]
<1>1. st \in Stamps
  BY DEF Stamps
<1> HIDE DEF st
<1>2. Ordered({}, st, 0)
  BY <1>1 DEF Ordered, Stamped, Distinct
<1>3. \A G : Threads(G, {}, {}, st)
  BY DEF Threads
<1>4. OnLists(w, {}, {}, st)
  BY <1>3 DEF OnLists
<1> QED
  BY <1>2, <1>4 DEF LinkedOn

LEMMA BareFormed ==
  ASSUME NEW w, \A p \in Pools : Used(w, p) = {} /\ w.cb.count[p] = 0 /\ FreedOn(w, p, DOMAIN w[p])
  PROVE  Formed(w)
<1>1. Lined(w)
  <2>1. Used(w, "vertices") = {} /\ Used(w, "edges") = {}
    BY PoolNames
  <2> QED
    BY <2>1, BareLinked DEF Lined
<1>2. Counted(w)
  BY FS_EmptySet DEF Counted
<1>3. \A p \in Pools : FreedOn(w, p, Spare(w, p))
  BY DEF Spare
<1> QED
  BY <1>1, <1>2, <1>3 DEF Formed

TwinDone(w, u) == Twin(w, u) /\ u.calls = w.calls

LEMMA TwinsDone ==
  ASSUME NEW w, Good(w), NEW u, TwinDone(w, u)
  PROVE  Done(w, u)
<1>1. Good(u)
  BY TwinFacts DEF Good, TwinDone
<1>2. Adds(w, u)
  BY SameSlots DEF TwinDone, Twin
<1>3. Quiet(w, u)
  BY DEF TwinDone, Twin, Quiet, Frame
<1> QED
  BY <1>1, <1>2, <1>3, AgesFacts DEF Done

LEMMA DoneOn ==
  ASSUME NEW w, NEW u, NEW t, Good(u), Retires(w, u), Quiet(w, u), TwinDone(u, t)
  PROVE  Done(w, t)
<1>1. Good(t)
  BY TwinFacts DEF Good, TwinDone
<1>2. Retires(u, t)
  BY SameSlots DEF TwinDone, Twin
<1>3. Retires(w, t)
  BY <1>2, RetiresOn
<1>4. Quiet(w, t)
  BY DEF TwinDone, Twin, Quiet, Frame
<1> QED
  BY <1>1, <1>3, <1>4, AgesFacts DEF Done
(***************************************************************************)
(* dv_graph_clear and dv_graph_reset.                                      *)
(***************************************************************************)
SweptEdge(x, n) == [Retired(x) EXCEPT !.next.out = n]
SweptVertex(x, n) ==
  [Retired(x) EXCEPT !.head = [out |-> n, in |-> NoIndex], !.tail = NoLinks, !.degree = [l \in Lists |-> 0]]

(* Slot x is retired into y. *)
Swept(x, y) ==
  y.active = FALSE /\ y.generation = IF x.active THEN Bump(x.generation) ELSE x.generation

LEMMA SweptEdgeFacts ==
  ASSUME NEW x \in EdgeSlots, NEW n \in Nat, NEW y, y = SweptEdge(x, n)
  PROVE  y \in EdgeSlots /\ Swept(x, y) /\ y.next["out"] = n
<1> DEFINE g == IF x.active THEN Bump(x.generation) ELSE x.generation
           z == [x EXCEPT !.generation = g, !.active = FALSE]
<1>1. g \in 1 .. GenMax
  BY BumpFacts DEF EdgeSlots
<1>2. z = Retired(x)
  BY DEF Retired
<1> HIDE DEF g
<1>3. z \in EdgeSlots /\ z.generation = g /\ z.active = FALSE
  BY <1>1 DEF EdgeSlots
<1> HIDE DEF z
<1>4. y = [z EXCEPT !.next.out = n]
  BY <1>2 DEF SweptEdge
<1> DEFINE next == [z.next EXCEPT !.out = n]
<1>5. next \in [Lists -> Nat] /\ next["out"] = n
  BY <1>3 DEF EdgeSlots, Lists
<1>6. y = [z EXCEPT !.next = next]
  BY <1>4
<1> HIDE DEF next
<1>7. y \in EdgeSlots /\ y.next = next /\ y.generation = z.generation /\ y.active = z.active
  BY <1>3, <1>5, <1>6 DEF EdgeSlots
<1> QED
  BY <1>3, <1>5, <1>7 DEF Swept, g

LEMMA SweptVertexFacts ==
  ASSUME NEW x \in VertexSlots, NEW n \in Nat, NEW y, y = SweptVertex(x, n)
  PROVE  y \in VertexSlots /\ Swept(x, y) /\ y.head["out"] = n
<1> DEFINE g == IF x.active THEN Bump(x.generation) ELSE x.generation
           z == [x EXCEPT !.generation = g, !.active = FALSE]
<1>1. g \in 1 .. GenMax
  BY BumpFacts DEF VertexSlots
<1>2. z = Retired(x)
  BY DEF Retired
<1> HIDE DEF g
<1>3. z \in VertexSlots /\ z.generation = g /\ z.active = FALSE
  BY <1>1 DEF VertexSlots
<1> HIDE DEF z
<1> DEFINE head == [out |-> n, in |-> NoIndex]
           tail == NoLinks
           degree == [l \in Lists |-> 0]
<1>4. y = [z EXCEPT !.head = head, !.tail = tail, !.degree = degree]
  BY <1>2 DEF SweptVertex
<1>5. head \in [Lists -> Nat] /\ head["out"] = n
  <2>1. head = [l \in Lists |-> IF l = "out" THEN n ELSE NoIndex]
    BY DEF Lists
  <2> QED
    BY <2>1, PoolAssumption DEF Lists
<1>6. tail \in [Lists -> Nat] /\ degree \in [Lists -> Int]
  BY PoolAssumption DEF NoLinks
<1> HIDE DEF head, tail, degree
<1>7. y \in VertexSlots /\ y.head = head /\ y.generation = z.generation /\ y.active = z.active
  BY <1>3, <1>4, <1>5, <1>6 DEF VertexSlots
<1> QED
  BY <1>3, <1>5, <1>7 DEF Swept, g

(* The free list and the count of each pool. *)
SweptWith(cb, free, count) == [cb EXCEPT !.free = free, !.count = count]

LEMMA SweptCb ==
  ASSUME NEW w \in Worlds, NEW free \in [Pools -> Nat], NEW count \in [Pools -> Int],
         NEW c, c = SweptWith(w.cb, free, count)
  PROVE  CbLike(w.cb, c) /\ c.free = free /\ c.count = count
<1>1. w.cb \in ControlBlocks
  BY WorldFacts
<1>2. c \in ControlBlocks
  BY <1>1 DEF ControlBlocks, SweptWith
<1>3. /\ c.capacity = w.cb.capacity /\ c.initial = w.cb.initial /\ c.max = w.cb.max
      /\ c.allocator = w.cb.allocator /\ c.weighted = w.cb.weighted /\ c.growable = w.cb.growable
      /\ c.weight_capacity = w.cb.weight_capacity /\ c.work_capacity = w.cb.work_capacity
      /\ c.visited_words = w.cb.visited_words /\ c.watermark = w.cb.watermark
      /\ c.free = free /\ c.count = count
  BY <1>1 DEF ControlBlocks, SweptWith
<1> QED
  BY <1>2, <1>3 DEF CbLike
NextSlot(n, i) == IF i + 1 = n THEN NoIndex ELSE i + 1

ClearedAs(w, u) ==
  /\ Frame(w, u) /\ u.weights = w.weights /\ u.calls = w.calls /\ u.cb.watermark = w.cb.watermark
  /\ \A p \in Pools : /\ u.cb.count[p] = 0 /\ u.cb.free[p] = IF w.cb.watermark[p] = 0 THEN NoIndex ELSE 0
                      /\ DOMAIN u[p] = DOMAIN w[p]
                      /\ \A i \in DOMAIN w[p] : /\ Swept(w[p][i], u[p][i])
                                                /\ FreeLink(u, p, i) = NextSlot(w.cb.watermark[p], i)

LEMMA ClearedMade ==
  ASSUME NEW w, Kept(w), NEW u, u = Cleared(w)
  PROVE  ClearedAs(w, u)
<1> DEFINE V == w.cb.watermark["vertices"]
           E == w.cb.watermark["edges"]
           es == [i \in DOMAIN w.edges |-> SweptEdge(w.edges[i], NextSlot(E, i))]
           vs == [i \in DOMAIN w.vertices |-> SweptVertex(w.vertices[i], NextSlot(V, i))]
           free == [p \in Pools |-> IF w.cb.watermark[p] = 0 THEN NoIndex ELSE 0]
           count == [p \in Pools |-> 0]
           c == [w.cb EXCEPT !.free = free, !.count = count]
<1>1. /\ w \in Worlds /\ NoIndex \in Nat /\ V \in Nat /\ E \in Nat
      /\ DOMAIN w.vertices = 0 .. V - 1 /\ DOMAIN w.edges = 0 .. E - 1
      /\ DOMAIN w.vertices \subseteq Nat /\ DOMAIN w.edges \subseteq Nat
  BY SlotsFacts, PoolNames
<1>2. \A i \in Nat : NextSlot(E, i) \in Nat /\ NextSlot(V, i) \in Nat
  BY <1>1 DEF NextSlot
<1>3. (\A i \in DOMAIN w.edges : w.edges[i] \in EdgeSlots) /\ (\A i \in DOMAIN w.vertices : w.vertices[i] \in VertexSlots)
  BY <1>1, SlotFacts
<1>4. u = [w EXCEPT !.edges = es, !.vertices = vs, !.cb = c]
  <2>1. es = [i \in DOMAIN w.edges |-> [Retired(w.edges[i]) EXCEPT !.next.out = IF i + 1 = w.cb.watermark["edges"] THEN NoIndex ELSE i + 1]]
    BY DEF SweptEdge, NextSlot
  <2>2. vs = [i \in DOMAIN w.vertices |->
                [Retired(w.vertices[i]) EXCEPT
                   !.head = [out |-> IF i + 1 = w.cb.watermark["vertices"] THEN NoIndex ELSE i + 1, in |-> NoIndex],
                   !.tail = NoLinks, !.degree = [l \in Lists |-> 0]]]
    BY DEF SweptVertex, NextSlot
  <2> HIDE DEF es, vs
  <2>3. w.cb \in ControlBlocks
    BY <1>1, WorldFacts
  <2> QED
    BY <1>1, <2>1, <2>2 DEF Cleared, Worlds
<1>5. ASSUME NEW i \in DOMAIN w.edges
      PROVE  es[i] \in EdgeSlots /\ Swept(w.edges[i], es[i]) /\ es[i].next["out"] = NextSlot(E, i)
  <2> DEFINE n == NextSlot(E, i)
             x == w.edges[i]
             y == es[i]
  <2>1. n \in Nat /\ x \in EdgeSlots /\ y = SweptEdge(x, n)
    BY <1>1, <1>2, <1>3
  <2> HIDE DEF n, x, y, es
  <2>2. y \in EdgeSlots /\ Swept(x, y) /\ y.next["out"] = n
    BY <2>1, SweptEdgeFacts
  <2> QED
    BY <2>2 DEF n, x, y
<1>6. ASSUME NEW i \in DOMAIN w.vertices
      PROVE  vs[i] \in VertexSlots /\ Swept(w.vertices[i], vs[i]) /\ vs[i].head["out"] = NextSlot(V, i)
  <2> DEFINE n == NextSlot(V, i)
             x == w.vertices[i]
             y == vs[i]
  <2>1. n \in Nat /\ x \in VertexSlots /\ y = SweptVertex(x, n)
    BY <1>1, <1>2, <1>3
  <2> HIDE DEF n, x, y, vs
  <2>2. y \in VertexSlots /\ Swept(x, y) /\ y.head["out"] = n
    BY <2>1, SweptVertexFacts
  <2> QED
    BY <2>2 DEF n, x, y
<1>7. es \in PoolOf(EdgeSlots) /\ vs \in PoolOf(VertexSlots)
  <2>1. es \in [0 .. E - 1 -> EdgeSlots] /\ vs \in [0 .. V - 1 -> VertexSlots]
    BY <1>1, <1>5, <1>6
  <2> HIDE DEF es, vs, E, V
  <2> QED
    BY <1>1, <2>1 DEF PoolOf
<1>8. DOMAIN es = DOMAIN w.edges /\ DOMAIN vs = DOMAIN w.vertices
  OBVIOUS
<1> HIDE DEF es, vs
<1>9. free \in [Pools -> Nat] /\ count \in [Pools -> Int]
  BY <1>1
<1>10. \A p \in Pools : count[p] = 0 /\ free[p] = IF w.cb.watermark[p] = 0 THEN NoIndex ELSE 0
  OBVIOUS
<1> HIDE DEF free, count
<1>c. c = SweptWith(w.cb, free, count)
  BY DEF SweptWith
<1> HIDE DEF c
<1>11. CbLike(w.cb, c) /\ c.free = free /\ c.count = count
  BY <1>1, <1>9, <1>c, SweptCb
<1>12. c \in ControlBlocks
  BY <1>11 DEF CbLike
<1>13. /\ u \in Worlds /\ u.edges = es /\ u.vertices = vs /\ u.cb = c /\ u.weights = w.weights
       /\ u.calls = w.calls /\ u.bytes = w.bytes /\ u.outstanding = w.outstanding /\ u.contract = w.contract
  BY <1>1, <1>4, <1>7, <1>12 DEF Worlds
<1>14. Frame(w, u) /\ u.cb.watermark = w.cb.watermark
  BY <1>11, <1>13 DEF Frame, CbLike
<1>15. ASSUME NEW p \in Pools
       PROVE  /\ DOMAIN u[p] = DOMAIN w[p]
              /\ \A i \in DOMAIN w[p] : /\ Swept(w[p][i], u[p][i])
                                        /\ FreeLink(u, p, i) = NextSlot(w.cb.watermark[p], i)
  <2>1. CASE p = "vertices"
    BY <2>1, <1>6, <1>8, <1>13 DEF FreeLink
  <2>2. CASE p = "edges"
    BY <2>2, <1>5, <1>8, <1>13 DEF FreeLink
  <2> QED
    BY <2>1, <2>2, PoolNames
<1> QED
  BY <1>10, <1>11, <1>13, <1>14, <1>15 DEF ClearedAs

LEMMA ClearedFacts ==
  ASSUME NEW w, Good(w), NEW u, u = Cleared(w)
  PROVE  Good(u) /\ Retires(w, u) /\ Quiet(w, u) /\ u.calls = w.calls
<1>1. Kept(w) /\ ClearedAs(w, u)
  BY ClearedMade DEF Good
<1>2. \A p \in Pools : Used(u, p) = {}
  BY <1>1 DEF Used, ClearedAs, Swept
<1>3. Covered(u)
  <2>1. Covered(w)
    BY <1>1, SlotsFacts
  <2>2. \A e \in DOMAIN u.edges : u.edges[e].active = FALSE
    BY <1>1, PoolNames DEF ClearedAs, Swept
  <2> QED
    BY <1>1, <2>1, <2>2 DEF Covered, ClearedAs, Frame
<1>4. Kept(u)
  BY <1>1, <1>3, KeptOn DEF ClearedAs
<1>5. ASSUME NEW p \in Pools PROVE FreedOn(u, p, DOMAIN u[p])
  <2> DEFINE n == w.cb.watermark[p]
  <2>1. /\ n \in Nat /\ DOMAIN u[p] = 0 .. n - 1 /\ NoIndex \notin 0 .. n - 1 /\ NoIndex \in Nat
        /\ u.cb.free[p] = IF n = 0 THEN NoIndex ELSE 0
    <3>1. DOMAIN w[p] = 0 .. n - 1 /\ n \in Nat /\ NoIndex \notin DOMAIN w[p] /\ NoIndex \in Nat
      BY <1>1, SlotsFacts
    <3> QED
      BY <1>1, <3>1 DEF ClearedAs
  <2>2. \A i \in 0 .. n - 1 : FreeLink(u, p, i) = IF i + 1 = n THEN NoIndex ELSE i + 1
    BY <1>1, <2>1 DEF ClearedAs, NextSlot
  <2> HIDE DEF n
  <2> QED
    BY <2>1, <2>2, FreedAll
<1>6. Formed(u)
  BY <1>1, <1>2, <1>5, BareFormed DEF ClearedAs
<1>7. Retires(w, u)
  BY <1>1 DEF Retires, ClearedAs, Swept
<1> QED
  BY <1>1, <1>4, <1>6, <1>7 DEF Good, Quiet, ClearedAs, Frame

LEMMA ClearDone ==
  ASSUME NEW w, Good(w)
  PROVE  Done(w, Touch(Cleared(w)))
<1> DEFINE u == Cleared(w)
           t == Touch(u)
<1>1. Good(u) /\ Retires(w, u) /\ Quiet(w, u)
  BY ClearedFacts
<1> HIDE DEF u
<1>2. u \in Worlds
  BY <1>1, SlotsFacts DEF Good
<1>3. TwinDone(u, t)
  BY <1>2, TouchTwin DEF TwinDone
<1> HIDE DEF t
<1>4. Done(w, t)
  BY <1>1, <1>3, DoneOn
<1> QED
  BY <1>4 DEF t, u
EmptiedCb(cb, marks, free, count, closed) ==
  [cb EXCEPT !.watermark = marks, !.free = free, !.count = count, !.in_update = closed, !.update_dirty = closed]

LEMMA EmptiedMade ==
  ASSUME NEW w \in Worlds, NEW u, u = Emptied(w)
  PROVE  /\ Frame(w, u) /\ u.vertices = Empty /\ u.edges = Empty /\ u.weights = Empty /\ u.calls = w.calls
         /\ \A p \in Pools : u.cb.watermark[p] = 0 /\ u.cb.free[p] = NoIndex /\ u.cb.count[p] = 0
<1> DEFINE marks == [p \in Pools |-> 0]
           free == [p \in Pools |-> NoIndex]
           no == FALSE
           c == EmptiedCb(w.cb, marks, free, marks, no)
<1>1. w.cb \in ControlBlocks
  BY WorldFacts
<1>2. u = [w EXCEPT !.cb = c, !.vertices = Empty, !.edges = Empty, !.weights = Empty, !.steps = 1, !.touched = TRUE]
  BY ZenonT(30) DEF Emptied, Worlds, EmptiedCb
<1>3. marks \in [Pools -> Nat] /\ marks \in [Pools -> Int] /\ free \in [Pools -> Nat] /\ no \in BOOLEAN
  BY PoolAssumption
<1>4. \A p \in Pools : marks[p] = 0 /\ free[p] = NoIndex
  OBVIOUS
<1> HIDE DEF marks, free, no
<1>5. /\ c \in ControlBlocks /\ c.capacity = w.cb.capacity /\ c.initial = w.cb.initial /\ c.max = w.cb.max
      /\ c.allocator = w.cb.allocator /\ c.weighted = w.cb.weighted /\ c.growable = w.cb.growable
      /\ c.weight_capacity = w.cb.weight_capacity /\ c.work_capacity = w.cb.work_capacity
      /\ c.visited_words = w.cb.visited_words /\ c.watermark = marks /\ c.free = free /\ c.count = marks
  BY <1>1, <1>3 DEF ControlBlocks, EmptiedCb
<1> HIDE DEF c
<1>6. Empty \in PoolOf(EdgeSlots) /\ Empty \in PoolOf(VertexSlots) /\ Empty \in UNION {[D -> Weights] : D \in SUBSET Nat}
  <2>1. \A S : Empty \in [0 .. 0 - 1 -> S]
    BY DEF Empty
  <2>2. \A S : Empty \in PoolOf(S)
    BY <2>1 DEF PoolOf
  <2>3. \A S : Empty \in [{} -> S]
    BY DEF Empty
  <2> QED
    BY <2>2, <2>3
<1> DEFINE e == Empty
           yes == TRUE
           W1 == UNION {[D -> Weights] : D \in SUBSET Nat}
<1>7. /\ e = Empty /\ e \in PoolOf(EdgeSlots) /\ e \in PoolOf(VertexSlots) /\ e \in W1 /\ yes \in BOOLEAN
      /\ u = [w EXCEPT !.cb = c, !.vertices = e, !.edges = e, !.weights = e, !.steps = 1, !.touched = yes]
      /\ Worlds = [cb : ControlBlocks, vertices : PoolOf(VertexSlots), edges : PoolOf(EdgeSlots), weights : W1,
                   bytes : [Blocks -> Int], outstanding : Int, contract : BOOLEAN,
                   calls : SUBSET {"alloc", "realloc", "free", "refused"}, steps : Int, touched : BOOLEAN]
  BY <1>2, <1>6 DEF Worlds
<1> HIDE DEF e, yes, W1
<1>8. /\ u \in Worlds /\ u.cb = c /\ u.vertices = e /\ u.edges = e /\ u.weights = e /\ u.calls = w.calls
      /\ u.bytes = w.bytes /\ u.outstanding = w.outstanding /\ u.contract = w.contract
  <2>1. /\ w.bytes \in [Blocks -> Int] /\ w.outstanding \in Int /\ w.contract \in BOOLEAN
        /\ w.calls \in SUBSET {"alloc", "realloc", "free", "refused"}
        /\ w = [cb |-> w.cb, vertices |-> w.vertices, edges |-> w.edges, weights |-> w.weights, bytes |-> w.bytes,
                outstanding |-> w.outstanding, contract |-> w.contract, calls |-> w.calls, steps |-> w.steps,
                touched |-> w.touched]
    BY DEF Worlds
  <2>2. u = [cb |-> c, vertices |-> e, edges |-> e, weights |-> e, bytes |-> w.bytes,
             outstanding |-> w.outstanding, contract |-> w.contract, calls |-> w.calls, steps |-> 1,
             touched |-> yes]
    BY <1>7, <2>1
  <2>3. u \in Worlds
    BY <1>5, <1>7, <2>1, <2>2
  <2> QED
    BY <2>2, <2>3
<1> QED
  BY <1>4, <1>5, <1>7, <1>8 DEF Frame

LEMMA EmptiedFacts ==
  ASSUME NEW w, Good(w), NEW u, u = Emptied(w)
  PROVE  Good(u) /\ Quiet(w, u) /\ u.cb.initial = w.cb.initial
<1>1. Kept(w) /\ w \in Worlds
  BY SlotsFacts DEF Good
<1>2. /\ Frame(w, u) /\ u.vertices = Empty /\ u.edges = Empty /\ u.weights = Empty /\ u.calls = w.calls
      /\ \A p \in Pools : u.cb.watermark[p] = 0 /\ u.cb.free[p] = NoIndex /\ u.cb.count[p] = 0
  BY <1>1, EmptiedMade
<1>3. \A p \in Pools : u[p] = Empty
  BY <1>2, PoolNames
<1>4. DOMAIN Empty = {} /\ 0 .. 0 - 1 = {}
  BY DEF Empty
<1>5. Covered(u)
  <2>1. \A p \in Pools : u.cb.capacity[p] \in Nat
    BY <1>1, <1>2, KeptFacts DEF Frame
  <2> QED
    BY <1>2, <1>3, <1>4, <2>1, PoolNames DEF Covered
<1>6. Kept(u)
  BY <1>1, <1>2, <1>5, KeptOn
<1>7. \A p \in Pools : Used(u, p) = {} /\ FreedOn(u, p, DOMAIN u[p])
  BY <1>2, <1>3, <1>4, FreedNone DEF Used
<1>8. Formed(u)
  BY <1>2, <1>7, BareFormed
<1> QED
  BY <1>2, <1>6, <1>8 DEF Good, Quiet, Frame

LEMMA ResetDone ==
  ASSUME NEW w, Good(w), NEW r \in ResizeBoth(Emptied(w), w.cb.initial)
  PROVE  Good(r.w) /\ Quiet(w, r.w)
<1> DEFINE u == Emptied(w)
           target == w.cb.initial
           v == r.w
<1>1. Good(u) /\ Quiet(w, u) /\ u.cb.initial = target
  BY EmptiedFacts
<1>2. r \in ResizeBoth(u, target)
  OBVIOUS
<1> HIDE DEF u
<1>3. Kept(u) /\ u \in Worlds
  BY <1>1, SlotsFacts DEF Good
<1>4. u.cb \in ControlBlocks /\ Settled(u.cb)
  BY <1>3, WorldFacts DEF Kept
<1>5. target \in [Pools -> Nat]
  BY <1>1, <1>4 DEF ControlBlocks
<1>6. \A p \in Pools : u.cb.max[p] # 0 => target[p] <= u.cb.max[p]
  <2>1. \A p \in Pools : target[p] \in Nat
    BY <1>5
  <2>2. u.cb.growable \in BOOLEAN
    BY <1>4, CbFacts
  <2> QED
    BY <1>1, <1>4, <2>1, <2>2 DEF Settled
<1>7. target = u.cb.initial
  BY <1>1
<1> HIDE DEF target
<1>8. Refit(u, r.w)
  BY <1>2, <1>3, <1>5, <1>6, <1>7, BothRefit
<1>9. r.w = v
  OBVIOUS
<1> HIDE DEF v
<1>10. Good(v) /\ Quiet(u, v)
  BY <1>1, <1>8, <1>9, RefitGood DEF Unmoved
<1>11. Quiet(w, v)
  BY <1>1, <1>10, QuietOn
<1> QED
  BY <1>9, <1>10, <1>11

(* dv_graph_shrink_to_fit *)
LEMMA ShrunkDone ==
  ASSUME NEW w, Good(w), w.cb.growable, NEW r \in ResizeBoth(w, w.cb.watermark)
  PROVE  Done(w, FreeScratch(r.w))
<1> DEFINE target == w.cb.watermark
           v == r.w
           t == FreeScratch(v)
<1>1. Kept(w)
  BY DEF Good
<1>2. target \in [Pools -> Nat] /\ \A p \in Pools : w.cb.max[p] # 0 => target[p] <= w.cb.max[p]
  <2>1. w.cb \in ControlBlocks
    BY <1>1, SlotsFacts, WorldFacts
  <2>2. target \in [Pools -> Nat]
    BY <2>1 DEF ControlBlocks
  <2>3. \A p \in Pools : /\ w.cb.watermark[p] <= w.cb.capacity[p] /\ w.cb.watermark[p] \in Nat /\ w.cb.capacity[p] \in Nat
                         /\ w.cb.max[p] \in Nat /\ (w.cb.max[p] # 0 => w.cb.capacity[p] <= w.cb.max[p])
    BY <1>1, KeptFacts
  <2> QED
    BY <2>2, <2>3
<1>3. r \in ResizeBoth(w, target)
  OBVIOUS
<1> HIDE DEF target
<1>4. Refit(w, r.w)
  BY <1>1, <1>2, <1>3, BothRefit
<1>5. Refit(w, v)
  BY <1>4
<1>6. t = FreeScratch(r.w)
  OBVIOUS
<1> HIDE DEF v
<1>7. Kept(v) /\ v.cb.growable
  BY <1>5 DEF Refit, SameButMemory
<1>8. Refit(v, t)
  BY <1>7, FreeRefit
<1> HIDE DEF t
<1>9. Refit(w, t)
  BY <1>5, <1>8, RefitOn
<1>10. Done(w, t)
  BY <1>9, RefitDone
<1> QED
  BY <1>6, <1>10
(* dv_graph_set_edge_weight *)
LEMMA WeightDone ==
  ASSUME NEW w, Good(w), NEW e \in Used(w, "edges"), w.bytes.weights # 0, NEW weight \in Weights,
         NEW u, u = [w EXCEPT !.weights[e] = weight]
  PROVE  Done(w, u)
<1>1. Kept(w) /\ w \in Worlds /\ Covered(w) /\ Sound(w)
  BY SlotsFacts DEF Good, Kept
<1>2. e \in DOMAIN w.weights
  <2>1. w.cb.weighted
    BY <1>1 DEF Sound
  <2>2. e \in DOMAIN w.edges /\ w.edges[e].active
    BY DEF Used
  <2> QED
    BY <1>1, <2>1, <2>2 DEF Covered
<1> DEFINE ws == [w.weights EXCEPT ![e] = weight]
<1>3. /\ w.weights \in [DOMAIN w.weights -> Weights] /\ DOMAIN w.weights \subseteq Nat
  BY <1>1, WorldFacts
<1>4. ws \in [DOMAIN w.weights -> Weights] /\ DOMAIN ws = DOMAIN w.weights
  BY <1>2, <1>3
<1>5. u = [w EXCEPT !.weights = ws]
  OBVIOUS
<1> HIDE DEF ws
<1>6. ws \in UNION {[D -> Weights] : D \in SUBSET Nat}
  BY <1>3, <1>4
<1>7. /\ u \in Worlds /\ u.cb = w.cb /\ u.vertices = w.vertices /\ u.edges = w.edges /\ u.weights = ws
      /\ u.bytes = w.bytes /\ u.outstanding = w.outstanding /\ u.contract = w.contract /\ u.calls = w.calls
  BY <1>1, <1>5, <1>6 DEF Worlds
<1>8. Frame(w, u) /\ Quiet(w, u)
  BY <1>7 DEF Frame, Quiet
<1>9. Covered(u)
  <2>1. \A p \in Pools : u[p] = w[p]
    BY <1>7, PoolNames
  <2> QED
    BY <1>1, <1>4, <1>7, <2>1 DEF Covered
<1>10. Kept(u)
  BY <1>1, <1>8, <1>9, KeptOn
<1>11. Formed(u)
  BY <1>7, FormedSame DEF Good
<1>12. Adds(w, u)
  BY <1>7, SameSlots
<1> QED
  BY <1>8, <1>10, <1>11, <1>12, AgesFacts DEF Done, Good

(* dv_graph_find_edge: what the search finds is an edge in use. *)
LEMMA HitFound ==
  ASSUME NEW w, Good(w), NEW l \in Lists, NEW v \in Used(w, "vertices"), NEW u
  PROVE  Hit(w, l, v, u) = NoIndex \/ Hit(w, l, v, u) \in Used(w, "edges")
<1> DEFINE list == ListOf(w, l, v)
           far(e) == IF l = "out" THEN w.edges[e].dst ELSE w.edges[e].src
           hits == {k \in DOMAIN list : far(list[k]) = u}
           M == Of(w, l, v)
<1>1. IsFiniteSet(Used(w, "edges")) /\ M \subseteq Used(w, "edges")
  BY SlotsFacts, PoolNames DEF Good, Of
<1>2. IsFiniteSet(M)
  BY <1>1, SubsetFinite
<1>3. Enumerates(list, M)
  BY ListFacts DEF ListedOn
<1>4. Hit(w, l, v, u) = IF hits = {} THEN NoIndex ELSE list[CHOOSE k \in hits : \A j \in hits : k <= j]
  BY DEF Hit
<1> HIDE DEF list, M
<1>5. Len(list) \in Nat /\ DOMAIN list = 1 .. Len(list) /\ \A k \in 1 .. Len(list) : list[k] \in M
  BY <1>2, <1>3, EnumeratesFacts
<1>6. CASE hits = {}
  BY <1>4, <1>6
<1>7. CASE hits # {}
  <2>1. hits \subseteq Nat /\ hits \subseteq DOMAIN list
    BY <1>5
  <2> DEFINE H == hits
  <2>2. \E m \in H : \A k \in H : m <= k
    <3>1. H \subseteq Nat /\ H # {}
      BY <1>7, <2>1
    <3> HIDE DEF H, hits
    <3> QED
      BY <3>1, LeastNat
  <2> DEFINE k == CHOOSE m \in hits : \A j \in hits : m <= j
  <2>3. k \in hits
    BY <2>2
  <2>4. Hit(w, l, v, u) = list[k]
    BY <1>4, <1>7
  <2> HIDE DEF k, hits
  <2> QED
    BY <1>1, <1>5, <2>1, <2>3, <2>4
<1> QED
  BY <1>6, <1>7

LEMMA LocateFound ==
  ASSUME NEW w, Good(w), NEW a \in Used(w, "vertices"), NEW b \in Used(w, "vertices")
  PROVE  LocateEdge(w, a, b) = NoIndex \/ LocateEdge(w, a, b) \in Used(w, "edges")
<1> DEFINE Found(e) == e = NoIndex \/ e \in Used(w, "edges")
<1>1. \A l \in Lists : Found(Hit(w, l, a, b)) /\ Found(Hit(w, l, b, a))
  BY HitFound
<1>2. "out" \in Lists /\ "in" \in Lists
  BY DEF Lists
<1> HIDE DEF Found
<1>3. Found(LocateEdge(w, a, b))
  BY <1>1, <1>2 DEF LocateEdge
<1> QED
  BY <1>3 DEF Found
(***************************************************************************)
(* Batches.                                                                *)
(***************************************************************************)
Grown(w, u) == Good(u) /\ Adds(w, u) /\ Quiet(w, u)

RunsIn(w) == {run \in [w : Worlds, out : Seq(Nat), stopped : BOOLEAN] : Grown(w, run.w)}

Fits(p, item) == p = "edges" => item.src.index \in Nat /\ item.dst.index \in Nat /\ item.weight \in Weights

LEMMA GrownTwin ==
  ASSUME NEW w, NEW u, Grown(w, u), NEW t, TwinDone(u, t)
  PROVE  Grown(w, t)
<1>1. Good(t)
  BY TwinFacts DEF Good, TwinDone, Grown
<1>2. Adds(u, t)
  BY SameSlots DEF TwinDone, Twin
<1>3. Adds(w, t)
  BY <1>2, AddsOn DEF Grown
<1>4. Quiet(w, t)
  BY DEF TwinDone, Twin, Quiet, Frame, Grown
<1> QED
  BY <1>1, <1>3, <1>4 DEF Grown

LEMMA GrownOn ==
  ASSUME NEW w, NEW u, NEW v, Grown(w, u), Grown(u, v)
  PROVE  Grown(w, v)
<1>1. Adds(w, v) /\ Quiet(w, v)
  BY AddsOn, QuietOn DEF Grown
<1> QED
  BY <1>1 DEF Grown

LEMMA NextRun ==
  ASSUME NEW w, NEW run \in RunsIn(w), NEW p \in Pools, NEW item, Fits(p, item), NEW x \in InsertNext(run, p, item)
  PROVE  x \in RunsIn(w)
<1>1. run \in [w : Worlds, out : Seq(Nat), stopped : BOOLEAN] /\ Grown(w, run.w)
  BY DEF RunsIn
<1>2. CASE run.stopped
  BY <1>2 DEF InsertNext
<1>3. CASE ~run.stopped
  <2> DEFINE u == run.w
  <2>1. PICK r \in IF p = "vertices" THEN AddVertexTo(u) ELSE AddEdgeTo(u, item.src, item.dst, item.weight) :
          x = IF r.status = "OK" THEN [run EXCEPT !.w = r.w, !.out = Append(@, r.index)]
              ELSE [run EXCEPT !.w = r.w, !.stopped = TRUE]
    BY <1>3 DEF InsertNext
  <2>2. Grown(w, u) /\ Good(u)
    BY <1>1 DEF Grown
  <2> HIDE DEF u
  <2>3. AddDone(u, p, r)
    <3>1. CASE p = "vertices"
      <4>1. r \in AddVertexTo(u)
        BY <2>1, <3>1
      <4>2. AddDone(u, "vertices", r)
        BY <2>2, <4>1, AddVertexFacts
      <4> QED
        BY <3>1, <4>2
    <3>2. CASE p = "edges"
      <4> DEFINE src == item.src
                 dst == item.dst
                 weight == item.weight
      <4>1. r \in AddEdgeTo(u, src, dst, weight) /\ src.index \in Nat /\ dst.index \in Nat /\ weight \in Weights
        BY <2>1, <3>2 DEF Fits
      <4> HIDE DEF src, dst, weight
      <4>2. AddDone(u, "edges", r)
        BY <2>2, <4>1, AddEdgeFacts
      <4> QED
        BY <3>2, <4>2
    <3> QED
      BY <3>1, <3>2, PoolNames
  <2> DEFINE v == r.w
             i == r.index
  <2>4. Grown(u, v) /\ (r.status = "OK" => i \in Used(v, p))
    BY <2>3 DEF AddDone, Grown
  <2>5. x = IF r.status = "OK" THEN [run EXCEPT !.w = v, !.out = Append(@, i)]
              ELSE [run EXCEPT !.w = v, !.stopped = TRUE]
    BY <2>1
  <2> HIDE DEF v, i
  <2>6. Grown(w, v)
    BY <2>2, <2>4, GrownOn
  <2>7. v \in Worlds /\ (i \in Used(v, p) => i \in Nat)
    BY <2>4, SlotsFacts DEF Grown, Good
  <2>8. r.status = "OK" => Append(run.out, i) \in Seq(Nat)
    BY <1>1, <2>4, <2>7
  <2>9. x \in [w : Worlds, out : Seq(Nat), stopped : BOOLEAN] /\ x.w = v
    BY <1>1, <2>5, <2>7, <2>8
  <2> QED
    BY <2>6, <2>9 DEF RunsIn
<1> QED
  BY <1>2, <1>3

RunsOf(p, n, items, first) ==
  CHOOSE g : g = [k \in 0 .. n |-> IF k = 0 THEN first
                                   ELSE UNION {InsertNext(run, p, items[k]) : run \in g[k - 1]}]

LEMMA RunsExist ==
  ASSUME NEW w, NEW p \in Pools, NEW n \in Nat, NEW items, \A k \in 1 .. n : Fits(p, items[k]),
         NEW first, first \subseteq RunsIn(w),
         NEW runs, runs = RunsOf(p, n, items, first)
  PROVE  runs[n] \subseteq RunsIn(w)
<1> DEFINE R == RunsIn(w)
           A == [k \in 0 .. n |-> SUBSET R]
           next(k, S) == UNION {InsertNext(run, p, items[k]) : run \in S}
           step == [k \in 1 .. n |-> [S \in A[k - 1] |-> next(k, S)]]
           body(g) == [k \in 0 .. n |-> IF k = 0 THEN first ELSE next(k, g[k - 1])]
<1>1. first \in A[0]
  OBVIOUS
<1>2. ASSUME NEW k \in 1 .. n, NEW S \in SUBSET R PROVE next(k, S) \in SUBSET R
  <2> SUFFICES ASSUME NEW run \in S, NEW x \in InsertNext(run, p, items[k]) PROVE x \in R
    OBVIOUS
  <2> DEFINE item == items[k]
  <2>1. run \in RunsIn(w) /\ Fits(p, item) /\ x \in InsertNext(run, p, item)
    OBVIOUS
  <2> HIDE DEF item
  <2>2. x \in RunsIn(w)
    BY <2>1, NextRun
  <2> QED
    BY <2>2
<1> HIDE DEF R, next
<1>3. PICK f : RunsTo(f, n, A, first, step)
  <2>1. \A k \in 1 .. n : step[k] \in [A[k - 1] -> A[k]]
    BY <1>2
  <2>2. Rounds(n, A, first, step)
    BY <1>1, <2>1 DEF Rounds
  <2> HIDE DEF A, step
  <2> QED
    BY <2>2, ChainExists
<1>4. f = body(f)
  <2>1. ASSUME NEW k \in 0 .. n PROVE f[k] = IF k = 0 THEN first ELSE next(k, f[k - 1])
    <3>1. CASE k = 0
      BY <1>3, <3>1 DEF RunsTo
    <3>2. CASE k # 0
      <4>1. k \in 1 .. n /\ k - 1 \in 0 .. n
        BY <3>2
      <4>2. f[k] = step[k][f[k - 1]] /\ f[k - 1] \in A[k - 1]
        <5> HIDE DEF A, step
        <5> QED
          BY <1>3, <3>2, <4>1 DEF RunsTo
      <4> HIDE DEF A
      <4> QED
        BY <3>2, <4>1, <4>2
    <3> QED
      BY <3>1, <3>2
  <2>2. f = [k \in 0 .. n |-> f[k]]
    <3> HIDE DEF A, step
    <3> QED
      BY <1>3 DEF RunsTo
  <2> QED
    BY <2>1, <2>2
<1>5. runs = CHOOSE g : g = body(g)
  BY DEF next, RunsOf
<1>6. runs = body(runs)
  BY <1>4, <1>5
<1> HIDE DEF step, A
<1> DEFINE B == {k \in Nat : k <= n => runs[k] \subseteq R}
<1>7. 0 \in B
  <2>1. runs[0] = first
    BY <1>6
  <2> QED
    BY <2>1 DEF R
<1>8. ASSUME NEW k \in B PROVE k + 1 \in B
  <2> SUFFICES ASSUME k + 1 <= n PROVE runs[k + 1] \subseteq R
    BY <1>8
  <2>1. k + 1 \in 1 .. n /\ k + 1 \in 0 .. n /\ k + 1 # 0 /\ (k + 1) - 1 = k /\ k <= n
    OBVIOUS
  <2>2. runs[k] \in SUBSET R
    BY <1>8, <2>1
  <2>3. runs[k + 1] = next(k + 1, runs[k])
    BY <1>6, <2>1
  <2> QED
    BY <1>2, <2>1, <2>2, <2>3
<1>9. n \in B
  <2>1. B \subseteq Nat
    OBVIOUS
  <2> HIDE DEF B
  <2> QED
    BY <1>7, <1>8, <2>1, Induction
<1> QED
  BY <1>9 DEF R
LEMMA BatchStart ==
  ASSUME NEW w, Good(w), NEW p \in Pools, NEW n \in Nat,
         NEW u \in IF w.cb.growable THEN ReserveForBulk(w, p, n) ELSE {w}
  PROVE  [w |-> BatchBegin(u), out |-> <<>>, stopped |-> FALSE] \in RunsIn(w)
<1> DEFINE t == BatchBegin(u)
<1>1. Kept(w) /\ IsFiniteSet(Used(w, p)) /\ Counted(w)
  BY SlotsFacts DEF Good, Formed
<1>2. 0 <= w.cb.count[p]
  <2>1. w.cb.count[p] \in Nat
    BY <1>1, FS_CardinalityType DEF Counted
  <2> QED
    BY <2>1
<1>3. Refit(w, u)
  <2>1. CASE w.cb.growable
    BY <1>1, <1>2, <2>1, BulkRefit
  <2>2. CASE ~w.cb.growable
    BY <1>1, <2>2, KeptFacts
  <2> QED
    BY <2>1, <2>2
<1>4. Grown(w, u) /\ u \in Worlds
  BY <1>3, RefitGood, SlotsFacts DEF Unmoved, Grown, Good
<1>5. TwinDone(u, t)
  BY <1>4, PhaseFacts DEF TwinDone
<1> HIDE DEF t
<1>6. Grown(w, t)
  BY <1>4, <1>5, GrownTwin
<1>7. t \in Worlds
  BY <1>6, SlotsFacts DEF Grown, Good
<1> DEFINE run == [w |-> t, out |-> <<>>, stopped |-> FALSE]
<1>8. run \in [w : Worlds, out : Seq(Nat), stopped : BOOLEAN] /\ run.w = t
  BY <1>7
<1> HIDE DEF run
<1>9. run \in RunsIn(w)
  BY <1>6, <1>8 DEF RunsIn
<1> QED
  BY <1>9 DEF run, t

(* dv_graph_add_vertices and dv_graph_add_edges *)
LEMMA InsertDone ==
  ASSUME NEW w, Good(w), NEW p \in Pools, NEW items, Len(items) \in Nat,
         \A k \in 1 .. Len(items) : Fits(p, items[k]), NEW r \in Insert(w, p, items)
  PROVE  Done(w, r.w)
<1>1. CASE items = <<>>
  <2>1. r.w = w
    BY <1>1 DEF Insert
  <2>2. Adds(w, w) /\ Quiet(w, w)
    BY SameSlots DEF Quiet
  <2> QED
    BY <2>1, <2>2, AgesFacts DEF Done
<1>2. CASE items # <<>>
  <2> DEFINE n == Len(items)
             start == IF w.cb.growable THEN ReserveForBulk(w, p, n) ELSE {w}
             first == {[w |-> BatchBegin(u), out |-> <<>>, stopped |-> FALSE] : u \in start}
             runs == RunsOf(p, n, items, first)
             outer == w.cb.in_update
  <2>1. first \subseteq RunsIn(w)
    BY BatchStart
  <2>2. Insert(w, p, items) = {[w |-> BatchEnd(run.w, outer), out |-> run.out] : run \in runs[n]}
    BY <1>2 DEF Insert, RunsOf
  <2>3. n \in Nat /\ \A k \in 1 .. n : Fits(p, items[k])
    OBVIOUS
  <2>4. runs = RunsOf(p, n, items, first)
    OBVIOUS
  <2> HIDE DEF first, runs, n
  <2>5. runs[n] \subseteq RunsIn(w)
    BY <2>1, <2>3, <2>4, RunsExist
  <2>6. PICK run \in RunsIn(w) : r = [w |-> BatchEnd(run.w, outer), out |-> run.out]
    BY <2>2, <2>5
  <2> DEFINE u == run.w
             t == BatchEnd(u, outer)
  <2>7. Grown(w, u) /\ r.w = t
    BY <2>6 DEF RunsIn
  <2> HIDE DEF u
  <2>8. u \in Worlds
    BY <2>7, SlotsFacts DEF Grown, Good
  <2>9. outer \in BOOLEAN
    BY SlotsFacts, Plain DEF Good
  <2> HIDE DEF outer
  <2>10. TwinDone(u, t)
    BY <2>8, <2>9, PhaseFacts DEF TwinDone
  <2> HIDE DEF t
  <2>11. Grown(w, t)
    BY <2>7, <2>10, GrownTwin
  <2>12. Done(w, t)
    BY <2>11, AgesFacts DEF Grown, Done
  <2> QED
    BY <2>7, <2>12
<1> QED
  BY <1>1, <1>2
(***************************************************************************)
(* dv_graph_init.                                                          *)
(***************************************************************************)
Configurations ==
  [directed : BOOLEAN, weighted : BOOLEAN, growable : BOOLEAN,
   reject_parallel_edges : BOOLEAN, reject_self_loops : BOOLEAN,
   initial : [Pools -> Nat], max : [Pools -> Nat]]
Hooks == [alloc : BOOLEAN, realloc : BOOLEAN, free : BOOLEAN]

(* What the control block starts as. *)
Started(cb, config, allocator) ==
  /\ cb \in ControlBlocks /\ cb.initial = config.initial /\ cb.growable = config.growable
  /\ cb.allocator = allocator /\ cb.weight_capacity = 0 /\ cb.work_capacity = 0 /\ cb.visited_words = 0
  /\ \A p \in Pools : cb.capacity[p] = 0 /\ cb.watermark[p] = 0 /\ cb.count[p] = 0 /\ cb.free[p] = NoIndex
  /\ cb.max = IF config.growable THEN config.max ELSE config.initial

LEMMA ZeroedFacts ==
  /\ Zeroed \in ControlBlocks /\ Zeroed.weight_capacity = 0 /\ Zeroed.work_capacity = 0 /\ Zeroed.visited_words = 0
  /\ \A p \in Pools : Zeroed.capacity[p] = 0 /\ Zeroed.watermark[p] = 0 /\ Zeroed.count[p] = 0
                      /\ Zeroed.free[p] = 0 /\ Zeroed.max[p] = 0 /\ Zeroed.initial[p] = 0
  /\ Zeroed.allocator.alloc = FALSE /\ Zeroed.growable = FALSE /\ Zeroed.weighted = FALSE
<1> DEFINE zero == [p \in Pools |-> 0]
           none == [alloc |-> FALSE, realloc |-> FALSE, free |-> FALSE]
<1>1. zero \in [Pools -> Nat] /\ zero \in [Pools -> Int] /\ none \in [alloc : BOOLEAN, realloc : BOOLEAN, free : BOOLEAN]
  OBVIOUS
<1>2. (\A p \in Pools : zero[p] = 0) /\ none.alloc = FALSE
  OBVIOUS
<1>3. Zeroed = [capacity |-> zero, count |-> zero, free |-> zero, watermark |-> zero, initial |-> zero, max |-> zero,
                weight_capacity |-> 0, work_capacity |-> 0, visited_words |-> 0, allocator |-> none,
                directed |-> FALSE, weighted |-> FALSE, growable |-> FALSE, reject_parallel_edges |-> FALSE,
                reject_self_loops |-> FALSE, in_update |-> FALSE, update_dirty |-> FALSE]
  BY DEF Zeroed
<1> HIDE DEF zero, none
<1>4. Zeroed \in ControlBlocks
  BY <1>1, <1>3 DEF ControlBlocks
<1> QED
  BY <1>2, <1>3, <1>4

LEMMA ConfiguredFacts ==
  ASSUME NEW config \in Configurations, NEW allocator \in Hooks, NEW cb, cb = Configured(config, allocator)
  PROVE  Started(cb, config, allocator)
<1> DEFINE free == [p \in Pools |-> NoIndex]
           initial == config.initial
           max == IF config.growable THEN config.max ELSE config.initial
           directed == config.directed
           weighted == config.weighted
           growable == config.growable
           parallel == config.reject_parallel_edges
           loops == config.reject_self_loops
           zero == Zeroed
<1>1. /\ free \in [Pools -> Nat] /\ initial \in [Pools -> Nat] /\ max \in [Pools -> Nat]
      /\ directed \in BOOLEAN /\ weighted \in BOOLEAN /\ growable \in BOOLEAN /\ parallel \in BOOLEAN /\ loops \in BOOLEAN
  BY PoolAssumption DEF Configurations
<1>2. \A p \in Pools : free[p] = NoIndex
  OBVIOUS
<1>3. cb = [zero EXCEPT !.free = free, !.initial = initial, !.max = max, !.allocator = allocator,
                        !.directed = directed, !.weighted = weighted, !.growable = growable,
                        !.reject_parallel_edges = parallel, !.reject_self_loops = loops]
  BY DEF Configured
<1>4. /\ zero \in ControlBlocks /\ zero.weight_capacity = 0 /\ zero.work_capacity = 0 /\ zero.visited_words = 0
      /\ \A p \in Pools : zero.capacity[p] = 0 /\ zero.watermark[p] = 0 /\ zero.count[p] = 0
  BY ZeroedFacts
<1> HIDE DEF free, initial, max, directed, weighted, growable, parallel, loops, zero
<1>5. /\ cb.capacity = zero.capacity /\ cb.watermark = zero.watermark /\ cb.count = zero.count /\ cb.free = free
      /\ cb.weight_capacity = zero.weight_capacity /\ cb.work_capacity = zero.work_capacity
      /\ cb.visited_words = zero.visited_words
      /\ cb.initial = initial /\ cb.max = max /\ cb.growable = growable /\ cb.allocator = allocator
  BY <1>3, <1>4 DEF ControlBlocks
<1>6. cb \in ControlBlocks
  <2>1. /\ zero.capacity \in [Pools -> Nat] /\ zero.count \in [Pools -> Int] /\ zero.watermark \in [Pools -> Nat]
        /\ zero.weight_capacity \in Nat /\ zero.work_capacity \in Nat /\ zero.visited_words \in Nat
        /\ zero.in_update \in BOOLEAN /\ zero.update_dirty \in BOOLEAN
    BY <1>4 DEF ControlBlocks
  <2>2. cb = [capacity |-> zero.capacity, count |-> zero.count, free |-> free, watermark |-> zero.watermark,
              initial |-> initial, max |-> max, weight_capacity |-> zero.weight_capacity,
              work_capacity |-> zero.work_capacity, visited_words |-> zero.visited_words, allocator |-> allocator,
              directed |-> directed, weighted |-> weighted, growable |-> growable,
              reject_parallel_edges |-> parallel, reject_self_loops |-> loops,
              in_update |-> zero.in_update, update_dirty |-> zero.update_dirty]
    BY <1>3, <1>4 DEF ControlBlocks
  <2> QED
    BY <1>1, <2>1, <2>2 DEF ControlBlocks, Hooks
<1> QED
  BY <1>2, <1>4, <1>5, <1>6 DEF Started, initial, max, growable
LEMMA RefusalFacts ==
  ASSUME NEW config \in Configurations, NEW allocator \in Hooks, Refusal(config, allocator) = "none",
         NEW cb, Started(cb, config, allocator)
  PROVE  allocator.alloc /\ allocator.free /\ Settled(cb)
<1>1. /\ allocator.alloc /\ allocator.free
      /\ ~(config.growable /\ \E p \in Pools : config.max[p] # 0 /\ config.max[p] < config.initial[p])
  BY DEF Refusal
<1>2. config.initial \in [Pools -> Nat] /\ config.max \in [Pools -> Nat] /\ config.growable \in BOOLEAN
  BY DEF Configurations
<1>3. \A p \in Pools : config.initial[p] \in Nat /\ config.max[p] \in Nat
  BY <1>2
<1>4. cb.initial = config.initial /\ cb.growable = config.growable
      /\ cb.max = IF config.growable THEN config.max ELSE config.initial
  BY DEF Started
<1>5. Settled(cb)
  BY <1>1, <1>2, <1>3, <1>4 DEF Settled
<1> QED
  BY <1>1, <1>5

LEMMA StartedFacts ==
  ASSUME NEW w \in Worlds, Blank(w), NEW config \in Configurations, NEW allocator \in Hooks,
         allocator.alloc, allocator.free, NEW cb, Started(cb, config, allocator), NEW v, v = [w EXCEPT !.cb = cb]
  PROVE  Sound(v) /\ Formed(v) /\ v.cb = cb
<1>1. cb \in ControlBlocks /\ cb.allocator = allocator
  BY DEF Started
<1>2. /\ v \in Worlds /\ v.cb = cb /\ v.vertices = w.vertices /\ v.edges = w.edges /\ v.weights = w.weights
      /\ v.bytes = w.bytes /\ v.outstanding = w.outstanding /\ v.contract = w.contract
  BY <1>1 DEF Worlds
<1>3. DOMAIN Empty = {} /\ 0 .. 0 - 1 = {}
  BY DEF Empty
<1>4. v.edges = Empty /\ v.weights = Empty /\ \A p \in Pools : v[p] = Empty
  BY <1>2, PoolNames DEF Blank
<1>5. \A b \in Blocks : v.bytes[b] = 0
  BY <1>2 DEF Blank
<1>6. /\ v.bytes.vertices = 0 /\ v.bytes.edges = 0 /\ v.bytes.weights = 0 /\ v.bytes.work = 0 /\ v.bytes.visited = 0
      /\ \A p \in Pools : v.bytes[p] = 0
  BY <1>5 DEF Blocks, Pools
<1>7. v.contract /\ Balanced(v)
  BY <1>2, <1>6 DEF Balanced, Total, Blank
<1>8. BytesFit(0, 32) /\ BytesFit(0, 8)
  BY DEF BytesFit
<1>9. /\ cb.weight_capacity = 0 /\ cb.work_capacity = 0 /\ cb.visited_words = 0
      /\ \A p \in Pools : cb.capacity[p] = 0 /\ cb.watermark[p] = 0 /\ cb.count[p] = 0 /\ cb.free[p] = NoIndex
  BY DEF Started
<1>10. cb.capacity.edges = 0 /\ cb.watermark.edges = 0
  BY <1>9, PoolNames
<1>11. Sound(v)
  <2>1. v.cb.allocator.alloc /\ v.cb.allocator.free
    BY <1>1, <1>2
  <2>2. \A p \in Pools : /\ DOMAIN v[p] = 0 .. v.cb.watermark[p] - 1
                         /\ v.cb.watermark[p] <= v.cb.capacity[p] /\ v.cb.capacity[p] <= MaxCapacity
                         /\ BytesFit(v.cb.capacity[p], 32) /\ v.bytes[p] = v.cb.capacity[p] * 32
    BY <1>2, <1>3, <1>4, <1>6, <1>8, <1>9, PoolAssumption
  <2>3. IF v.cb.weighted THEN v.cb.weight_capacity >= v.cb.capacity.edges ELSE v.cb.weight_capacity = 0
    BY <1>2, <1>9, <1>10
  <2>4. DOMAIN v.weights \subseteq 0 .. v.cb.watermark.edges - 1
        /\ (v.cb.weighted => \A e \in DOMAIN v.edges : v.edges[e].active => e \in DOMAIN v.weights)
    BY <1>3, <1>4
  <2>5. /\ BytesFit(v.cb.weight_capacity, 8) /\ v.bytes.weights = v.cb.weight_capacity * 8
        /\ v.bytes.work = v.cb.work_capacity * 8 /\ v.bytes.visited = v.cb.visited_words * 8
    BY <1>2, <1>6, <1>8, <1>9
  <2> QED
    BY <1>2, <1>7, <2>1, <2>2, <2>3, <2>4, <2>5 DEF Sound
<1>12. \A p \in Pools : Used(v, p) = {} /\ FreedOn(v, p, DOMAIN v[p])
  <2> TAKE p \in Pools
  <2>1. v[p] = Empty /\ DOMAIN v[p] = {} /\ v.cb.free[p] = NoIndex
    BY <1>2, <1>3, <1>4, <1>9
  <2>2. Used(v, p) = {}
    BY <2>1 DEF Used
  <2>3. FreedOn(v, p, {})
    BY <2>1, FreedNone
  <2> QED
    BY <2>1, <2>2, <2>3
<1>13. Formed(v)
  BY <1>2, <1>9, <1>12, BareFormed
<1> QED
  BY <1>2, <1>11, <1>13

Resized(v, u) == Sound(u) /\ SameButMemory(v, u)

(* Both pools have their initial capacities. *)
Filled(u, initial) == u.cb.capacity["vertices"] = initial["vertices"] /\ u.cb.capacity["edges"] = initial["edges"] /\ Fitted(u)

LEMMA PoolsBuilt ==
  ASSUME NEW v, Sound(v), NEW initial \in [Pools -> Nat],
         NEW q \in SetVertexCapacity(v, initial.vertices),
         NEW r, IF q.status = "OK" THEN r \in SetEdgeCapacity(q.w, initial.edges) ELSE r = q
  PROVE  Resized(v, r.w) /\ (r.status = "OK" => Filled(r.w, initial))
<1> DEFINE V == initial["vertices"]
           E == initial["edges"]
           u == q.w
<1>1. V \in Nat /\ E \in Nat
  BY PoolNames
<1>2. q \in SetVertexCapacity(v, V) /\ (q.status = "OK" => r \in SetEdgeCapacity(u, E))
  OBVIOUS
<1>3. "vertices" \in Pools /\ "edges" \in Pools /\ "vertices" # "edges"
  BY PoolNames
<1> HIDE DEF V, E
<1>4. CapacityDone(v, "vertices", V, q)
  BY <1>1, <1>2, VertexCapacityFacts
<1>5. Sound(u) /\ SameButMemory(v, u) /\ (q.status = "OK" => u.cb.capacity["vertices"] = V)
  BY <1>4, <1>3 DEF CapacityDone
<1>6. CASE q.status # "OK"
  BY <1>5, <1>6 DEF Resized
<1>7. CASE q.status = "OK"
  <2> HIDE DEF u
  <2>1. CapacityDone(u, "edges", E, r)
    BY <1>1, <1>2, <1>5, <1>7, EdgeCapacityFacts
  <2> DEFINE x == r.w
  <2>2. Sound(x) /\ SameButMemory(u, x) /\ x.cb.capacity["vertices"] = u.cb.capacity["vertices"]
        /\ (r.status = "OK" => x.cb.capacity["edges"] = E /\ Fitted(x))
    BY <1>3, <2>1 DEF CapacityDone
  <2>3. r.w = x
    OBVIOUS
  <2> HIDE DEF x
  <2>4. SameButMemory(v, x)
    BY <1>5, <2>2, SameTransitive
  <2> QED
    BY <1>5, <1>7, <2>2, <2>3, <2>4 DEF Resized, Filled, V, E
<1> QED
  BY <1>6, <1>7
(* The pools, and then the scratch of a fixed graph. *)
BuiltBy(v, config, r) ==
  \E q \in SetVertexCapacity(v, config.initial.vertices) :
    \E s : /\ IF q.status = "OK" THEN s \in SetEdgeCapacity(q.w, config.initial.edges) ELSE s = q
           /\ IF config.growable \/ s.status # "OK" THEN r = s ELSE r \in EnsureScratch(s.w)

LEMMA BuiltCases ==
  ASSUME NEW v, NEW config, NEW r \in Built(v, config)
  PROVE  BuiltBy(v, config, r)
<1> DEFINE Edged(u) == SetEdgeCapacity(u, config.initial.edges)
           pools == Then(SetVertexCapacity(v, config.initial.vertices), Edged)
<1>1. \A s \in pools : \E q \in SetVertexCapacity(v, config.initial.vertices) :
                         IF q.status = "OK" THEN s \in SetEdgeCapacity(q.w, config.initial.edges) ELSE s = q
  BY Zenon DEF Then
<1>2. CASE config.growable
  <2>1. r \in pools
    BY <1>2, Zenon DEF Built
  <2> HIDE DEF pools
  <2> QED
    BY <1>1, <1>2, <2>1, Zenon DEF BuiltBy
<1>3. CASE ~config.growable
  <2>1. r \in Then(pools, EnsureScratch)
    BY <1>3, Zenon DEF Built
  <2> HIDE DEF pools
  <2>2. \E s \in pools : IF s.status = "OK" THEN r \in EnsureScratch(s.w) ELSE r = s
    BY <2>1, Zenon DEF Then
  <2>3. PICK s \in pools : IF s.status = "OK" THEN r \in EnsureScratch(s.w) ELSE r = s
    BY <2>2
  <2>4. IF config.growable \/ s.status # "OK" THEN r = s ELSE r \in EnsureScratch(s.w)
    BY <1>3, <2>3
  <2> QED
    BY <1>1, <2>3, <2>4, Zenon DEF BuiltBy
<1> QED
  BY <1>2, <1>3

LEMMA FilledKept ==
  ASSUME NEW v, Settled(v.cb), Formed(v), NEW u, Resized(v, u), Filled(u, v.cb.initial), v.cb.growable \/ Roomy(u)
  PROVE  Good(u)
<1>1. Sound(u) /\ SameButMemory(v, u)
  BY DEF Resized
<1>2. Settled(u.cb)
  BY <1>1 DEF Settled, SameButMemory
<1>3. Capped(u.cb)
  <2>1. u.cb \in ControlBlocks
    BY <1>1, WorldFacts DEF Sound
  <2>2. \A p \in Pools : u.cb.capacity[p] = u.cb.initial[p]
    BY <1>1, PoolNames DEF Filled, SameButMemory
  <2>3. \A p \in Pools : u.cb.initial[p] \in Nat /\ u.cb.max[p] \in Nat /\ u.cb.growable \in BOOLEAN
    BY <2>1, CbFacts
  <2> QED
    BY <1>2, <2>2, <2>3 DEF Capped, Settled
<1>4. Furnished(u)
  BY <1>1 DEF Furnished, Filled, SameButMemory
<1>5. Formed(u)
  BY <1>1, FormedSame DEF SameButMemory
<1> QED
  BY <1>1, <1>2, <1>3, <1>4, <1>5 DEF Good, Kept

LEMMA BuiltFacts ==
  ASSUME NEW v, Sound(v), Settled(v.cb), Formed(v), NEW config, v.cb.initial = config.initial,
         v.cb.growable = config.growable, NEW r \in Built(v, config)
  PROVE  Sound(r.w) /\ (r.status = "OK" => Good(r.w))
<1> DEFINE initial == config.initial
           growable == config.growable
<1>1. initial \in [Pools -> Nat]
  <2>1. v.cb \in ControlBlocks
    BY WorldFacts DEF Sound
  <2> QED
    BY <2>1 DEF ControlBlocks
<1>2. BuiltBy(v, config, r)
  BY BuiltCases
<1>3. PICK q \in SetVertexCapacity(v, initial.vertices) :
        \E s : /\ IF q.status = "OK" THEN s \in SetEdgeCapacity(q.w, initial.edges) ELSE s = q
               /\ IF growable \/ s.status # "OK" THEN r = s ELSE r \in EnsureScratch(s.w)
  BY <1>2 DEF BuiltBy
<1>4. PICK s : /\ IF q.status = "OK" THEN s \in SetEdgeCapacity(q.w, initial.edges) ELSE s = q
               /\ IF growable \/ s.status # "OK" THEN r = s ELSE r \in EnsureScratch(s.w)
  BY <1>3
<1>5. initial = v.cb.initial /\ growable = v.cb.growable
  OBVIOUS
<1> HIDE DEF initial, growable
<1> DEFINE u == s.w
<1>6. Resized(v, s.w) /\ (s.status = "OK" => Filled(s.w, initial))
  BY <1>1, <1>3, <1>4, PoolsBuilt
<1>7. Resized(v, u) /\ (s.status = "OK" => Filled(u, initial)) /\ u = s.w
  BY <1>6
<1> HIDE DEF u
<1>8. CASE growable \/ s.status # "OK"
  <2>1. r = s
    BY <1>4, <1>8
  <2>2. s.status = "OK" => Good(u)
    BY <1>5, <1>7, <1>8, FilledKept
  <2> QED
    BY <1>7, <2>1, <2>2 DEF Resized
<1>9. CASE ~(growable \/ s.status # "OK")
  <2>1. r \in EnsureScratch(u)
    BY <1>4, <1>7, <1>9
  <2> DEFINE x == r.w
  <2>2. ScratchDone(u, r.w) /\ (r.status = "OK" => Roomy(r.w))
    BY <1>7, <2>1, EnsureFacts DEF Resized
  <2>3. ScratchDone(u, x) /\ (r.status = "OK" => Roomy(x)) /\ x = r.w
    BY <2>2
  <2> HIDE DEF x
  <2>4. SameButMemory(v, x)
    BY <1>7, <2>3, SameTransitive DEF ScratchDone, Resized
  <2>5. Resized(v, x) /\ Filled(x, initial)
    BY <1>7, <1>9, <2>3, <2>4 DEF Resized, ScratchDone, Filled, Fitted, SameButMemory
  <2>6. r.status = "OK" => Good(x)
    BY <1>5, <2>3, <2>5, FilledKept
  <2> QED
    BY <2>3, <2>6 DEF ScratchDone
<1> QED
  BY <1>8, <1>9
LEMMA InitDone ==
  ASSUME NEW w \in Worlds, Blank(w), NEW config \in Configurations, NEW allocator \in Hooks,
         Refusal(config, allocator) = "none", NEW cb, cb = Configured(config, allocator),
         NEW v, v = [w EXCEPT !.cb = cb], NEW r \in Built(v, config)
  PROVE  IF r.status = "OK" THEN Good(r.w) ELSE Blank(Destroyed(r.w))
<1>1. Started(cb, config, allocator)
  BY ConfiguredFacts
<1>2. allocator.alloc /\ allocator.free /\ Settled(cb)
  BY <1>1, RefusalFacts
<1>3. Sound(v) /\ Formed(v) /\ v.cb = cb
  BY <1>1, <1>2, StartedFacts
<1>4. v.cb.initial = config.initial /\ v.cb.growable = config.growable /\ Settled(v.cb)
  BY <1>1, <1>2, <1>3 DEF Started
<1>5. Sound(r.w) /\ (r.status = "OK" => Good(r.w))
  BY <1>3, <1>4, BuiltFacts
<1> DEFINE x == r.w
<1>6. Sound(x)
  BY <1>5
<1> HIDE DEF x
<1>7. Blank(Destroyed(x))
  BY <1>6, DestroyedFacts
<1> QED
  BY <1>5, <1>7 DEF x

(***************************************************************************)
(* What a call leaves behind.                                              *)
(***************************************************************************)
Stored(w) ==
  [cb |-> w.cb, vertices |-> w.vertices, edges |-> w.edges, weights |-> w.weights,
   bytes |-> w.bytes, outstanding |-> w.outstanding, contract |-> w.contract,
   calls |-> {}, steps |-> 0, touched |-> FALSE]

LEMMA StoredFacts ==
  ASSUME NEW w
  PROVE  /\ Stored(w).cb = w.cb /\ Stored(w).vertices = w.vertices /\ Stored(w).edges = w.edges
         /\ Stored(w).weights = w.weights /\ Stored(w).bytes = w.bytes
         /\ Stored(w).outstanding = w.outstanding /\ Stored(w).contract = w.contract
         /\ w \in Worlds => Stored(w) \in Worlds /\ Twin(w, Stored(w))
         /\ Good(w) => Good(Stored(w))
         /\ Blank(w) => Blank(Stored(w))
<1> DEFINE u == Stored(w)
<1>1. /\ u.cb = w.cb /\ u.vertices = w.vertices /\ u.edges = w.edges
      /\ u.weights = w.weights /\ u.bytes = w.bytes
      /\ u.outstanding = w.outstanding /\ u.contract = w.contract
  BY DEF Stored
<1>2. w \in Worlds => u \in Worlds
  BY DEF Worlds, Stored
<1> HIDE DEF u
<1>3. w \in Worlds => Twin(w, u)
  BY <1>1, <1>2 DEF Twin, Frame
<1>4. Good(w) => Good(u)
  <2>1. Good(w) => w \in Worlds
    BY SlotsFacts DEF Good
  <2> QED
    BY <1>3, <2>1, TwinFacts DEF Good
<1>5. Blank(w) => Blank(u)
  BY <1>1 DEF Blank
<1> QED
  BY <1>1, <1>2, <1>3, <1>4, <1>5 DEF u

LEMMA BlankWorld ==
  ASSUME NEW w, Blank(w)
  PROVE  Stored(w) \in Worlds
<1>1. Zeroed \in ControlBlocks
  BY ZeroedFacts
<1>2. Empty \in PoolOf(EdgeSlots) /\ Empty \in PoolOf(VertexSlots) /\ Empty \in UNION {[D -> Weights] : D \in SUBSET Nat}
  <2>1. \A S : Empty \in [0 .. 0 - 1 -> S]
    BY DEF Empty
  <2>2. \A S : Empty \in PoolOf(S)
    BY <2>1 DEF PoolOf
  <2>3. \A S : Empty \in [{} -> S]
    BY DEF Empty
  <2> QED
    BY <2>2, <2>3
<1> DEFINE e == Empty
           z == Zeroed
           none == [b \in Blocks |-> 0]
           W1 == UNION {[D -> Weights] : D \in SUBSET Nat}
<1>3. none \in [Blocks -> Int]
  OBVIOUS
<1>4. /\ e \in PoolOf(EdgeSlots) /\ e \in PoolOf(VertexSlots) /\ e \in W1 /\ z \in ControlBlocks
      /\ Worlds = [cb : ControlBlocks, vertices : PoolOf(VertexSlots), edges : PoolOf(EdgeSlots), weights : W1,
                   bytes : [Blocks -> Int], outstanding : Int, contract : BOOLEAN,
                   calls : SUBSET {"alloc", "realloc", "free", "refused"}, steps : Int, touched : BOOLEAN]
  BY <1>1, <1>2 DEF Worlds
<1>5. Stored(w) = [cb |-> z, vertices |-> e, edges |-> e, weights |-> e, bytes |-> none, outstanding |-> 0,
                   contract |-> w.contract, calls |-> {}, steps |-> 0, touched |-> FALSE]
  BY DEF Blank, Stored
<1> HIDE DEF e, z, none, W1
<1>6. w.contract \in BOOLEAN
  BY DEF Blank
<1> QED
  BY <1>3, <1>4, <1>5, <1>6

(* The handle kept is of a slot whose generation moved on with its age. *)
Later(generation, age) ==
  IF generation + age <= GenMax THEN generation + age ELSE generation + age - GenMax

WatchOn(x, w) ==
  x # NoWatch =>
    /\ x \in [pool : Pools, handle : [index : Nat, generation : 1 .. GenMax], age : 0 .. GenMax - 1]
    /\ x.handle.index \in DOMAIN w[x.pool]
    /\ w[x.pool][x.handle.index].generation = Later(x.handle.generation, x.age)
    /\ x.age = 0 => w[x.pool][x.handle.index].active

LEMMA LaterFacts ==
  ASSUME NEW g \in 1 .. GenMax, NEW a \in 0 .. GenMax - 1
  PROVE  /\ Later(g, a) \in 1 .. GenMax /\ (Later(g, a) = g <=> a = 0)
         /\ a + 1 # GenMax => Bump(Later(g, a)) = Later(g, a + 1) /\ a + 1 \in 0 .. GenMax - 1
  BY PoolAssumption DEF Later, Bump
LEMMA AgedFacts ==
  ASSUME NEW w, WatchOn(watch, W), Ages(W, w)
  PROVE  WatchOn(Aged(w), w)
<1>1. CASE watch = NoWatch
  BY <1>1 DEF Aged, WatchOn
<1>2. CASE watch # NoWatch
  <2> DEFINE p == watch.pool
             h == watch.handle
             i == h.index
             a == watch.age
             old == W[p][i]
             new == w[p][i]
  <2>1. /\ watch \in [pool : Pools, handle : [index : Nat, generation : 1 .. GenMax], age : 0 .. GenMax - 1]
        /\ i \in DOMAIN W[p] /\ old.generation = Later(h.generation, a) /\ (a = 0 => old.active)
    BY <1>2 DEF WatchOn
  <2>2. p \in Pools /\ h.generation \in 1 .. GenMax /\ a \in 0 .. GenMax - 1
    BY <2>1
  <2>3. /\ i \in DOMAIN w[p]
        /\ new.generation = IF old.active /\ ~new.active THEN Bump(old.generation) ELSE old.generation
    BY <2>1, <2>2 DEF Ages
  <2> DEFINE retired == InUse(W[p], i) /\ ~InUse(w[p], i)
             x == [watch EXCEPT !.age = @ + 1]
  <2>4. retired <=> old.active /\ ~new.active
    BY <2>1, <2>3 DEF InUse
  <2>5. Aged(w) = IF ~retired THEN watch ELSE IF a + 1 = GenMax THEN NoWatch ELSE x
    BY <1>2 DEF Aged
  <2>6. x.pool = p /\ x.handle = h /\ x.age = a + 1
    BY <2>1
  <2>7. a + 1 # GenMax => x \in [pool : Pools, handle : [index : Nat, generation : 1 .. GenMax], age : 0 .. GenMax - 1]
    <3>1. a + 1 # GenMax => a + 1 \in 0 .. GenMax - 1
      BY <2>2, PoolAssumption
    <3> QED
      BY <2>1, <3>1
  <2>8. CASE ~retired
    <3>1. Aged(w) = watch
      BY <2>5, <2>8
    <3>2. new.generation = Later(h.generation, a) /\ (a = 0 => new.active)
      BY <2>1, <2>3, <2>4, <2>8
    <3>3. WatchOn(watch, w)
      BY <2>1, <2>3, <3>2 DEF WatchOn
    <3> QED
      BY <3>1, <3>3
  <2>9. CASE retired /\ a + 1 = GenMax
    <3>1. Aged(w) = NoWatch
      BY <2>5, <2>9
    <3> QED
      BY <3>1 DEF WatchOn
  <2>10. CASE retired /\ a + 1 # GenMax
    <3>1. Aged(w) = x
      BY <2>5, <2>10
    <3>2. new.generation = Bump(Later(h.generation, a))
      BY <2>1, <2>3, <2>4, <2>10
    <3>3. Bump(Later(h.generation, a)) = Later(h.generation, a + 1)
      BY <2>2, <2>10, LaterFacts
    <3>4. a + 1 # 0
      BY <2>2
    <3> HIDE DEF x, p, h, i, a, retired
    <3>5. x.pool = p /\ x.handle = h /\ h.index = i
      BY <2>6 DEF i
    <3>6. WatchOn(x, w)
      BY <2>3, <2>6, <2>7, <2>10, <3>2, <3>3, <3>4, <3>5 DEF WatchOn
    <3> QED
      BY <3>1, <3>6
  <2> QED
    BY <2>8, <2>9, <2>10
<1> QED
  BY <1>1, <1>2

LEMMA WatchStored ==
  ASSUME NEW x, NEW w, WatchOn(x, w)
  PROVE  WatchOn(x, Stored(w))
<1>1. CASE x # NoWatch
  <2>1. x.pool \in Pools
    BY <1>1 DEF WatchOn
  <2>2. Stored(w)[x.pool] = w[x.pool]
    BY <2>1, StoredFacts, PoolNames
  <2> QED
    BY <2>2 DEF WatchOn
<1> QED
  BY <1>1 DEF WatchOn

(* A handle just issued. *)
LEMMA IssuedFacts ==
  ASSUME NEW w, Good(w), NEW p \in Pools, NEW i \in Used(w, p)
  PROVE  WatchOn([pool |-> p, handle |-> HandleOf(w, p, i), age |-> 0], w)
<1> DEFINE x == [pool |-> p, handle |-> HandleOf(w, p, i), age |-> 0]
           h == HandleOf(w, p, i)
<1>1. i \in DOMAIN w[p] /\ w[p][i].active /\ i \in Nat
  BY SlotsFacts DEF Used, Good
<1>2. w[p][i].generation \in 1 .. GenMax
  <2>1. w \in Worlds
    BY SlotsFacts DEF Good
  <2>2. /\ \A e \in DOMAIN w.edges : w.edges[e] \in EdgeSlots
        /\ \A v \in DOMAIN w.vertices : w.vertices[v] \in VertexSlots
    BY <2>1, SlotFacts
  <2> QED
    BY <1>1, <2>2, PoolNames DEF EdgeSlots, VertexSlots
<1>3. h.index = i /\ h.generation = w[p][i].generation /\ h \in [index : Nat, generation : 1 .. GenMax]
  BY <1>1, <1>2 DEF HandleOf
<1>4. Later(w[p][i].generation, 0) = w[p][i].generation /\ 0 \in 0 .. GenMax - 1
  BY <1>2, LaterFacts, PoolAssumption
<1>5. x.pool = p /\ x.handle = h /\ x.age = 0
  OBVIOUS
<1>6. x \in [pool : Pools, handle : [index : Nat, generation : 1 .. GenMax], age : 0 .. GenMax - 1]
  BY <1>3, <1>4
<1> HIDE DEF x, h
<1>7. WatchOn(x, w)
  BY <1>1, <1>3, <1>4, <1>5, <1>6 DEF WatchOn
<1> QED
  BY <1>7 DEF x
(***************************************************************************)
(* The invariant, and the steps of the calls.                              *)
(***************************************************************************)
IInv ==
  /\ IF graph = Zeroed THEN Blank(W) ELSE Good(W)
  /\ WatchOn(watch, W)

(* What a step may do to the allocator, and what a traversal starts with. *)
QuietStep ==
  \/ ~graph.growable /\ last'.op \notin {"init", "destroy"}
  \/ last'.op = "add_vertex" /\ graph.count.vertices < graph.capacity.vertices
  \/ last'.op = "add_edge" /\ graph.count.edges < graph.capacity.edges
  \/ last'.op = "traverse" /\ graph.work_capacity >= graph.capacity.vertices
       /\ graph.visited_words >= Words(graph.capacity.vertices)
  => last'.calls = {}

CoverStep ==
  last'.op = "traverse" /\ last'.reply.status = "OK" =>
    /\ graph'.work_capacity >= graph'.watermark.vertices
    /\ graph'.visited_words * WordBits >= graph'.watermark.vertices

Stays == IInv' /\ QuietStep /\ CoverStep

(* Insertions that find room and traversals whose scratch is sized make no
   call; a traversal that starts has its scratch.                           *)
Frugal(w, op, status, u) ==
  /\ op = "add_vertex" /\ w.cb.count["vertices"] < w.cb.capacity["vertices"] => u.calls = w.calls
  /\ op = "add_edge" /\ w.cb.count["edges"] < w.cb.capacity["edges"] => u.calls = w.calls
  /\ op = "traverse" /\ Roomy(w) => u.calls = w.calls
  /\ op = "traverse" /\ status = "OK" => Roomy(u)

LEMMA WFacts ==
  /\ W.cb = graph /\ W.vertices = vertices /\ W.edges = edges /\ W.weights = weights
  /\ W.bytes = bytes /\ W.outstanding = outstanding /\ W.contract = contract /\ W.calls = {}
  /\ W = Stored(W)
  BY DEF W, Stored

LEMMA PutFacts ==
  ASSUME NEW op, NEW reply, NEW u, Put(op, u, reply)
  PROVE  /\ W' = Stored(u) /\ graph' = u.cb
         /\ last'.op = op /\ last'.reply = reply /\ last'.calls = u.calls
  BY DEF Put, W, Stored

LEMMA GoodReady ==
  ASSUME NEW w, Good(w)
  PROVE  w.cb # Zeroed
<1>1. w.cb.allocator.alloc
  BY DEF Good, Kept, Sound
<1> QED
  BY <1>1, ZeroedFacts

LEMMA RoomyFacts ==
  ASSUME NEW w, Good(w), Roomy(w)
  PROVE  /\ w.cb.work_capacity >= w.cb.watermark["vertices"]
         /\ w.cb.visited_words * WordBits >= w.cb.watermark["vertices"]
<1> DEFINE c == w.cb.capacity["vertices"]
           m == w.cb.watermark["vertices"]
           k == w.cb.work_capacity
           v == w.cb.visited_words
<1>1. c \in Nat /\ m \in Nat /\ m <= c
  BY PoolNames, KeptFacts DEF Good
<1>2. k \in Nat /\ v \in Nat
  <2>1. w.cb \in ControlBlocks
    BY SlotsFacts, WorldFacts DEF Good
  <2> QED
    BY <2>1, CbFacts
<1>3. c = 0 \/ (k >= c /\ v >= Words(c))
  BY DEF Roomy
<1> HIDE DEF c, m, k, v
<1>4. Words(c) \in Nat /\ Words(c) * WordBits >= c /\ WordBits \in Nat
  BY <1>1, WordsFacts, PoolAssumption
<1>5. v >= Words(c) => v * WordBits >= Words(c) * WordBits
  BY <1>2, <1>4
<1>6. v * WordBits >= 0 /\ v * WordBits \in Nat /\ Words(c) * WordBits \in Nat
  BY <1>2, <1>4
<1>7. k >= m /\ v * WordBits >= m
  BY <1>1, <1>2, <1>3, <1>4, <1>5, <1>6
<1> QED
  BY <1>7 DEF k, m, v

LEMMA PutStays ==
  ASSUME IInv, graph # Zeroed, NEW op, NEW reply, NEW u, Put(op, u, reply), Good(u), Quiet(W, u),
         Frugal(W, op, reply.status, u), WatchOn(watch', u)
  PROVE  Stays
<1>1. /\ W' = Stored(u) /\ graph' = u.cb
      /\ last'.op = op /\ last'.reply = reply /\ last'.calls = u.calls
  BY PutFacts
<1>2. W.cb = graph /\ W.calls = {}
  BY WFacts
<1>3. IInv'
  <2>1. graph' # Zeroed
    BY <1>1, GoodReady
  <2>2. Good(Stored(u)) /\ WatchOn(watch', Stored(u))
    BY StoredFacts, WatchStored
  <2>3. Good(W') /\ WatchOn(watch', W')
    BY <1>1, <2>2
  <2> QED
    BY <2>1, <2>3 DEF IInv
<1>4. QuietStep
  <2>1. ~graph.growable => u.calls = {}
    BY <1>2 DEF Quiet
  <2>2. graph.work_capacity >= graph.capacity.vertices /\ graph.visited_words >= Words(graph.capacity.vertices) => Roomy(W)
    BY <1>2 DEF Roomy
  <2> QED
    BY <1>1, <1>2, <2>1, <2>2 DEF QuietStep, Frugal
<1>5. CoverStep
  <2> SUFFICES ASSUME op = "traverse", reply.status = "OK"
               PROVE  /\ u.cb.work_capacity >= u.cb.watermark["vertices"]
                      /\ u.cb.visited_words * WordBits >= u.cb.watermark["vertices"]
    BY <1>1 DEF CoverStep
  <2> QED
    BY RoomyFacts DEF Frugal
<1> QED
  BY <1>3, <1>4, <1>5 DEF Stays

LEMMA CommitStays ==
  ASSUME IInv, graph # Zeroed, NEW op, NEW reply, NEW u, Commit(op, u, reply), Done(W, u),
         Frugal(W, op, reply.status, u)
  PROVE  Stays
<1>1. Put(op, u, reply) /\ watch' = Aged(u)
  BY DEF Commit
<1>2. Good(u) /\ Ages(W, u) /\ Quiet(W, u)
  BY DEF Done
<1>3. WatchOn(Aged(u), u)
  BY <1>2, AgedFacts DEF IInv
<1>4. WatchOn(watch', u)
  BY <1>1, <1>3
<1> QED
  BY <1>1, <1>2, <1>4, PutStays

LEMMA IssueStays ==
  ASSUME IInv, graph # Zeroed, NEW op, NEW reply, NEW u, NEW p \in Pools, NEW i \in Used(u, p),
         NEW h, h = HandleOf(u, p, i), Issue(op, u, reply, p, h), Done(W, u), Frugal(W, op, reply.status, u)
  PROVE  Stays
<1>1. /\ Put(op, u, reply)
      /\ watch' = Aged(u) \/ watch' = [pool |-> p, handle |-> h, age |-> 0]
  BY DEF Issue
<1>2. Good(u) /\ Ages(W, u) /\ Quiet(W, u)
  BY DEF Done
<1>3. WatchOn(Aged(u), u)
  BY <1>2, AgedFacts DEF IInv
<1>4. WatchOn([pool |-> p, handle |-> h, age |-> 0], u)
  BY <1>2, IssuedFacts
<1>5. WatchOn(watch', u)
  BY <1>1, <1>3, <1>4
<1> QED
  BY <1>1, <1>2, <1>5, PutStays
(* A call of which neither allocator rule speaks. *)
LEMMA CallStays ==
  ASSUME IInv, graph # Zeroed, NEW op, op \notin {"add_vertex", "add_edge", "traverse"}, NEW reply, NEW u,
         Commit(op, u, reply), Done(W, u)
  PROVE  Stays
<1>1. Frugal(W, op, reply.status, u)
  BY DEF Frugal
<1> QED
  BY <1>1, CommitStays

LEMMA Awake ==
  ASSUME IInv, Ready
  PROVE  graph # Zeroed /\ Good(W) /\ Kept(W) /\ W \in Worlds /\ Done(W, W)
<1>1. graph # Zeroed /\ Good(W)
  BY DEF Ready, IInv
<1>2. Kept(W) /\ W \in Worlds
  BY <1>1, SlotsFacts DEF Good
<1>3. Done(W, W)
  BY <1>1, KeptFacts, PoolNames, RefitDone DEF Good
<1> QED
  BY <1>1, <1>2, <1>3

(* A call that leaves the graph as it is. *)
LEMMA SameStays ==
  ASSUME IInv, Ready, NEW op, NEW reply, op # "traverse" \/ reply.status # "OK", Commit(op, W, reply)
  PROVE  Stays
<1>1. graph # Zeroed /\ Done(W, W)
  BY Awake
<1>2. Frugal(W, op, reply.status, W)
  BY DEF Frugal
<1> QED
  BY <1>1, <1>2, CommitStays

LEMMA BeginStays ==
  ASSUME IInv, BeginUpdate
  PROVE  Stays
<1> DEFINE op == "begin"
           no == Reply("INVALID", <<>>, 0, <<>>)
           yes == Reply("OK", <<>>, 0, <<>>)
           u == Begun(W)
<1>1. Ready /\ (Commit(op, W, no) \/ Commit(op, u, yes))
  BY DEF BeginUpdate, Begun
<1>2. op \notin {"add_vertex", "add_edge", "traverse"}
  OBVIOUS
<1>3. graph # Zeroed /\ Good(W) /\ W \in Worlds
  BY <1>1, Awake
<1>4. Done(W, u)
  <2>1. Twin(W, u)
    BY <1>3, PhaseFacts
  <2>2. u.calls = W.calls
    BY DEF Begun, W
  <2> HIDE DEF u
  <2> QED
    BY <1>3, <2>1, <2>2, TwinsDone DEF TwinDone
<1> HIDE DEF op, no, yes, u
<1> QED
  BY <1>1, <1>2, <1>3, <1>4, SameStays, CallStays

LEMMA EndStays ==
  ASSUME IInv, CommitUpdate
  PROVE  Stays
<1> DEFINE op == "commit"
           no == Reply("INVALID", <<>>, 0, <<>>)
           yes == Reply("OK", <<>>, 0, <<>>)
           u == ClosePhase(W)
<1>1. Ready /\ (Commit(op, W, no) \/ Commit(op, u, yes))
  BY DEF CommitUpdate
<1>2. op \notin {"add_vertex", "add_edge", "traverse"}
  OBVIOUS
<1>3. graph # Zeroed /\ Good(W) /\ W \in Worlds
  BY <1>1, Awake
<1>4. Done(W, u)
  BY <1>3, PhaseFacts, TwinsDone DEF TwinDone
<1> HIDE DEF op, no, yes, u
<1> QED
  BY <1>1, <1>2, <1>3, <1>4, SameStays, CallStays

LEMMA ClearStays ==
  ASSUME IInv, Clear
  PROVE  Stays
<1> DEFINE op == "clear"
           yes == Reply("OK", <<>>, 0, <<>>)
           u == Touch(Cleared(W))
<1>1. Ready /\ Commit(op, u, yes)
  BY DEF Clear
<1>2. op \notin {"add_vertex", "add_edge", "traverse"}
  OBVIOUS
<1>3. graph # Zeroed /\ Done(W, u)
  BY <1>1, Awake, ClearDone
<1> HIDE DEF op, yes, u
<1> QED
  BY <1>1, <1>2, <1>3, CallStays

(* A call that only looks a handle up, or refuses it. *)
LEMMA LookupStays ==
  ASSUME IInv, NEW h, EdgeEndpoints(h) \/ EdgeWeight(h) \/ Degree(h)
  PROVE  Stays
<1>1. Ready /\ \E op, reply : op # "traverse" /\ Commit(op, W, reply)
  BY DEF EdgeEndpoints, EdgeWeight, Degree
<1> QED
  BY <1>1, SameStays

LEMMA ReserveStays ==
  ASSUME IInv, NEW p \in Pools, NEW capacity \in Nat, Reserve(p, capacity)
  PROVE  Stays
<1> DEFINE op == "reserve"
<1>1. PICK r \in ReserveIn(W, p, capacity) : Commit(op, r.w, Reply(r.status, <<>>, 0, <<>>))
  BY DEF Reserve
<1> DEFINE reply == Reply(r.status, <<>>, 0, <<>>)
           u == r.w
<1>2. op \notin {"add_vertex", "add_edge", "traverse"}
  OBVIOUS
<1>3. graph # Zeroed /\ Good(W) /\ Kept(W)
  BY Awake DEF Reserve
<1>4. Done(W, u)
  BY <1>3, ReserveRefit, RefitDone
<1>5. Commit(op, u, reply)
  BY <1>1
<1> HIDE DEF op, reply, u
<1> QED
  BY <1>2, <1>3, <1>4, <1>5, CallStays
(* What becomes of the scratch. *)
LEMMA EnsureStays ==
  ASSUME IInv, Ready, NEW r \in EnsureScratch(W), NEW op, op \notin {"add_vertex", "add_edge"},
         NEW reply, reply.status = r.status, NEW u, u = r.w, Commit(op, u, reply)
  PROVE  Stays
<1>1. graph # Zeroed /\ Good(W) /\ Kept(W)
  BY Awake
<1>2. Done(W, u)
  BY <1>1, EnsureRefit, RefitDone
<1>3. Frugal(W, op, reply.status, u)
  <2>1. Sound(W)
    BY <1>1 DEF Kept
  <2>2. r.status = "OK" => Roomy(r.w)
    BY <2>1, EnsureFacts
  <2>3. Roomy(W) => u = W
    BY <2>1, EnsureFacts DEF Ends
  <2> QED
    BY <2>2, <2>3 DEF Frugal
<1> QED
  BY <1>1, <1>2, <1>3, CommitStays

LEMMA ReserveTraversalStays ==
  ASSUME IInv, ReserveTraversal
  PROVE  Stays
<1> DEFINE op == "reserve_traversal"
<1>1. PICK r \in EnsureScratch(W) : Commit(op, r.w, Reply(r.status, <<>>, 0, <<>>))
  BY DEF ReserveTraversal
<1> DEFINE reply == Reply(r.status, <<>>, 0, <<>>)
           u == r.w
<1>2. op \notin {"add_vertex", "add_edge"} /\ reply.status = r.status
  BY DEF Reply
<1>3. Ready
  BY DEF ReserveTraversal
<1>4. Commit(op, u, reply)
  BY <1>1
<1> HIDE DEF op, reply
<1> QED
  BY <1>2, <1>3, <1>4, EnsureStays

LEMMA TraverseStays ==
  ASSUME IInv, NEW h, Traverse(h)
  PROVE  Stays
<1> DEFINE op == "traverse"
           no == Reply("STALE", <<>>, 0, <<>>)
<1>1. Ready
  BY DEF Traverse
<1>2. CASE Commit(op, W, no)
  <2>1. no.status # "OK"
    BY DEF Reply
  <2> HIDE DEF op, no
  <2> QED
    BY <1>1, <1>2, <2>1, SameStays
<1>3. CASE \E r \in EnsureScratch(W) : Commit(op, r.w, Reply(r.status, <<>>, 0, <<>>))
  <2>1. PICK r \in EnsureScratch(W) : Commit(op, r.w, Reply(r.status, <<>>, 0, <<>>))
    BY <1>3
  <2> DEFINE reply == Reply(r.status, <<>>, 0, <<>>)
             u == r.w
  <2>2. op \notin {"add_vertex", "add_edge"} /\ reply.status = r.status
    BY DEF Reply
  <2>3. Commit(op, u, reply)
    BY <2>1
  <2> HIDE DEF op, reply
  <2> QED
    BY <1>1, <2>2, <2>3, EnsureStays
<1> QED
  BY <1>2, <1>3 DEF Traverse

LEMMA ShrinkStays ==
  ASSUME IInv, ShrinkToFit
  PROVE  Stays
<1> DEFINE op == "shrink"
           no == Reply("OK", <<>>, 0, <<>>)
<1>1. Ready /\ op \notin {"add_vertex", "add_edge", "traverse"}
  BY DEF ShrinkToFit
<1>2. graph # Zeroed /\ Good(W) /\ W.cb = graph
  BY <1>1, Awake, WFacts
<1>3. CASE Commit(op, W, no)
  <2> HIDE DEF op, no
  <2> QED
    BY <1>1, <1>3, SameStays
<1>4. CASE graph.growable /\ \E r \in ResizeBoth(W, graph.watermark) :
                               Commit(op, FreeScratch(r.w), Reply(r.status, <<>>, 0, <<>>))
  <2>1. PICK r \in ResizeBoth(W, graph.watermark) : Commit(op, FreeScratch(r.w), Reply(r.status, <<>>, 0, <<>>))
    BY <1>4
  <2> DEFINE reply == Reply(r.status, <<>>, 0, <<>>)
             u == FreeScratch(r.w)
  <2>2. Done(W, u)
    BY <1>2, <1>4, ShrunkDone
  <2>3. Commit(op, u, reply)
    BY <2>1
  <2> HIDE DEF op, reply, u
  <2> QED
    BY <1>1, <1>2, <2>2, <2>3, CallStays
<1> QED
  BY <1>3, <1>4 DEF ShrinkToFit

LEMMA AddVertexStays ==
  ASSUME IInv, AddVertex
  PROVE  Stays
<1> DEFINE op == "add_vertex"
           p == "vertices"
<1>1. Ready /\ p \in Pools
  BY DEF AddVertex, Pools
<1>2. graph # Zeroed /\ Good(W) /\ W.cb = graph
  BY <1>1, Awake, WFacts
<1>3. PICK r \in AddVertexTo(W) :
        IF r.status = "OK"
        THEN Issue(op, r.w, Reply("OK", <<>>, 1, <<r.index>>), p, HandleOf(r.w, p, r.index))
        ELSE Commit(op, r.w, Reply(r.status, <<>>, 0, <<>>))
  BY DEF AddVertex
<1>4. AddDone(W, p, r)
  BY <1>2, AddVertexFacts
<1> DEFINE u == r.w
           yes == Reply("OK", <<>>, 1, <<r.index>>)
           no == Reply(r.status, <<>>, 0, <<>>)
           h == HandleOf(u, p, r.index)
<1>5. IF r.status = "OK" THEN Issue(op, u, yes, p, h) ELSE Commit(op, u, no)
  BY <1>3
<1>6. r.status = "OK" => r.index \in Used(u, p)
  BY <1>4 DEF AddDone
<1>7. Done(W, u)
  BY <1>4, AddDoneDone
<1>8. Frugal(W, op, yes.status, u) /\ Frugal(W, op, no.status, u)
  BY <1>4 DEF Frugal, AddDone
<1> HIDE DEF op, p, u, yes, no
<1> QED
  BY <1>1, <1>2, <1>5, <1>6, <1>7, <1>8, CommitStays, IssueStays

LEMMA RemoveVertexStays ==
  ASSUME IInv, NEW h, h.index \in Nat, RemoveVertex(h)
  PROVE  Stays
<1> DEFINE op == "remove_vertex"
           p == "vertices"
           no == Reply("STALE", <<>>, 0, <<>>)
           yes == Reply("OK", <<h.index>>, 1, <<>>)
           u == RetireVertex(ReleaseList(ReleaseList(W, "out", h.index), "in", h.index), h.index)
<1>1. Ready /\ op \notin {"add_vertex", "add_edge", "traverse"} /\ p \in Pools
  BY DEF RemoveVertex, Pools
<1>2. graph # Zeroed /\ Good(W) /\ Kept(W)
  BY <1>1, Awake
<1>3. IF Live(W, p, h) THEN Commit(op, u, yes) ELSE Commit(op, W, no)
  BY DEF RemoveVertex
<1>4. Live(W, p, h) => Done(W, u)
  <2>1. Live(W, p, h) => h.index \in Used(W, "vertices")
    BY <1>1, <1>2, LiveFacts
  <2> QED
    BY <1>2, <2>1, RemovedDone
<1> HIDE DEF op, p, no, yes, u
<1> QED
  BY <1>1, <1>2, <1>3, <1>4, CallStays, SameStays

LEMMA AddEdgeStays ==
  ASSUME IInv, NEW src, src.index \in Nat, NEW dst, dst.index \in Nat, NEW weight \in Weights,
         AddEdge(src, dst, weight)
  PROVE  Stays
<1> DEFINE op == "add_edge"
           p == "edges"
           args == <<[src |-> src.index, dst |-> dst.index, weight |-> weight]>>
<1>1. Ready /\ p \in Pools
  BY DEF AddEdge, Pools
<1>2. graph # Zeroed /\ Good(W) /\ W.cb = graph
  BY <1>1, Awake, WFacts
<1>3. PICK r \in AddEdgeTo(W, src, dst, weight) :
        IF r.status = "OK"
        THEN Issue(op, r.w, Reply("OK", args, 1, <<r.index>>), p, HandleOf(r.w, p, r.index))
        ELSE Commit(op, r.w, Reply(r.status, args, 0, <<>>))
  BY DEF AddEdge
<1>4. AddDone(W, p, r)
  BY <1>2, AddEdgeFacts
<1> DEFINE u == r.w
           yes == Reply("OK", args, 1, <<r.index>>)
           no == Reply(r.status, args, 0, <<>>)
           h == HandleOf(u, p, r.index)
<1>5. IF r.status = "OK" THEN Issue(op, u, yes, p, h) ELSE Commit(op, u, no)
  BY <1>3
<1>6. r.status = "OK" => r.index \in Used(u, p)
  BY <1>4 DEF AddDone
<1>7. Done(W, u)
  BY <1>4, AddDoneDone
<1>8. Frugal(W, op, yes.status, u) /\ Frugal(W, op, no.status, u)
  BY <1>4 DEF Frugal, AddDone
<1> HIDE DEF op, p, u, yes, no
<1> QED
  BY <1>1, <1>2, <1>5, <1>6, <1>7, <1>8, CommitStays, IssueStays

LEMMA RemoveEdgeStays ==
  ASSUME IInv, NEW h, h.index \in Nat, RemoveEdge(h)
  PROVE  Stays
<1> DEFINE op == "remove_edge"
           p == "edges"
           no == Reply("STALE", <<>>, 0, <<>>)
           yes == Reply("OK", <<h.index>>, 1, <<>>)
           u == Touch(ReleaseEdge(W, h.index))
<1>1. Ready /\ op \notin {"add_vertex", "add_edge", "traverse"} /\ p \in Pools
  BY DEF RemoveEdge, Pools
<1>2. graph # Zeroed /\ Good(W) /\ Kept(W)
  BY <1>1, Awake
<1>3. IF Live(W, p, h) THEN Commit(op, u, yes) ELSE Commit(op, W, no)
  BY DEF RemoveEdge
<1>4. Live(W, p, h) => Done(W, u)
  <2>1. Live(W, p, h) => h.index \in Used(W, "edges")
    BY <1>1, <1>2, LiveFacts
  <2> QED
    BY <1>2, <2>1, CutDone
<1> HIDE DEF op, p, no, yes, u
<1> QED
  BY <1>1, <1>2, <1>3, <1>4, CallStays, SameStays
(* What a search between two vertices in use finds. *)
LEMMA LocateLive ==
  ASSUME Good(W), NEW src, src.index \in Nat, NEW dst, dst.index \in Nat,
         Live(W, "vertices", src), Live(W, "vertices", dst),
         NEW e, e = LocateEdge(W, src.index, dst.index), e # NoIndex
  PROVE  e \in Used(W, "edges")
<1> DEFINE p == "vertices"
<1>1. p \in Pools /\ Kept(W) /\ Live(W, p, src) /\ Live(W, p, dst)
  BY DEF Pools, Good
<1>2. src.index \in Used(W, p) /\ dst.index \in Used(W, p)
  <2> HIDE DEF p
  <2> QED
    BY <1>1, LiveFacts
<1> QED
  BY <1>2, LocateFound

LEMMA FindEdgeStays ==
  ASSUME IInv, NEW src, src.index \in Nat, NEW dst, dst.index \in Nat, FindEdge(src, dst)
  PROVE  Stays
<1> DEFINE op == "find_edge"
           p == "edges"
           e == LocateEdge(W, src.index, dst.index)
           yes == Reply("OK", Pair(src, dst), 0, <<e>>)
           h == HandleOf(W, p, e)
<1>1. Ready /\ op \notin {"add_vertex", "add_edge", "traverse"} /\ p \in Pools
  BY DEF FindEdge, Pools
<1>2. graph # Zeroed /\ Good(W) /\ Done(W, W)
  BY <1>1, Awake
<1>3. \/ \E no : Commit(op, W, no)
      \/ /\ Live(W, "vertices", src) /\ Live(W, "vertices", dst) /\ e # NoIndex
         /\ Issue(op, W, yes, p, h)
  BY DEF FindEdge
<1>4. CASE \E no : Commit(op, W, no)
  <2> HIDE DEF op
  <2> QED
    BY <1>1, <1>4, SameStays
<1>5. CASE /\ Live(W, "vertices", src) /\ Live(W, "vertices", dst) /\ e # NoIndex
           /\ Issue(op, W, yes, p, h)
  <2>1. e \in Used(W, p)
    <3> HIDE DEF e
    <3>1. e = LocateEdge(W, src.index, dst.index)
      BY DEF e
    <3> QED
      BY <1>2, <1>5, <3>1, LocateLive
  <2>2. Frugal(W, op, yes.status, W)
    BY DEF Frugal
  <2> HIDE DEF op, p, yes, e
  <2> QED
    BY <1>1, <1>2, <1>5, <2>1, <2>2, IssueStays
<1> QED
  BY <1>3, <1>4, <1>5

LEMMA RemoveBetweenStays ==
  ASSUME IInv, NEW src, src.index \in Nat, NEW dst, dst.index \in Nat, RemoveEdgeBetween(src, dst)
  PROVE  Stays
<1> DEFINE op == "remove_between"
           e == LocateEdge(W, src.index, dst.index)
           yes == Reply("OK", Pair(src, dst), 1, <<e>>)
           u == Touch(ReleaseEdge(W, e))
<1>1. Ready /\ op \notin {"add_vertex", "add_edge", "traverse"}
  BY DEF RemoveEdgeBetween
<1>2. graph # Zeroed /\ Good(W) /\ Done(W, W)
  BY <1>1, Awake
<1>3. \/ \E no : Commit(op, W, no)
      \/ /\ Live(W, "vertices", src) /\ Live(W, "vertices", dst) /\ e # NoIndex
         /\ Commit(op, u, yes)
  BY DEF RemoveEdgeBetween
<1>4. CASE \E no : Commit(op, W, no)
  <2> HIDE DEF op
  <2> QED
    BY <1>1, <1>4, SameStays
<1>5. CASE /\ Live(W, "vertices", src) /\ Live(W, "vertices", dst) /\ e # NoIndex
           /\ Commit(op, u, yes)
  <2>1. Done(W, u)
    <3> HIDE DEF e
    <3>1. e = LocateEdge(W, src.index, dst.index)
      BY DEF e
    <3> QED
      BY <1>2, <1>5, <3>1, LocateLive, CutDone
  <2> HIDE DEF op, yes, u
  <2> QED
    BY <1>1, <1>2, <1>5, <2>1, CallStays
<1> QED
  BY <1>3, <1>4, <1>5

LEMMA SetWeightStays ==
  ASSUME IInv, NEW h, h.index \in Nat, NEW weight \in Weights, SetEdgeWeight(h, weight)
  PROVE  Stays
<1> DEFINE op == "set_weight"
           p == "edges"
           e == h.index
           yes == Reply("OK", <<h.index, weight>>, 0, <<>>)
           u == [W EXCEPT !.weights[e] = weight]
<1>1. Ready /\ op \notin {"add_vertex", "add_edge", "traverse"} /\ p \in Pools
  BY DEF SetEdgeWeight, Pools
<1>2. graph # Zeroed /\ Good(W) /\ Kept(W) /\ W.bytes = bytes
  BY <1>1, Awake, WFacts
<1>3. \/ \E no : Commit(op, W, no)
      \/ bytes.weights # 0 /\ Live(W, p, h) /\ Commit(op, u, yes)
  BY DEF SetEdgeWeight
<1>4. CASE \E no : Commit(op, W, no)
  <2> HIDE DEF op
  <2> QED
    BY <1>1, <1>4, SameStays
<1>5. CASE bytes.weights # 0 /\ Live(W, p, h) /\ Commit(op, u, yes)
  <2>1. e \in Used(W, "edges")
    <3>1. h.index \in Used(W, p)
      <4> HIDE DEF p
      <4> QED
        BY <1>1, <1>2, <1>5, LiveFacts
    <3> QED
      BY <3>1
  <2>2. W.bytes.weights # 0
    BY <1>2, <1>5
  <2>3. Done(W, u)
    <3> HIDE DEF e
    <3>1. \E x : x = u
      OBVIOUS
    <3> QED
      BY <1>2, <2>1, <2>2, WeightDone
  <2> HIDE DEF op, yes, u
  <2> QED
    BY <1>1, <1>2, <1>5, <2>3, CallStays
<1> QED
  BY <1>3, <1>4, <1>5

LEMMA AddVerticesStays ==
  ASSUME IInv, NEW count \in Nat, AddVertices(count)
  PROVE  Stays
<1> DEFINE op == "add_vertices"
           p == "vertices"
           items == [i \in 1 .. count |-> i]
<1>1. PICK r \in Insert(W, p, items) : Commit(op, r.w, Reply("OK", <<count>>, Len(r.out), r.out))
  BY DEF AddVertices
<1> DEFINE reply == Reply("OK", <<count>>, Len(r.out), r.out)
           u == r.w
<1>2. Ready /\ op \notin {"add_vertex", "add_edge", "traverse"} /\ p \in Pools
  BY DEF AddVertices, Pools
<1>3. graph # Zeroed /\ Good(W)
  BY <1>2, Awake
<1>4. items \in Seq(Nat) /\ Len(items) \in Nat /\ \A k \in 1 .. Len(items) : Fits(p, items[k])
  BY DEF Fits
<1>5. Commit(op, u, reply)
  BY <1>1
<1>6. Done(W, u)
  <2> HIDE DEF p, items
  <2> QED
    BY <1>1, <1>2, <1>3, <1>4, InsertDone
<1> HIDE DEF op, reply, u
<1> QED
  BY <1>2, <1>3, <1>5, <1>6, CallStays

LEMMA LengthOf ==
  ASSUME NEW n \in Nat, NEW g, g = [k \in 1 .. n |-> g[k]]
  PROVE  Len(g) = n
<1> DEFINE S == {g[k] : k \in 1 .. n}
<1>1. \A k \in 1 .. n : g[k] \in S
  OBVIOUS
<1> HIDE DEF S
<1>2. g \in [1 .. n -> S]
  BY <1>1
<1>3. g \in Seq(S) /\ DOMAIN g = 1 .. n
  BY <1>2
<1> QED
  BY <1>3

LEMMA SpecFacts ==
  ASSUME NEW specs \in Seq([src : Nat, dst : Nat, weight : Weights])
  PROVE  /\ DOMAIN specs = 1 .. Len(specs) /\ Len(specs) \in Nat
         /\ \A k \in DOMAIN specs : specs[k] \in [src : Nat, dst : Nat, weight : Weights]
<1> DEFINE S == [src : Nat, dst : Nat, weight : Weights]
<1>1. specs \in Seq(S)
  OBVIOUS
<1> HIDE DEF S
<1>2. DOMAIN specs = 1 .. Len(specs) /\ Len(specs) \in Nat /\ \A k \in DOMAIN specs : specs[k] \in S
  BY <1>1
<1> QED
  BY <1>2 DEF S

LEMMA AddEdgesStays ==
  ASSUME IInv, NEW specs \in Seq([src : Nat, dst : Nat, weight : Weights]), AddEdges(specs)
  PROVE  Stays
<1> DEFINE op == "add_edges"
           p == "edges"
           at(i) == IF InUse(vertices, i) THEN HandleOf(W, "vertices", i) ELSE NoHandle
           items == [k \in DOMAIN specs |-> [specs[k] EXCEPT !.src = at(@), !.dst = at(@)]]
<1>1. PICK r \in Insert(W, p, items) : Commit(op, r.w, Reply("OK", specs, Len(r.out), r.out))
  BY DEF AddEdges
<1> DEFINE reply == Reply("OK", specs, Len(r.out), r.out)
           u == r.w
<1>2. Ready /\ op \notin {"add_vertex", "add_edge", "traverse"} /\ p \in Pools
  BY DEF AddEdges, Pools
<1>3. graph # Zeroed /\ Good(W)
  BY <1>2, Awake
<1>4. \A i \in Nat : at(i).index \in Nat
  BY PoolAssumption DEF HandleOf, NoHandle
<1>5. \A k \in DOMAIN specs : specs[k] \in [src : Nat, dst : Nat, weight : Weights]
  BY SpecFacts
<1>6. DOMAIN specs = 1 .. Len(specs) /\ Len(specs) \in Nat
  BY SpecFacts
<1>7. \A k \in DOMAIN specs : Fits(p, items[k])
  <2> TAKE k \in DOMAIN specs
  <2>1. items[k] = [specs[k] EXCEPT !.src = at(specs[k].src), !.dst = at(specs[k].dst)]
    OBVIOUS
  <2>2. items[k].src = at(specs[k].src) /\ items[k].dst = at(specs[k].dst) /\ items[k].weight = specs[k].weight
    <3> HIDE DEF at, items
    <3> QED
      BY <1>5, <2>1
  <2> HIDE DEF at, items
  <2> QED
    BY <1>4, <1>5, <2>2 DEF Fits
<1>8. Len(items) = Len(specs)
  <2>1. DOMAIN items = 1 .. Len(specs)
    BY <1>6
  <2>2. items = [k \in DOMAIN items |-> items[k]]
    OBVIOUS
  <2> HIDE DEF items
  <2>3. PICK n \in Nat : n = Len(specs)
    BY <1>6
  <2>4. items = [k \in 1 .. n |-> items[k]]
    BY <2>1, <2>2, <2>3
  <2> QED
    BY <2>3, <2>4, LengthOf
<1>9. Commit(op, u, reply)
  BY <1>1
<1>10. Done(W, u)
  <2>1. Len(items) \in Nat /\ \A k \in 1 .. Len(items) : Fits(p, items[k])
    <3> HIDE DEF items, p
    <3> QED
      BY <1>6, <1>7, <1>8
  <2> HIDE DEF p, items
  <2> QED
    BY <1>1, <1>2, <1>3, <2>1, InsertDone
<1> HIDE DEF op, reply, u
<1> QED
  BY <1>2, <1>3, <1>9, <1>10, CallStays
(* A call before or after the life of a graph. *)
LEMMA ForgetStays ==
  ASSUME NEW op, op \in {"init", "destroy"}, NEW reply, NEW u, Forget(op, u, reply), Blank(u) \/ Good(u)
  PROVE  Stays
<1>1. Put(op, u, reply) /\ watch' = NoWatch
  BY DEF Forget
<1>2. /\ W' = Stored(u) /\ graph' = u.cb
      /\ last'.op = op /\ last'.reply = reply /\ last'.calls = u.calls
  BY <1>1, PutFacts
<1>3. IF graph' = Zeroed THEN Blank(W') ELSE Good(W')
  <2>1. CASE Blank(u)
    <3>1. graph' = Zeroed
      BY <1>2, <2>1 DEF Blank
    <3>2. Blank(Stored(u))
      BY <2>1, StoredFacts
    <3> QED
      BY <1>2, <3>1, <3>2
  <2>2. CASE Good(u)
    <3>1. graph' # Zeroed
      BY <1>2, <2>2, GoodReady
    <3>2. Good(Stored(u))
      BY <2>2, StoredFacts
    <3> QED
      BY <1>2, <3>1, <3>2
  <2> QED
    BY <2>1, <2>2
<1>4. WatchOn(watch', W')
  BY <1>1 DEF WatchOn
<1>5. IInv'
  BY <1>3, <1>4 DEF IInv
<1>6. QuietStep /\ CoverStep
  BY <1>2 DEF QuietStep, CoverStep
<1> QED
  BY <1>5, <1>6 DEF Stays

LEMMA InitStays ==
  ASSUME IInv, NEW config \in Configurations, NEW allocator \in Hooks, GraphInit(config, allocator)
  PROVE  Stays
<1> DEFINE op == "init"
           cb == Configured(config, allocator)
           v == [W EXCEPT !.cb = cb]
<1>1. graph = Zeroed /\ op \in {"init", "destroy"}
  BY DEF GraphInit
<1>2. Blank(W)
  BY <1>1 DEF IInv
<1>3. W \in Worlds
  BY <1>2, BlankWorld, WFacts
<1>4. \/ \E no : Forget(op, W, no)
      \/ /\ Refusal(config, allocator) = "none"
         /\ \E r \in Built(v, config) : \E reply :
              Forget(op, IF r.status = "OK" THEN r.w ELSE Destroyed(r.w), reply)
  BY DEF GraphInit
<1>5. CASE \E no : Forget(op, W, no)
  <2> HIDE DEF op
  <2> QED
    BY <1>1, <1>2, <1>5, ForgetStays
<1>6. CASE /\ Refusal(config, allocator) = "none"
           /\ \E r \in Built(v, config) : \E reply :
                Forget(op, IF r.status = "OK" THEN r.w ELSE Destroyed(r.w), reply)
  <2>1. PICK r \in Built(v, config) :
          \E reply : Forget(op, IF r.status = "OK" THEN r.w ELSE Destroyed(r.w), reply)
    BY <1>6
  <2> DEFINE u == IF r.status = "OK" THEN r.w ELSE Destroyed(r.w)
  <2>2. IF r.status = "OK" THEN Good(r.w) ELSE Blank(Destroyed(r.w))
    <3>1. cb = Configured(config, allocator) /\ v = [W EXCEPT !.cb = cb]
      OBVIOUS
    <3> HIDE DEF cb, v
    <3> QED
      BY <1>2, <1>3, <1>6, <3>1, InitDone
  <2>3. Blank(u) \/ Good(u)
    BY <2>2
  <2>4. \E reply : Forget(op, u, reply)
    BY <2>1
  <2> HIDE DEF op, u
  <2> QED
    BY <1>1, <2>3, <2>4, ForgetStays
<1> QED
  BY <1>4, <1>5, <1>6

LEMMA DestroyStays ==
  ASSUME IInv, Destroy
  PROVE  Stays
<1> DEFINE op == "destroy"
           reply == Reply("OK", <<>>, 0, <<>>)
           u == Destroyed(W)
<1>1. Ready /\ Forget(op, u, reply) /\ op \in {"init", "destroy"}
  BY DEF Destroy
<1>2. Blank(u)
  BY <1>1, Awake, DestroyedFacts DEF Kept
<1> HIDE DEF op, reply, u
<1> QED
  BY <1>1, <1>2, ForgetStays

LEMMA ResetStays ==
  ASSUME IInv, Reset
  PROVE  Stays
<1> DEFINE op == "reset"
<1>1. Ready /\ op \notin {"add_vertex", "add_edge", "traverse"}
  BY DEF Reset
<1>2. graph # Zeroed /\ Good(W) /\ W.cb = graph
  BY <1>1, Awake, WFacts
<1>3. PICK r \in ResizeBoth(Emptied(W), graph.initial) : Forget(op, r.w, Reply(r.status, <<>>, 0, <<>>))
  BY DEF Reset
<1> DEFINE reply == Reply(r.status, <<>>, 0, <<>>)
           u == r.w
<1>4. Forget(op, u, reply)
  BY <1>3
<1>5. Good(u) /\ Quiet(W, u)
  BY <1>2, ResetDone
<1> HIDE DEF op, reply, u
<1>6. Put(op, u, reply) /\ WatchOn(watch', u)
  BY <1>4 DEF Forget, WatchOn
<1>7. Frugal(W, op, reply.status, u)
  BY <1>1 DEF Frugal
<1> QED
  BY <1>2, <1>5, <1>6, <1>7, PutStays

(* An iterator looks on. *)
LEMMA LookStays ==
  ASSUME IInv, NEW op, op # "traverse", NEW reply, Look(op, reply)
  PROVE  Stays
<1>1. W' = W /\ graph' = graph /\ watch' = watch /\ last'.op = op /\ last'.calls = {}
  BY DEF Look, W
<1>2. IInv'
  BY <1>1 DEF IInv
<1>3. QuietStep /\ CoverStep
  BY <1>1 DEF QuietStep, CoverStep
<1> QED
  BY <1>2, <1>3 DEF Stays

LEMMA IterStays ==
  ASSUME IInv, EdgeIterNext \/ VertexIterNext \/ VerticesBegin \/ \E kind, h : IterBegin(kind, h)
  PROVE  Stays
<1>1. \E op, reply : op # "traverse" /\ Look(op, reply)
  <2>1. CASE EdgeIterNext
    BY <2>1 DEF EdgeIterNext, Finished, Yield
  <2>2. CASE VertexIterNext
    BY <2>2 DEF VertexIterNext, Finished, Yield
  <2>3. CASE VerticesBegin
    BY <2>3 DEF VerticesBegin
  <2>4. CASE \E kind, h : IterBegin(kind, h)
    BY <2>4 DEF IterBegin
  <2> QED
    BY <2>1, <2>2, <2>3, <2>4
<1> QED
  BY <1>1, LookStays

LEMMA HandleIndex ==
  ASSUME IInv, NEW p \in Pools, NEW h \in Handles(p)
  PROVE  h.index \in Nat
<1>1. DOMAIN W[p] \subseteq Nat
  <2>1. W \in Worlds
    <3>1. CASE graph = Zeroed
      BY <3>1, BlankWorld, WFacts DEF IInv
    <3>2. CASE graph # Zeroed
      BY <3>2, Awake DEF Ready
    <3> QED
      BY <3>1, <3>2
  <2> QED
    BY <2>1, WorldFacts DEF Pools
<1>2. CASE h = NoHandle
  BY <1>2, PoolAssumption DEF NoHandle
<1>3. CASE h \in [index : DOMAIN W[p], generation : 1 .. GenMax]
  <2>1. h.index \in DOMAIN W[p]
    BY <1>3
  <2> QED
    BY <1>1, <2>1
<1> QED
  BY <1>2, <1>3 DEF Handles
(* Every step keeps the invariant and both action properties. *)
LEMMA StepStays ==
  ASSUME IInv, Next
  PROVE  Stays
<1>1. Configs \subseteq Configurations /\ Allocators \subseteq Hooks
  BY GraphAssumption DEF Configurations, Hooks
<1>2. "vertices" \in Pools /\ "edges" \in Pools
  BY DEF Pools
<1>3. (\A h \in Handles("vertices") : h.index \in Nat) /\ (\A h \in Handles("edges") : h.index \in Nat)
  <2>1. \A p \in Pools : \A h \in Handles(p) : h.index \in Nat
    BY HandleIndex
  <2> HIDE DEF Handles
  <2> QED
    BY <1>2, <2>1
<1>4. CASE \E config \in Configs, allocator \in Allocators : GraphInit(config, allocator)
  BY <1>1, <1>4, InitStays
<1>5. CASE Destroy \/ Clear \/ Reset \/ BeginUpdate \/ CommitUpdate \/ AddVertex \/ ReserveTraversal \/ ShrinkToFit
  BY <1>5, DestroyStays, ClearStays, ResetStays, BeginStays, EndStays, AddVertexStays, ReserveTraversalStays,
     ShrinkStays
<1>6. CASE \E h \in Handles("vertices") : RemoveVertex(h) \/ Degree(h) \/ Traverse(h)
  BY <1>3, <1>6, RemoveVertexStays, LookupStays, TraverseStays
<1>7. CASE \E s, d \in Handles("vertices") :
             \/ \E weight \in Weights : AddEdge(s, d, weight)
             \/ RemoveEdgeBetween(s, d)
             \/ FindEdge(s, d)
  BY <1>3, <1>7, AddEdgeStays, RemoveBetweenStays, FindEdgeStays
<1>8. CASE \E h \in Handles("edges") :
             \/ RemoveEdge(h) \/ EdgeEndpoints(h) \/ EdgeWeight(h)
             \/ \E weight \in Weights : SetEdgeWeight(h, weight)
  BY <1>3, <1>8, RemoveEdgeStays, LookupStays, SetWeightStays
<1>9. CASE \E p \in Pools, capacity \in Reserves : Reserve(p, capacity)
  BY <1>9, GraphAssumption, ReserveStays
<1>10. CASE \E count \in Counts : AddVertices(count)
  BY <1>10, GraphAssumption, AddVerticesStays
<1>11. CASE \E specs \in SpecLists : AddEdges(specs)
  BY <1>11, GraphAssumption, AddEdgesStays
<1>12. CASE EdgeIterNext \/ VertexIterNext \/ VerticesBegin \/ \E kind, h : IterBegin(kind, h)
  BY <1>12, IterStays
<1> QED
  BY <1>4, <1>5, <1>6, <1>7, <1>8, <1>9, <1>10, <1>11, <1>12 DEF Next

LEMMA InitHolds ==
  ASSUME Init
  PROVE  IInv
<1>1. graph = Zeroed /\ watch = NoWatch
  BY DEF Init
<1>2. Blank(W)
  BY WFacts DEF Init, Blank
<1>3. WatchOn(watch, W)
  BY <1>1 DEF WatchOn
<1> QED
  BY <1>1, <1>2, <1>3 DEF IInv

LEMMA StutterHolds ==
  ASSUME IInv, UNCHANGED vars
  PROVE  IInv'
<1>1. W' = W /\ graph' = graph /\ watch' = watch
  BY DEF vars, W
<1> QED
  BY <1>1 DEF IInv

(* What holds in every state of the graph: before dv_graph_init and after
   dv_graph_destroy nothing is there, and in between the counters stand for the
   blocks, the lists are threaded, and the free lists hold the rest.        *)
THEOREM GraphInvHolds == Spec => []IInv
<1>1. Init => IInv
  BY InitHolds
<1>2. IInv /\ [Next]_vars => IInv'
  <2>1. IInv /\ Next => IInv'
    BY StepStays DEF Stays
  <2>2. IInv /\ UNCHANGED vars => IInv'
    BY StutterHolds
  <2> QED
    BY <2>1, <2>2
<1> QED
  BY <1>1, <1>2, PTL DEF Spec

(* DESIGN.md: a fixed graph never calls the allocator after its init, and
   insertions and traversals of any graph only when they have to.           *)
THEOREM AllocatorStaysQuiet == Spec => AllocatorQuiet
<1>1. IInv /\ [Next]_vars
      => [\/ ~graph.growable /\ last'.op \notin {"init", "destroy"}
          \/ last'.op = "add_vertex" /\ graph.count.vertices < graph.capacity.vertices
          \/ last'.op = "add_edge" /\ graph.count.edges < graph.capacity.edges
          \/ last'.op = "traverse" /\ graph.work_capacity >= graph.capacity.vertices
               /\ graph.visited_words >= Words(graph.capacity.vertices)
          => last'.calls = {}]_vars
  BY StepStays DEF Stays, QuietStep
<1> QED
  BY <1>1, GraphInvHolds, PTL DEF Spec, AllocatorQuiet

(* dv_graph_bfs, dv_graph_dfs and dv_graph_reachable start with a frontier and
   a visited set for every slot below the vertex mark.                      *)
THEOREM ScratchAlwaysCovers == Spec => ScratchCovers
<1>1. IInv /\ [Next]_vars
      => [last'.op = "traverse" /\ last'.reply.status = "OK" =>
            /\ graph'.work_capacity >= graph'.watermark.vertices
            /\ graph'.visited_words * WordBits >= graph'.watermark.vertices]_vars
  BY StepStays DEF Stays, CoverStep
<1> QED
  BY <1>1, GraphInvHolds, PTL DEF Spec, ScratchCovers
(***************************************************************************)
(* The invariants.                                                         *)
(***************************************************************************)
LEMMA BlankFacts ==
  ASSUME NEW w, Blank(w)
  PROVE  /\ \A p \in Pools : /\ DOMAIN w[p] = {} /\ w.cb.capacity[p] = 0 /\ w.cb.watermark[p] = 0
                             /\ w.cb.max[p] = 0 /\ w.cb.initial[p] = 0 /\ w.cb.free[p] = 0
         /\ w.cb.weight_capacity = 0 /\ w.cb.work_capacity = 0 /\ w.cb.visited_words = 0
         /\ w.cb.weighted = FALSE /\ w.contract = TRUE /\ w.outstanding = 0
         /\ \A b \in Blocks : w.bytes[b] = 0
<1>1. DOMAIN Empty = {}
  <2>1. 0 .. -1 = {}
    OBVIOUS
  <2> QED
    BY <2>1 DEF Empty
<1>2. \A p \in Pools : DOMAIN w[p] = {}
  BY <1>1 DEF Blank, Pools
<1>3. w.contract = TRUE
  BY Zenon DEF Blank
<1> QED
  BY <1>2, <1>3, ZeroedFacts DEF Blank

LEMMA MemoryHolds ==
  ASSUME IInv
  PROVE  MemoryAccounted
<1>1. W.cb = graph /\ W.bytes = bytes /\ W.outstanding = outstanding /\ W.contract = contract /\ W.weights = weights
  BY WFacts
<1>2. CASE graph = Zeroed
  <2>1. Blank(W)
    BY <1>2 DEF IInv
  <2>2. \A p \in Pools : bytes[p] = 0 /\ graph.capacity[p] = 0 /\ DOMAIN W[p] = {}
    BY <1>1, <2>1, BlankFacts DEF Blocks
  <2>3. /\ contract /\ outstanding = 0 /\ bytes.vertices = 0 /\ bytes.edges = 0 /\ bytes.weights = 0
        /\ bytes.work = 0 /\ bytes.visited = 0 /\ graph.weight_capacity = 0 /\ graph.work_capacity = 0
        /\ graph.visited_words = 0 /\ graph.weighted = FALSE
    BY <1>1, <2>1, BlankFacts DEF Blocks, Pools
  <2>4. \A p \in Pools : SlotSize(p) = 32
    BY DEF SlotSize
  <2> QED
    BY <2>2, <2>3, <2>4 DEF MemoryAccounted
<1>3. CASE graph # Zeroed
  <2>1. Sound(W)
    BY <1>3 DEF IInv, Good, Kept
  <2>2. W \in Worlds
    BY <2>1 DEF Sound
  <2>3. /\ contract
        /\ outstanding = bytes.vertices + bytes.edges + bytes.weights + bytes.work + bytes.visited
    BY <1>1, <2>1 DEF Sound, Balanced, Total
  <2>4. \A p \in Pools : bytes[p] = graph.capacity[p] * SlotSize(p)
    BY <1>1, <2>1 DEF Sound, SlotSize
  <2>5. /\ bytes.weights = graph.weight_capacity * 8
        /\ bytes.work = graph.work_capacity * 8
        /\ bytes.visited = graph.visited_words * 8
        /\ IF graph.weighted THEN graph.weight_capacity >= graph.capacity.edges
           ELSE graph.weight_capacity = 0
    BY <1>1, <2>1 DEF Sound
  <2>6. \A p \in Pools : \A i \in DOMAIN W[p] : W[p][i] # Garbage
    <3>1. /\ \A e \in DOMAIN W.edges : W.edges[e] \in EdgeSlots
          /\ \A v \in DOMAIN W.vertices : W.vertices[v] \in VertexSlots
      BY <2>2, SlotFacts
    <3> QED
      BY <3>1, GarbageAssumption DEF Pools
  <2>7. graph.weighted => \A e \in LiveSlots("edges") : weights[e] # Garbage
    <3> SUFFICES ASSUME graph.weighted, NEW e \in LiveSlots("edges")
                 PROVE  weights[e] # Garbage
      OBVIOUS
    <3>1. e \in DOMAIN W.edges /\ W.edges[e].active
      BY DEF LiveSlots
    <3>2. e \in DOMAIN W.weights
      BY <1>1, <2>1, <3>1 DEF Sound
    <3>3. W.weights[e] \in Weights
      BY <2>2, <3>2, WorldFacts
    <3> QED
      BY <1>1, <3>3, GraphAssumption
  <2> QED
    BY <2>3, <2>4, <2>5, <2>6, <2>7 DEF MemoryAccounted
<1> QED
  BY <1>2, <1>3

LEMMA CeilingHolds ==
  ASSUME IInv
  PROVE  CeilingKept
<1>1. W.cb = graph
  BY WFacts
<1>2. CASE graph = Zeroed
  <2>1. Blank(W)
    BY <1>2 DEF IInv
  <2>2. \A p \in Pools : graph.max[p] = 0 /\ graph.capacity[p] = 0 /\ graph.initial[p] = 0
    BY <1>1, <2>1, BlankFacts
  <2> QED
    BY <2>2 DEF CeilingKept
<1>3. CASE graph # Zeroed
  BY <1>1, <1>3 DEF IInv, Good, Kept, Capped, CeilingKept
<1> QED
  BY <1>2, <1>3

LEMMA HandleHolds ==
  ASSUME IInv
  PROVE  HandleExact
<1> SUFFICES ASSUME watch # NoWatch
             PROVE  Live(W, watch.pool, watch.handle) <=> watch.age = 0
  BY DEF HandleExact
<1> DEFINE p == watch.pool
           i == watch.handle.index
           g == watch.handle.generation
           a == watch.age
<1>1. /\ p \in Pools /\ i \in DOMAIN W[p] /\ g \in 1 .. GenMax /\ a \in 0 .. GenMax - 1
      /\ W[p][i].generation = Later(g, a)
      /\ a = 0 => W[p][i].active
  BY DEF IInv, WatchOn
<1>2. i < W.cb.watermark[p]
  <2>1. CASE graph = Zeroed
    BY <1>1, <2>1, BlankFacts DEF IInv
  <2>2. CASE graph # Zeroed
    BY <1>1, <2>2, SlotsFacts DEF IInv, Good
  <2> QED
    BY <2>1, <2>2
<1>3. Later(g, a) = g <=> a = 0
  BY <1>1, LaterFacts
<1>4. g # 0
  BY <1>1
<1>5. Live(W, p, watch.handle) <=> (W[p][i].active /\ W[p][i].generation = g)
  BY <1>2, <1>4 DEF Live
<1> HIDE DEF p, i, g
<1> QED
  BY <1>1, <1>3, <1>5 DEF p

(* dv_graph_init, the resizes, dv_graph_reset and dv_graph_destroy account for
   every byte, whichever of two blocks is refused.                          *)
THEOREM MemoryAlwaysAccounted == Spec => []MemoryAccounted
<1>1. IInv => MemoryAccounted
  BY MemoryHolds
<1> QED
  BY <1>1, GraphInvHolds, PTL

(* No sequence of calls takes a pool past its ceiling, and the pools of a fixed
   graph stay as dv_graph_init made them.                                   *)
THEOREM CeilingsAlwaysKept == Spec => []CeilingKept
<1>1. IInv => CeilingKept
  BY CeilingHolds
<1> QED
  BY <1>1, GraphInvHolds, PTL

(* A handle is accepted for as long as what it was issued for is there, and
   refused from its removal on, for graphs and tags of any size.            *)
THEOREM HandlesExact == Spec => []HandleExact
<1>1. IInv => HandleExact
  BY HandleHolds
<1> QED
  BY <1>1, GraphInvHolds, PTL
(* The links of an edge in a list agree with those of its neighbours. *)
LEMMA FollowsBack ==
  ASSUME NEW M, NEW st, Stamped(M, st), NEW next, NEW head, Chained(M, st, next, head),
         NEW e \in M, NEW p, Follows(M, Backward(st), e, p)
  PROVE  IF p = NoIndex THEN head = e ELSE next[p] = e
<1>1. /\ \A f \in M : st[f] \in Int /\ Backward(st)[f] = -st[f]
      /\ \A f, g \in M : st[f] = st[g] => f = g
      /\ \A f \in M : f # NoIndex
  BY StampFacts, BackwardFacts
<1>2. CASE p = NoIndex
  <2>1. \A f \in M : st[e] <= st[f]
    BY <1>1, <1>2 DEF Follows
  <2>2. head \in M /\ \A f \in M : st[head] <= st[f]
    BY DEF Chained, Leads
  <2>3. st[head] = st[e]
    BY <1>1, <2>1, <2>2
  <2> QED
    BY <1>1, <1>2, <2>2, <2>3
<1>3. CASE p # NoIndex
  <2>1. p \in M /\ st[p] < st[e] /\ \A f \in M : st[e] <= st[f] \/ st[f] <= st[p]
    BY <1>1, <1>3 DEF Follows
  <2> DEFINE n == next[p]
  <2>2. Follows(M, st, p, n)
    BY <2>1 DEF Chained
  <2> HIDE DEF n
  <2>3. n # NoIndex
    BY <1>1, <2>1, <2>2 DEF Follows
  <2>4. n \in M /\ st[p] < st[n] /\ (st[e] <= st[p] \/ st[n] <= st[e])
    BY <2>2, <2>3 DEF Follows
  <2>5. st[n] = st[e]
    BY <1>1, <2>1, <2>4
  <2>6. n = e
    BY <1>1, <2>4, <2>5
  <2> QED
    BY <1>3, <2>6 DEF n
<1> QED
  BY <1>2, <1>3

LEMMA ThreadLinks ==
  ASSUME NEW G, NEW M, NEW st, NEW v, Stamped(M, st), Threaded(G, M, st, v)
  PROVE  /\ G.head[v] = NoIndex <=> G.tail[v] = NoIndex
         /\ \A e \in M : /\ IF G.prev[e] = NoIndex THEN G.head[v] = e ELSE G.next[G.prev[e]] = e
                         /\ IF G.next[e] = NoIndex THEN G.tail[v] = e ELSE G.prev[G.next[e]] = e
<1> DEFINE next == G.next
           prev == G.prev
           head == G.head[v]
           tail == G.tail[v]
           bt == Backward(st)
<1>1. Chained(M, st, next, head) /\ Chained(M, bt, prev, tail)
  BY DEF Threaded
<1>2. Stamped(M, bt)
  BY BackwardFacts
<1>3. head = NoIndex <=> tail = NoIndex
  <2> HIDE DEF next, prev, head, tail, bt
  <2> QED
    BY <1>1 DEF Chained, Leads
<1>4. ASSUME NEW e \in M
      PROVE  IF prev[e] = NoIndex THEN head = e ELSE next[prev[e]] = e
  <2> DEFINE p == prev[e]
  <2>1. Follows(M, Backward(st), e, p)
    BY <1>1 DEF Chained
  <2> HIDE DEF p, prev, next, head
  <2>2. IF p = NoIndex THEN head = e ELSE next[p] = e
    BY <1>1, <2>1, FollowsBack
  <2> QED
    BY <2>2 DEF p
<1>5. ASSUME NEW e \in M
      PROVE  IF next[e] = NoIndex THEN tail = e ELSE prev[next[e]] = e
  <2> DEFINE n == next[e]
  <2>1. Follows(M, st, e, n)
    BY <1>1 DEF Chained
  <2> HIDE DEF n, next
  <2>2. Follows(M, Backward(bt), e, n)
    BY <2>1, BackwardTwice
  <2> HIDE DEF prev, tail, bt
  <2>3. IF n = NoIndex THEN tail = e ELSE prev[n] = e
    BY <1>1, <1>2, <2>2, FollowsBack
  <2> QED
    BY <2>3 DEF n
<1> QED
  BY <1>3, <1>4, <1>5

(* A list of a vertex in use, as dv_graph_is_valid walks it. *)
LinkedAt(w, l, v) ==
  /\ w.vertices[v].head[l] = NoIndex <=> w.vertices[v].tail[l] = NoIndex
  /\ \A e \in Of(w, l, v) :
       /\ IF w.edges[e].prev[l] = NoIndex THEN w.vertices[v].head[l] = e
          ELSE w.edges[w.edges[e].prev[l]].next[l] = e
       /\ IF w.edges[e].next[l] = NoIndex THEN w.vertices[v].tail[l] = e
          ELSE w.edges[w.edges[e].next[l]].prev[l] = e

LEMMA LinkedAtFacts ==
  ASSUME NEW w, Good(w), NEW l \in Lists
  PROVE  /\ \A v \in Used(w, "vertices") : LinkedAt(w, l, v)
         /\ \A e \in Used(w, "edges") : EndOf(w.edges[e], l) \in Used(w, "vertices")
<1> DEFINE V == Used(w, "vertices")
           E == Used(w, "edges")
           G == View(w, l)
<1>1. Kept(w) /\ V \subseteq DOMAIN w.vertices /\ E \subseteq DOMAIN w.edges
  <2>1. Kept(w)
    BY DEF Good
  <2>2. E \subseteq DOMAIN w["edges"] /\ V \subseteq DOMAIN w["vertices"]
    BY <2>1, SlotsFacts, PoolNames
  <2> HIDE DEF E, V
  <2> QED
    BY <2>1, <2>2
<1>2. PICK st, hi : Ordered(E, st, hi) /\ OnLists(w, V, E, st)
  BY DEF Good, Formed, Lined, LinkedOn
<1>3. Threads(G, V, E, st) /\ Stamped(E, st)
  BY <1>2 DEF OnLists, Ordered
<1>4. /\ \A e \in DOMAIN w.edges : /\ G.ends[e] = EndOf(w.edges[e], l)
                                   /\ G.next[e] = w.edges[e].next[l] /\ G.prev[e] = w.edges[e].prev[l]
      /\ \A v \in DOMAIN w.vertices : G.head[v] = w.vertices[v].head[l] /\ G.tail[v] = w.vertices[v].tail[l]
  BY ViewFacts
<1> HIDE DEF V, E, G
<1>5. \A e \in E : EndOf(w.edges[e], l) \in V
  BY <1>1, <1>3, <1>4 DEF Threads
<1>6. ASSUME NEW v \in V PROVE LinkedAt(w, l, v)
  <2> DEFINE M == On(G, E, v)
  <2>1. M = Of(w, l, v)
    <3>1. \A e \in E : G.ends[e] = EndOf(w.edges[e], l)
      BY <1>1, <1>4
    <3> QED
      BY <3>1 DEF On, Of, E
  <2>2. M \subseteq E /\ Threaded(G, M, st, v)
    BY <1>3 DEF Threads, On
  <2> HIDE DEF M
  <2>3. Stamped(M, st)
    BY <1>3, <2>2, StampedSubset
  <2>4. /\ G.head[v] = NoIndex <=> G.tail[v] = NoIndex
        /\ \A e \in M : /\ IF G.prev[e] = NoIndex THEN G.head[v] = e ELSE G.next[G.prev[e]] = e
                        /\ IF G.next[e] = NoIndex THEN G.tail[v] = e ELSE G.prev[G.next[e]] = e
    BY <2>2, <2>3, ThreadLinks
  <2>5. \A e \in M : /\ G.prev[e] # NoIndex => G.prev[e] \in M
                     /\ G.next[e] # NoIndex => G.next[e] \in M
    BY <2>2 DEF Threaded, Chained, Follows
  <2>6. G.head[v] = w.vertices[v].head[l] /\ G.tail[v] = w.vertices[v].tail[l]
    BY <1>1, <1>4
  <2>7. \A e \in M : G.next[e] = w.edges[e].next[l] /\ G.prev[e] = w.edges[e].prev[l]
    BY <1>1, <1>4, <2>2
  <2> QED
    BY <2>1, <2>4, <2>5, <2>6, <2>7 DEF LinkedAt
<1> QED
  BY <1>5, <1>6 DEF V, E
LEMMA FreeSound ==
  ASSUME NEW w, Good(w), NEW p \in Pools
  PROVE  LET free == FreeList(w, p)
         IN /\ \A k \in DOMAIN free : ~w[p][free[k]].active
            /\ NoIndex = IF free = <<>> THEN w.cb.free[p] ELSE FreeLink(w, p, free[Len(free)])
            /\ w.cb.count[p] + Len(free) = w.cb.watermark[p]
<1> DEFINE M == Spare(w, p)
           U == Used(w, p)
           D == DOMAIN w[p]
           n == w.cb.watermark[p]
           link == FreeLinks(w, p)
           head == w.cb.free[p]
           s == FreeList(w, p)
<1>1. /\ D = 0 .. n - 1 /\ n \in Nat /\ NoIndex \notin D /\ IsFiniteSet(D) /\ Cardinality(D) = n
      /\ w.cb.count[p] = Cardinality(U)
  BY SlotsFacts DEF Good, Formed, Counted
<1>2. M = D \ U /\ U \subseteq D
  BY DEF Used, Spare
<1>3. PICK st, lo : Latest(M, st, lo) /\ Chained(M, st, link, head)
  BY DEF Good, Formed, FreedOn
<1>4. DOMAIN link = D /\ (\A i \in D : link[i] = FreeLink(w, p, i)) /\ s = Chain(link, head)
  BY FreeLinksFacts DEF FreeLinks, FreeList
<1>5. \A i \in M : ~w[p][i].active
  BY DEF Spare, Used
<1> HIDE DEF M, U, D, n, link, head, s
<1>6. Enumerates(s, M) /\ Closes(s, link)
  <2>1. DOMAIN link = 0 .. n - 1 /\ NoIndex \notin 0 .. n - 1 /\ M \subseteq 0 .. n - 1 /\ Stamped(M, st)
    BY <1>1, <1>2, <1>3, <1>4 DEF Latest
  <2> QED
    BY <1>1, <1>3, <1>4, <2>1, ChainRead
<1>7. IsFiniteSet(M)
  BY <1>1, <1>2, SubsetFinite
<1>8. /\ Len(s) \in Nat /\ Len(s) = Cardinality(M) /\ DOMAIN s = 1 .. Len(s)
      /\ (\A k \in 1 .. Len(s) : s[k] \in M) /\ (s = <<>> <=> M = {})
  BY <1>6, <1>7, EnumeratesFacts
<1>9. s = <<>> => head = NoIndex
  BY <1>3, <1>8 DEF Chained, Leads
<1>10. s # <<>> => FreeLink(w, p, s[Len(s)]) = NoIndex
  <2> SUFFICES ASSUME s # <<>> PROVE FreeLink(w, p, s[Len(s)]) = NoIndex
    OBVIOUS
  <2>1. Len(s) # 0
    BY <1>7, <1>8, FS_EmptySet
  <2>2. s[Len(s)] \in M
    BY <1>8, <2>1
  <2> QED
    BY <1>2, <1>4, <1>6, <2>2 DEF Closes
<1>11. Cardinality(U) + Cardinality(M) = n
  <2>1. IsFiniteSet(U) /\ U \cap M = {} /\ U \cup M = D
    BY <1>1, <1>2, SubsetFinite
  <2>2. Cardinality(U \cup M) = Cardinality(U) + Cardinality(M) - Cardinality(U \cap M)
    BY <1>7, <2>1, FS_Union
  <2>3. Cardinality(U) \in Nat /\ Cardinality(M) \in Nat /\ Cardinality(U \cap M) = 0
    BY <1>7, <2>1, FS_CardinalityType, FS_EmptySet
  <2>4. Cardinality(U \cup M) = n
    BY <1>1, <2>1
  <2> QED
    BY <2>2, <2>3, <2>4
<1>12. \A k \in DOMAIN s : ~w[p][s[k]].active
  BY <1>5, <1>8
<1>13. NoIndex = IF s = <<>> THEN head ELSE FreeLink(w, p, s[Len(s)])
  BY <1>9, <1>10
<1>14. w.cb.count[p] + Len(s) = n
  BY <1>1, <1>8, <1>11
<1> QED
  BY <1>12, <1>13, <1>14 DEF s, head, n

SumsDegrees(w, l, n, sum) ==
  sum = [k \in 0 .. n |-> IF k = 0 THEN 0
           ELSE sum[k - 1] + IF w.vertices[k - 1].active THEN w.vertices[k - 1].degree[l] ELSE 0]

(* Every edge counts once in the degrees of each list. *)
LEMMA DegreesAdd ==
  ASSUME NEW w, Good(w), NEW l \in Lists,
         NEW n, n = w.cb.watermark["vertices"], NEW sum, SumsDegrees(w, l, n, sum)
  PROVE  sum[n] = w.cb.count["edges"]
<1> DEFINE E == Used(w, "edges")
           V == Used(w, "vertices")
           end(e) == EndOf(w.edges[e], l)
           D(k) == {e \in E : end(e) < k}
           O(k) == Of(w, l, k)
<1>1. /\ n \in Nat /\ DOMAIN w.vertices = 0 .. n - 1 /\ IsFiniteSet(E) /\ w.cb.count["edges"] = Cardinality(E)
      /\ V = {v \in DOMAIN w.vertices : w.vertices[v].active}
  <2>1. Kept(w) /\ w.cb.count["edges"] = Cardinality(E)
    BY PoolNames DEF Good, Formed, Counted
  <2>2. w["vertices"] = w.vertices
    OBVIOUS
  <2>3. V = {v \in DOMAIN w.vertices : w.vertices[v].active}
    BY DEF Used
  <2> HIDE DEF E, V
  <2>4. n \in Nat /\ DOMAIN w["vertices"] = 0 .. n - 1
    BY <2>1, SlotsFacts, PoolNames
  <2>5. IsFiniteSet(E)
    BY <2>1, SlotsFacts, PoolNames DEF E
  <2> QED
    BY <2>1, <2>2, <2>3, <2>4, <2>5
<1>2. \A e \in E : end(e) \in V
  BY LinkedAtFacts
<1>3. \A v \in V : w.vertices[v].degree[l] = Cardinality(O(v))
  BY ListFacts DEF ListedOn
<1>4. \A k : O(k) = {e \in E : end(e) = k}
  BY DEF Of
<1> HIDE DEF E, V, end, O
<1>5. \A e \in E : end(e) \in 0 .. n - 1
  BY <1>1, <1>2
<1> DEFINE B == {k \in Nat : k <= n => sum[k] = Cardinality(D(k))}
<1>6. 0 \in B
  <2>1. D(0) = {}
    BY <1>5
  <2>2. sum[0] = 0
    BY <1>1 DEF SumsDegrees
  <2> HIDE DEF D
  <2> QED
    BY <2>1, <2>2, FS_EmptySet
<1>7. ASSUME NEW k \in B PROVE k + 1 \in B
  <2> SUFFICES ASSUME k + 1 <= n PROVE sum[k + 1] = Cardinality(D(k + 1))
    BY <1>7
  <2>1. k \in Nat /\ k \in 0 .. n - 1 /\ k + 1 \in 0 .. n /\ k + 1 # 0 /\ (k + 1) - 1 = k /\ sum[k] = Cardinality(D(k))
    BY <1>1, <1>7
  <2>2. sum[k + 1] = sum[k] + IF w.vertices[k].active THEN w.vertices[k].degree[l] ELSE 0
    BY <2>1 DEF SumsDegrees
  <2>3. /\ D(k + 1) = D(k) \cup O(k) /\ D(k) \cap O(k) = {}
        /\ D(k) \subseteq E /\ O(k) \subseteq E
    BY <1>4, <1>5, <2>1
  <2>4. (IF w.vertices[k].active THEN w.vertices[k].degree[l] ELSE 0) = Cardinality(O(k))
    <3>1. CASE w.vertices[k].active
      <4>1. k \in V
        BY <1>1, <2>1, <3>1
      <4> QED
        BY <1>3, <3>1, <4>1
    <3>2. CASE ~w.vertices[k].active
      <4>1. O(k) = {}
        BY <1>1, <1>2, <1>4, <3>2
      <4>2. Cardinality(O(k)) = 0
        BY <4>1, FS_EmptySet
      <4> QED
        BY <3>2, <4>2
    <3> QED
      BY <3>1, <3>2
  <2> DEFINE S == D(k)
             T == O(k)
             R == D(k + 1)
  <2>5. R = S \cup T /\ S \cap T = {} /\ S \subseteq E /\ T \subseteq E
    BY <2>3
  <2> HIDE DEF S, T, R, D
  <2>6. Cardinality(R) = Cardinality(S) + Cardinality(T)
    <3>1. IsFiniteSet(S) /\ IsFiniteSet(T)
      BY <1>1, <2>5, SubsetFinite
    <3>2. Cardinality(S \cup T) = Cardinality(S) + Cardinality(T) - Cardinality(S \cap T)
      BY <3>1, FS_Union
    <3>3. Cardinality(S) \in Nat /\ Cardinality(T) \in Nat /\ Cardinality(S \cap T) = 0
      BY <2>5, <3>1, FS_CardinalityType, FS_EmptySet
    <3> QED
      BY <2>5, <3>2, <3>3
  <2> QED
    BY <2>1, <2>2, <2>4, <2>6 DEF S, T, R
<1>8. n \in B
  <2>1. B \subseteq Nat
    OBVIOUS
  <2> HIDE DEF B
  <2> QED
    BY <1>1, <1>6, <1>7, <2>1, Induction
<1>9. D(n) = E
  BY <1>1, <1>5
<1> HIDE DEF D
<1> QED
  BY <1>1, <1>8, <1>9
LEMMA TypesHold ==
  ASSUME IInv
  PROVE  TypeOK
<1>1. W.cb = graph /\ W.vertices = vertices /\ W.edges = edges /\ W.outstanding = outstanding /\ W.contract = contract
  BY WFacts
<1>2. CASE graph = Zeroed
  <2>1. Blank(W)
    BY <1>2 DEF IInv
  <2>2. \A p \in Pools : graph.capacity[p] = 0 /\ graph.watermark[p] = 0 /\ graph.free[p] = 0 /\ DOMAIN W[p] = {}
    BY <1>1, <2>1, BlankFacts
  <2>3. DOMAIN vertices = {} /\ DOMAIN edges = {}
    <3>1. DOMAIN W["vertices"] = {} /\ DOMAIN W["edges"] = {}
      BY <2>2 DEF Pools
    <3> QED
      BY <1>1, <3>1
  <2>4. contract \in BOOLEAN /\ outstanding \in Nat
    <3>1. contract = TRUE
      BY <1>1, <2>1, BlankFacts, Zenon
    <3>2. outstanding = 0
      BY <1>1, <2>1 DEF Blank
    <3> QED
      BY <3>1, <3>2
  <2>5. 0 .. 0 - 1 = {} /\ 0 \in 0 .. MaxCapacity /\ 0 \in 0 .. 0
    BY PoolAssumption
  <2> QED
    BY <2>2, <2>3, <2>4, <2>5 DEF TypeOK
<1>3. CASE graph # Zeroed
  <2>1. Good(W) /\ Sound(W) /\ Kept(W)
    BY <1>3 DEF IInv, Good, Kept
  <2>2. W \in Worlds
    BY <2>1 DEF Sound
  <2>3. ASSUME NEW p \in Pools
        PROVE  /\ graph.capacity[p] \in 0 .. MaxCapacity
               /\ graph.watermark[p] \in 0 .. graph.capacity[p]
               /\ graph.free[p] \in DOMAIN W[p] \cup {NoIndex, 0}
               /\ DOMAIN W[p] = 0 .. graph.watermark[p] - 1
    <3>1. /\ W.cb.capacity[p] \in Nat /\ W.cb.watermark[p] \in Nat
          /\ W.cb.watermark[p] <= W.cb.capacity[p] /\ W.cb.capacity[p] <= MaxCapacity
      BY <2>1, KeptFacts
    <3>2. DOMAIN W[p] = 0 .. W.cb.watermark[p] - 1 /\ Spare(W, p) \subseteq DOMAIN W[p]
      BY <2>1, SlotsFacts
    <3>3. W.cb.free[p] = NoIndex \/ W.cb.free[p] \in Spare(W, p)
      BY <2>1 DEF Good, Formed, FreedOn, Chained, Leads
    <3> QED
      BY <1>1, <3>1, <3>2, <3>3, PoolAssumption
  <2>4. /\ \A v \in DOMAIN vertices : vertices[v].generation \in 1 .. GenMax
        /\ \A e \in DOMAIN edges : edges[e].generation \in 1 .. GenMax
    <3>1. /\ \A e \in DOMAIN W.edges : W.edges[e] \in EdgeSlots
          /\ \A v \in DOMAIN W.vertices : W.vertices[v] \in VertexSlots
      BY <2>2, SlotFacts
    <3> QED
      BY <1>1, <3>1 DEF EdgeSlots, VertexSlots
  <2>5. contract \in BOOLEAN
    BY <1>1, <2>2, WorldFacts
  <2>6. outstanding \in Nat
    <3>1. /\ W.cb.capacity["vertices"] \in Nat /\ W.cb.capacity["edges"] \in Nat /\ W.cb.weight_capacity \in Nat
          /\ W.cb.work_capacity \in Nat /\ W.cb.visited_words \in Nat
      BY <2>2, WorldFacts, CbFacts, PoolNames
    <3>2. /\ W.bytes.vertices = W.cb.capacity["vertices"] * 32 /\ W.bytes.edges = W.cb.capacity["edges"] * 32
          /\ W.bytes.weights = W.cb.weight_capacity * 8 /\ W.bytes.work = W.cb.work_capacity * 8
          /\ W.bytes.visited = W.cb.visited_words * 8
      BY <2>1, PoolNames DEF Sound
    <3>3. W.outstanding = W.bytes.vertices + W.bytes.edges + W.bytes.weights + W.bytes.work + W.bytes.visited
      BY <2>1 DEF Sound, Balanced, Total
    <3> QED
      BY <1>1, <3>1, <3>2, <3>3
  <2> QED
    BY <2>3, <2>4, <2>5, <2>6 DEF TypeOK
<1> QED
  BY <1>2, <1>3

LEMMA SumExists ==
  ASSUME NEW n \in Nat, NEW x \in [1 .. n -> Int]
  PROVE  \E f : f = [k \in 0 .. n |-> IF k = 0 THEN 0 ELSE f[k - 1] + x[k]]
<1> DEFINE A == [k \in 0 .. n |-> Int]
           step == [k \in 1 .. n |-> [i \in Int |-> i + x[k]]]
           a == 0
<1>1. \A k \in 1 .. n : k \in 0 .. n /\ k - 1 \in 0 .. n
  OBVIOUS
<1>2. PICK f : RunsTo(f, n, A, a, step)
  <2>1. a \in A[0] /\ \A k \in 1 .. n : step[k] \in [A[k - 1] -> A[k]]
    BY <1>1
  <2>2. Rounds(n, A, a, step)
    BY <2>1 DEF Rounds
  <2> HIDE DEF step, A, a
  <2> QED
    BY <2>2, ChainExists
<1>3. ASSUME NEW k \in 0 .. n PROVE f[k] = IF k = 0 THEN 0 ELSE f[k - 1] + x[k]
  <2>1. CASE k = 0
    BY <1>2, <2>1 DEF RunsTo
  <2>2. CASE k # 0
    <3>1. k \in 1 .. n /\ k - 1 \in 0 .. n
      BY <2>2
    <3>2. f[k] = step[k][f[k - 1]] /\ f[k - 1] \in Int
      BY <1>2, <2>2, <3>1 DEF RunsTo
    <3> QED
      BY <2>2, <3>1, <3>2
  <2> QED
    BY <2>1, <2>2
<1>4. f = [k \in 0 .. n |-> f[k]]
  BY <1>2 DEF RunsTo
<1> QED
  BY <1>3, <1>4

LEMMA ValidHolds ==
  ASSUME IInv, Ready
  PROVE  IsValid
<1>1. Good(W) /\ Kept(W) /\ Sound(W)
  BY Awake DEF Kept
<1>2. W.cb = graph /\ W.vertices = vertices /\ W.edges = edges /\ W.bytes = bytes
  BY WFacts
<1>3. \A p \in Pools : LiveSlots(p) = Used(W, p)
  BY DEF LiveSlots, Used
<1>4. ASSUME NEW p \in Pools
      PROVE  /\ graph.watermark[p] <= graph.capacity[p]
             /\ graph.watermark[p] > 0 => bytes[p] # 0
             /\ graph.count[p] = Cardinality(LiveSlots(p))
             /\ \A i \in LiveSlots(p) : W[p][i].generation # 0
             /\ FreeListSound(p)
  <2>1. /\ W.cb.capacity[p] \in Nat /\ W.cb.watermark[p] \in Nat /\ W.cb.watermark[p] <= W.cb.capacity[p]
        /\ W.bytes[p] = W.cb.capacity[p] * 32
    BY <1>1, KeptFacts DEF Sound
  <2>2. graph.count[p] = Cardinality(LiveSlots(p))
    BY <1>1, <1>2, <1>3 DEF Good, Formed, Counted
  <2>3. \A i \in LiveSlots(p) : W[p][i].generation # 0
    <3>1. W \in Worlds
      BY <1>1 DEF Sound
    <3>2. /\ \A e \in DOMAIN W.edges : W.edges[e] \in EdgeSlots
          /\ \A v \in DOMAIN W.vertices : W.vertices[v] \in VertexSlots
      BY <3>1, SlotFacts
    <3>3. /\ \A e \in DOMAIN W.edges : W.edges[e].generation # 0
          /\ \A v \in DOMAIN W.vertices : W.vertices[v].generation # 0
      BY <3>2 DEF EdgeSlots, VertexSlots
    <3> QED
      BY <3>3 DEF Pools, LiveSlots
  <2>4. FreeListSound(p)
    BY <1>1, <1>2, FreeSound DEF FreeListSound
  <2>5. graph.watermark[p] > 0 => bytes[p] # 0
    BY <1>2, <2>1
  <2> QED
    BY <1>2, <2>1, <2>2, <2>3, <2>4, <2>5
<1>5. graph.weighted /\ graph.capacity.edges > 0 =>
        bytes.weights # 0 /\ graph.weight_capacity >= graph.capacity.edges
  <2>1. W.cb.weight_capacity \in Nat /\ W.cb.capacity["edges"] \in Nat
    BY <1>1, WorldFacts, CbFacts, PoolNames DEF Sound
  <2>2. W.bytes.weights = W.cb.weight_capacity * 8 /\ (W.cb.weighted => W.cb.weight_capacity >= W.cb.capacity.edges)
    BY <1>1 DEF Sound
  <2> QED
    BY <1>2, <2>1, <2>2
<1>6. ASSUME NEW l \in Lists
      PROVE  /\ \A v \in LiveSlots("vertices") : ChainSound(l, v)
             /\ \A e \in LiveSlots("edges") : LinksSound(l, e)
             /\ DegreeSum(l) = graph.count.edges
  <2>1. LiveSlots("vertices") = Used(W, "vertices") /\ LiveSlots("edges") = Used(W, "edges")
    BY <1>3, PoolNames
  <2>2. ASSUME NEW v \in Used(W, "vertices") PROVE ChainSound(l, v)
    <3> DEFINE M == Of(W, l, v)
               s == ListOf(W, l, v)
    <3>1. Enumerates(s, M) /\ vertices[v].degree[l] = Cardinality(M)
      BY <1>1, <1>2, ListFacts DEF ListedOn
    <3>2. IsFiniteSet(Used(W, "edges"))
      BY <1>1, SlotsFacts, PoolNames
    <3>3. M \subseteq Used(W, "edges")
      BY DEF Of
    <3>4. IsFiniteSet(M)
      BY <3>2, <3>3, SubsetFinite
    <3>5. \A e \in M : edges[e].active /\ EndOf(edges[e], l) = v
      BY <1>2 DEF Of, Used
    <3>6. vertices[v].head[l] = NoIndex <=> vertices[v].tail[l] = NoIndex
      BY <1>1, <1>2, LinkedAtFacts DEF LinkedAt
    <3> HIDE DEF M
    <3>7. Len(s) = Cardinality(M) /\ \A k \in DOMAIN s : s[k] \in M
      <4> HIDE DEF s
      <4> QED
        BY <3>1, <3>4, EnumeratesFacts
    <3> QED
      BY <3>1, <3>5, <3>6, <3>7 DEF ChainSound
  <2>3. ASSUME NEW e \in Used(W, "edges") PROVE LinksSound(l, e)
    <3> DEFINE v == EndOf(edges[e], l)
    <3>1. v \in Used(W, "vertices")
      BY <1>1, <1>2, LinkedAtFacts
    <3>2. e \in Of(W, l, v)
      BY <1>2 DEF Of
    <3>3. InUse(vertices, v)
      BY <1>2, <3>1 DEF InUse, Used
    <3>4. LinkedAt(W, l, v)
      <4> HIDE DEF v
      <4> QED
        BY <1>1, <3>1, LinkedAtFacts
    <3> HIDE DEF v
    <3>5. /\ IF edges[e].prev[l] = NoIndex THEN vertices[v].head[l] = e ELSE edges[edges[e].prev[l]].next[l] = e
          /\ IF edges[e].next[l] = NoIndex THEN vertices[v].tail[l] = e ELSE edges[edges[e].next[l]].prev[l] = e
      BY <1>2, <3>2, <3>4 DEF LinkedAt
    <3> QED
      BY <3>3, <3>5 DEF LinksSound, v
  <2>4. DegreeSum(l) = graph.count.edges
    <3> DEFINE n == graph.watermark["vertices"]
               part(k) == IF vertices[k - 1].active THEN vertices[k - 1].degree[l] ELSE 0
               body(g) == [k \in 0 .. n |-> IF k = 0 THEN 0 ELSE g[k - 1] + part(k)]
               sum == CHOOSE g : g = body(g)
    <3>1. DegreeSum(l) = sum[n]
      BY DEF DegreeSum
    <3>2. n \in Nat
      BY <1>1, <1>2, KeptFacts, PoolNames
    <3>3. \A k \in 1 .. n : part(k) \in Int
      <4>1. W \in Worlds /\ DOMAIN vertices = 0 .. n - 1
        BY <1>1, <1>2, SlotsFacts, PoolNames
      <4>2. \A v \in DOMAIN vertices : vertices[v].degree[l] \in Int
        BY <1>2, <4>1, LinkFacts
      <4>3. \A k \in 1 .. n : k - 1 \in 0 .. n - 1
        BY <3>2
      <4> QED
        BY <4>1, <4>2, <4>3
    <3>4. PICK f : f = body(f)
      <4> DEFINE x == [k \in 1 .. n |-> part(k)]
      <4>1. x \in [1 .. n -> Int] /\ \A k \in 1 .. n : x[k] = part(k)
        BY <3>3
      <4> HIDE DEF x, n, part
      <4>2. PICK f : f = [k \in 0 .. n |-> IF k = 0 THEN 0 ELSE f[k - 1] + x[k]]
        BY <3>2, <4>1, SumExists
      <4>3. \A k \in 0 .. n : k # 0 => k \in 1 .. n
        BY <3>2
      <4>4. f = body(f)
        BY <4>1, <4>2, <4>3
      <4> QED
        BY <4>4
    <3>5. sum = body(sum)
      BY <3>4
    <3> HIDE DEF sum
    <3>6. SumsDegrees(W, l, n, sum)
      BY <1>2, <3>5 DEF SumsDegrees
    <3>7. n = W.cb.watermark["vertices"]
      BY <1>2
    <3> HIDE DEF n
    <3>8. sum[n] = W.cb.count["edges"]
      BY <1>1, <3>6, <3>7, DegreesAdd
    <3> QED
      BY <1>2, <3>1, <3>8
  <2> QED
    BY <2>1, <2>2, <2>3, <2>4
<1> QED
  BY <1>4, <1>5, <1>6 DEF IsValid
(* What dv_graph_is_valid walks holds after every call: link_edge and
   unlink_edge keep both lists of every vertex doubly linked and as long as its
   degree, and every slot below a mark is live or on its pool's free list.  *)
THEOREM StructureAlwaysSound == Spec => []StructureSound
<1>1. IInv => StructureSound
  BY TypesHold, ValidHolds DEF StructureSound
<1> QED
  BY <1>1, GraphInvHolds, PTL
=============================================================================

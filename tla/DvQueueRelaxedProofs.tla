------------------------ MODULE DvQueueRelaxedProofs ------------------------
(* The queue with the memory orders it asks for races with nothing, for every
   set of threads, capacity and word size, as long as no position comes round
   again.

   The invariant has two halves.  The protocol is the one of DvQueue, said of
   the last sequence number stored to each cell.  The knowledge says what a
   view stands for: a thread that has seen the last store to a cell has, with
   it, seen every access to the cell's data, because the store was a release
   made by the thread that had made the last of them.                       *)
EXTENDS DvQueueRelaxed, WellFoundedInduction, TLAPS

(***************************************************************************)
(* Remainders, the cells of a ring, and least numbers.                     *)
(***************************************************************************)
(* Division with remainder. *)
LEMMA DivMod ==
  ASSUME NEW M \in Nat \ {0}, NEW p \in Int
  PROVE  /\ p \div M \in Int
         /\ p % M \in 0 .. (M - 1)
         /\ p = M * (p \div M) + (p % M)
  OBVIOUS

(* Multiples of M are at least M apart. *)
LEMMA MultiplesApart ==
  ASSUME NEW M \in Nat \ {0}, NEW a \in Int, NEW b \in Int, a < b
  PROVE  M * a + M <= M * b
<1>1. PICK k \in Nat : b = a + 1 + k
  <2> WITNESS b - a - 1 \in Nat
  <2> QED OBVIOUS
<1>2. M * b = M * a + M + M * k
  BY <1>1
<1>3. M * k >= 0
  BY <1>1
<1> QED
  BY <1>2, <1>3

(* A remainder is determined by its bounds. *)
LEMMA ModUnique ==
  ASSUME NEW M \in Nat \ {0}, NEW p \in Int, NEW q \in Int,
         NEW r \in 0 .. (M - 1), p = M * q + r
  PROVE  p % M = r
<1> DEFINE q2 == p \div M
           r2 == p % M
<1>1. q2 \in Int /\ r2 \in 0 .. (M - 1) /\ p = M * q2 + r2
  BY DivMod
<1> HIDE DEF q2, r2
<1>2. CASE q < q2
  BY <1>1, <1>2, MultiplesApart
<1>3. CASE q2 < q
  BY <1>1, <1>3, MultiplesApart
<1>4. CASE q2 = q
  BY <1>1, <1>4 DEF r2
<1> QED
  BY <1>1, <1>2, <1>3, <1>4

(* Adding a multiple of M does not change a remainder. *)
LEMMA ModShift ==
  ASSUME NEW M \in Nat \ {0}, NEW p \in Int, NEW k \in Int
  PROVE  (p + M * k) % M = p % M
<1> DEFINE q == p \div M
           r == p % M
<1>1. q \in Int /\ r \in 0 .. (M - 1) /\ p = M * q + r
  BY DivMod
<1> HIDE DEF q, r
<1>2. q + k \in Int /\ p + M * k \in Int /\ p + M * k = M * (q + k) + r
  BY <1>1
<1>3. (p + M * k) % M = r
  BY <1>1, <1>2, ModUnique
<1> QED
  BY <1>3 DEF r

(* Numbers less than M apart have different remainders. *)
LEMMA ModDistinct ==
  ASSUME NEW M \in Nat \ {0}, NEW p \in Int, NEW r \in Int, p < r, r < p + M
  PROVE  p % M # r % M
<1> SUFFICES ASSUME p % M = r % M PROVE FALSE
  OBVIOUS
<1>1. p \div M \in Int /\ r \div M \in Int
  BY DivMod
<1>2. /\ p = M * (p \div M) + (p % M)
      /\ r = M * (r \div M) + (r % M)
      /\ p % M \in 0 .. (M - 1)
  BY DivMod
<1>3. CASE p \div M < r \div M
  BY <1>1, <1>2, <1>3, MultiplesApart
<1>4. CASE r \div M < p \div M
  BY <1>1, <1>2, <1>4, MultiplesApart
<1> QED
  BY <1>1, <1>2, <1>3, <1>4

(* The remainder by a divisor of N can be taken after the remainder by N. *)
LEMMA ModOfMod ==
  ASSUME NEW M \in Nat \ {0}, NEW N \in Nat \ {0}, N % M = 0, NEW p \in Int
  PROVE  (p % N) % M = p % M
<1> DEFINE k == N \div M
           q == p \div N
           r == p % N
<1>1. k \in Int /\ N = M * k
  BY DivMod
<1>2. q \in Int /\ r \in 0 .. (N - 1) /\ p = N * q + r
  BY DivMod
<1> HIDE DEF k, q, r
<1>3. -(k * q) \in Int /\ r = p + M * (-(k * q))
  BY <1>1, <1>2
<1>4. (p + M * (-(k * q))) % M = p % M
  BY <1>3, ModShift
<1> QED
  BY <1>3, <1>4 DEF r

(* A difference smaller than M either way is a multiple of M only when it is
   zero, and below zero it wraps to the top of the range.                   *)
LEMMA ModOfSmall ==
  ASSUME NEW M \in Nat \ {0}, NEW d \in Int, -M < d, d < M
  PROVE  d % M = IF d >= 0 THEN d ELSE d + M
<1>1. CASE d >= 0
  BY <1>1
<1>2. CASE d < 0
  BY <1>2
<1> QED
  BY <1>1, <1>2

(* The cell that position p of a ring of M cells has, when p is counted in
   words of W values.                                                       *)
RingCell(p, M, W) == (p % W) % M

(* It is a cell of the ring, the same one a lap later, and different ones
   within a lap.                                                            *)
LEMMA RingFacts ==
  ASSUME NEW M \in Nat \ {0}, NEW W \in Nat \ {0}, W % M = 0
  PROVE  /\ \A p \in Nat : RingCell(p, M, W) \in 0 .. (M - 1)
         /\ \A p \in Nat : RingCell(p + M, M, W) = RingCell(p, M, W)
         /\ \A p, r \in Nat : p # r /\ p < r + M /\ r < p + M => RingCell(p, M, W) # RingCell(r, M, W)
<1>2. ASSUME NEW p \in Nat PROVE RingCell(p, M, W) = p % M
  <2>1. p \in Int
    OBVIOUS
  <2>2. (p % W) % M = p % M
    BY ONLY W % M = 0, <2>1, ModOfMod
  <2> QED
    BY <2>2 DEF RingCell
<1>3. ASSUME NEW p \in Nat PROVE RingCell(p, M, W) \in 0 .. (M - 1)
  <2>1. p % M \in 0 .. (M - 1)
    BY DivMod
  <2> QED
    BY <1>2, <2>1
<1>4. ASSUME NEW p \in Nat PROVE RingCell(p + M, M, W) = RingCell(p, M, W)
  <2>1. p \in Int /\ 1 \in Int
    OBVIOUS
  <2>2. (p + M * 1) % M = p % M
    BY ONLY <2>1, ModShift
  <2>3. p + M * 1 = p + M /\ p + M \in Nat
    OBVIOUS
  <2> QED
    BY <1>2, <2>2, <2>3
<1>5. ASSUME NEW p \in Nat, NEW r \in Nat, p # r, p < r + M, r < p + M
      PROVE  RingCell(p, M, W) # RingCell(r, M, W)
  <2>1. CASE p < r
    BY <1>2, <1>5, <2>1, ModDistinct
  <2>2. CASE r < p
    BY <1>2, <1>5, <2>2, ModDistinct
  <2> QED
    BY <1>5, <2>1, <2>2
<1> QED
  BY <1>3, <1>4, <1>5

(* A set of numbers that has a member has a least one. *)
LEMMA LeastNat ==
  ASSUME NEW T, T \subseteq Nat, T # {}
  PROVE  \E m \in T : \A k \in T : m <= k
<1> DEFINE R == {ss \in Nat \X Nat : ss[1] < ss[2]}
<1>1. IsWellFoundedOn(R, Nat)
  BY NatLessThanWellFounded, Zenon DEF OpToRel
<1>2. \A x, y \in Nat : y < x => <<y, x>> \in R
  OBVIOUS
<1> HIDE DEF R
<1>3. PICK x \in T : \A y \in T : ~(<<y, x>> \in R)
  BY <1>1, WFMin
<1>4. ASSUME NEW y \in T PROVE x <= y
  <2>1. x \in Nat /\ y \in Nat
    OBVIOUS
  <2>2. ~(y < x)
    BY <1>2, <1>3, <2>1
  <2> QED
    BY <2>1, <2>2
<1> QED
  BY <1>4

(***************************************************************************)
(* The inductive invariant: the protocol.                                  *)
(***************************************************************************)
(* The sequence of each cell, as the last store to it left it. *)
seq == [c \in Cells |-> stores[c][Len(stores[c])].value]

Enqueuing(t) == pc[t] \in {"e_data", "e_pub"}

Dequeuing(t) == pc[t] \in {"d_data", "d_rel"}

Views == [Locations -> Nat]

Labels == {"idle", "e_load", "e_seq", "e_cas", "e_data", "e_pub",
           "d_load", "d_seq", "d_cas", "d_data", "d_rel", "s_head"}

TypeOK ==
  /\ head \in Nat /\ tail \in Nat
  /\ stores \in [Cells -> Seq([value : Nat, view : Views])]
  /\ \A c \in Cells : Len(stores[c]) >= 1
  /\ data \in [Cells -> Nat] /\ touched \in [Cells -> Nat]
  /\ view \in [Threads -> Views]
  /\ pc \in [Threads -> Labels] /\ pos \in [Threads -> Nat]

Counters == tail <= head /\ head <= tail + Capacity /\ head <= MaxClaims

(* The sequence number of an owned slot stays put until it is handed over. *)
Owners ==
  \A t \in Threads :
    /\ Enqueuing(t) => tail <= pos[t] /\ pos[t] < head /\ seq[CellOf(pos[t])] = pos[t]
    /\ Dequeuing(t) => pos[t] < tail /\ head <= pos[t] + Capacity /\ seq[CellOf(pos[t])] = pos[t] + 1

OneOwner ==
  \A t, u \in Threads :
    t # u /\ pos[t] = pos[u] => ~(Enqueuing(t) /\ Enqueuing(u)) /\ ~(Dequeuing(t) /\ Dequeuing(u))

(* A claimed position is published or being written. *)
Taken ==
  \A p \in tail .. head - 1 :
    \/ seq[CellOf(p)] = p + 1
    \/ seq[CellOf(p)] = p /\ \E t \in Threads : Enqueuing(t) /\ pos[t] = p

(* A position not claimed yet is free or still being read one lap behind. *)
Vacant ==
  \A p \in head .. tail + Capacity - 1 :
    \/ seq[CellOf(p)] = p
    \/ /\ seq[CellOf(p)] = p + 1 - Capacity
       /\ \E t \in Threads : Dequeuing(t) /\ pos[t] = p - Capacity

(* What a slot holds is named by the position that was claimed for it. *)
Contents ==
  /\ \A p \in tail .. head - 1 : seq[CellOf(p)] = p + 1 => data[CellOf(p)] = p
  /\ \A t \in Threads : pc[t] \in {"e_pub", "d_data"} => data[CellOf(pos[t])] = pos[t]

(* A sample, however old, is never ahead of its counter.  Before its
   compare-and-swap a thread knows of a store of the number it waits for.   *)
Samples ==
  \A t \in Threads :
    /\ pc[t] \in {"e_seq", "e_cas"} => pos[t] <= head
    /\ pc[t] \in {"d_seq", "d_cas"} => pos[t] <= tail
    /\ pc[t] = "e_cas" => KnownSeq(t, CellOf(pos[t])) = pos[t]
    /\ pc[t] = "d_cas" => KnownSeq(t, CellOf(pos[t])) = pos[t] + 1

Protocol == Counters /\ Owners /\ OneOwner /\ Taken /\ Vacant /\ Contents /\ Samples

(***************************************************************************)
(* The inductive invariant: the knowledge.                                 *)
(***************************************************************************)
(* The numbers stored to a cell only grow, and never as far as a word. *)
Growing ==
  \A c \in Cells :
    /\ \A i, j \in 1 .. Len(stores[c]) : i < j => stores[c][i].value < stores[c][j].value
    /\ \A i \in 1 .. Len(stores[c]) : stores[c][i].value <= MaxClaims + Capacity

(* A view knows of nothing that has not happened, and of all that the stores
   it knows of carry about the data they guard.                             *)
Within(v) ==
  \A c \in Cells :
    /\ v[SeqAt(c)] <= Len(stores[c])
    /\ v[DataAt(c)] <= touched[c]
    /\ v[SeqAt(c)] >= 1 => stores[c][v[SeqAt(c)]].view[DataAt(c)] <= v[DataAt(c)]

Coherent ==
  /\ \A t \in Threads : Within(view[t]) /\ \A c \in Cells : view[t][SeqAt(c)] >= 1
  /\ \A c \in Cells : \A i \in 1 .. Len(stores[c]) :
       Within(stores[c][i].view) /\ stores[c][i].view[SeqAt(c)] <= i

(* The owner of a slot knows of every store and every access to it. *)
Informed ==
  \A t \in Threads :
    Enqueuing(t) \/ Dequeuing(t) =>
      /\ view[t][SeqAt(CellOf(pos[t]))] = Len(stores[CellOf(pos[t])])
      /\ view[t][DataAt(CellOf(pos[t]))] = touched[CellOf(pos[t])]

(* The last store to a cell carries every access to its data, but for the one
   that its owner has just made.                                            *)
Carried ==
  \A c \in Cells :
    \/ stores[c][Len(stores[c])].view[DataAt(c)] = touched[c]
    \/ \E t \in Threads : pc[t] \in {"e_pub", "d_rel"} /\ CellOf(pos[t]) = c

Knowledge == Growing /\ Coherent /\ Informed /\ Carried

RInv == TypeOK /\ Protocol /\ Knowledge /\ sound = TRUE
(***************************************************************************)
(* Cells, words and locations.                                             *)
(***************************************************************************)
(* pos & buffer_mask addresses a cell of the buffer, the same one a lap
   later, and different ones within a lap.                                  *)
LEMMA CellFacts ==
  /\ \A p \in Nat : CellOf(p) \in Cells
  /\ \A p \in Nat : CellOf(p + Capacity) = CellOf(p)
  /\ \A p, r \in Nat : p # r /\ p < r + Capacity /\ r < p + Capacity => CellOf(p) # CellOf(r)
<1>1. Capacity \in Nat \ {0} /\ WordSize \in Nat \ {0} /\ WordSize % Capacity = 0
  BY RelaxedAssumption
<1>2. /\ \A p \in Nat : RingCell(p, Capacity, WordSize) \in 0 .. (Capacity - 1)
      /\ \A p \in Nat : RingCell(p + Capacity, Capacity, WordSize) = RingCell(p, Capacity, WordSize)
      /\ \A p, r \in Nat : p # r /\ p < r + Capacity /\ r < p + Capacity
           => RingCell(p, Capacity, WordSize) # RingCell(r, Capacity, WordSize)
  BY ONLY <1>1, RingFacts
<1>3. \A p : CellOf(p) = RingCell(p, Capacity, WordSize)
  BY DEF CellOf, RingCell
<1> QED
  BY <1>2, <1>3 DEF Cells

(* Words less than WordSize apart are the same word only when they are equal. *)
LEMMA WordsMatch ==
  ASSUME NEW a \in Int, NEW b \in Int, a - b < WordSize, b - a < WordSize, Matches(a, b)
  PROVE  a = b
<1> DEFINE d == a - b
<1>1. WordSize \in Nat \ {0} /\ d \in Int /\ -WordSize < d /\ d < WordSize
  BY RelaxedAssumption
<1> HIDE DEF d
<1>2. d % WordSize = IF d >= 0 THEN d ELSE d + WordSize
  BY ONLY <1>1, ModOfSmall
<1>3. d % WordSize = 0
  BY DEF Matches, d
<1>4. d = 0
  BY <1>1, <1>2, <1>3
<1> QED
  BY <1>4 DEF d

(* The locations are different ones. *)
LEMMA Places ==
  /\ HeadAt \in Locations /\ TailAt \in Locations
  /\ \A c \in Cells : SeqAt(c) \in Locations /\ DataAt(c) \in Locations
  /\ \A c, d \in Cells : /\ SeqAt(c) = SeqAt(d) => c = d
                         /\ DataAt(c) = DataAt(d) => c = d
                         /\ SeqAt(c) # DataAt(d)
  /\ \A c \in Cells : {SeqAt(c), DataAt(c)} \cap {HeadAt, TailAt} = {}
  BY DEF Locations, HeadAt, TailAt, SeqAt, DataAt

(***************************************************************************)
(* What the last sequence number of a cell can be.                         *)
(***************************************************************************)
LEMMA EntryOf ==
  ASSUME NEW S, NEW s \in Seq(S), NEW i \in 1 .. Len(s)
  PROVE  s[i] \in S
  OBVIOUS

(* A store is a number and the view that it carries. *)
LEMMA StoreType ==
  ASSUME TypeOK, NEW c \in Cells, NEW i \in 1 .. Len(stores[c])
  PROVE  stores[c][i].value \in Nat /\ stores[c][i].view \in Views
<1>1. stores[c] \in Seq([value : Nat, view : Views])
  BY DEF TypeOK
<1>2. stores[c][i] \in [value : Nat, view : Views]
  BY ONLY <1>1, EntryOf
<1> QED
  BY <1>2

(* Every cell has a last store. *)
LEMMA LastStore ==
  ASSUME TypeOK, NEW c \in Cells
  PROVE  Len(stores[c]) \in Nat /\ Len(stores[c]) \in 1 .. Len(stores[c])
<1>1. stores[c] \in Seq([value : Nat, view : Views]) /\ Len(stores[c]) >= 1
  BY DEF TypeOK
<1>2. Len(stores[c]) \in Nat
  BY <1>1
<1> QED
  BY <1>1, <1>2

LEMMA SeqType ==
  ASSUME TypeOK
  PROVE  seq \in [Cells -> Nat]
<1> SUFFICES ASSUME NEW c \in Cells PROVE stores[c][Len(stores[c])].value \in Nat
  BY DEF seq
<1> QED
  BY LastStore, StoreType

(* At head: the slot is free, or the queue is full, or the dequeue one lap
   behind still owns the slot.                                              *)
LEMMA SeqOfHead ==
  ASSUME TypeOK, Counters, Taken, Vacant
  PROVE  \/ seq[CellOf(head)] = head /\ head < tail + Capacity
         \/ seq[CellOf(head)] < head
<1> USE RelaxedAssumption DEF TypeOK
<1>1. CASE head < tail + Capacity
  <2>1. head \in head .. tail + Capacity - 1
    BY <1>1
  <2> QED
    BY <1>1, <2>1 DEF Vacant
<1>2. CASE head = tail + Capacity
  <2>1. CellOf(head) = CellOf(tail)
    BY <1>2, CellFacts
  <2>2. tail \in tail .. head - 1
    BY <1>2
  <2> QED
    BY <1>2, <2>1, <2>2 DEF Taken
<1> QED
  BY <1>1, <1>2 DEF Counters

(* At tail: an item, a slot being written, or an empty queue. *)
LEMMA SeqOfTail ==
  ASSUME TypeOK, Counters, Taken, Vacant
  PROVE  \/ seq[CellOf(tail)] = tail + 1 /\ tail < head
         \/ seq[CellOf(tail)] < tail + 1
<1> USE RelaxedAssumption DEF TypeOK
<1>1. CASE tail < head
  <2>1. tail \in tail .. head - 1
    BY <1>1
  <2> QED
    BY <1>1, <2>1 DEF Taken
<1>2. CASE tail = head
  <2>1. tail \in head .. tail + Capacity - 1
    BY <1>2
  <2> QED
    BY <1>2, <2>1 DEF Vacant
<1> QED
  BY <1>1, <1>2 DEF Counters

(* A store that a thread knows of and that is as recent as any can be is the
   last one.                                                                *)
LEMMA KnowsLast ==
  ASSUME TypeOK, Growing, NEW c \in Cells, NEW i \in 1 .. Len(stores[c])
  PROVE  /\ stores[c][i].value <= seq[c]
         /\ stores[c][i].value = seq[c] => i = Len(stores[c])
<1> DEFINE n == Len(stores[c])
<1>1. n \in Nat /\ n \in 1 .. n
  BY LastStore
<1>2. stores[c][i].value \in Nat /\ stores[c][n].value \in Nat
  BY <1>1, StoreType
<1>3. seq[c] = stores[c][n].value
  BY DEF seq
<1>4. i < n => stores[c][i].value < stores[c][n].value
  BY <1>1 DEF Growing
<1> HIDE DEF n
<1>5. i \in 1 .. n
  BY DEF n
<1>6. CASE i = n
  BY <1>2, <1>3, <1>6 DEF n
<1>7. CASE i < n
  BY <1>2, <1>3, <1>4, <1>7
<1> QED
  BY <1>1, <1>5, <1>6, <1>7
(***************************************************************************)
(* Views.                                                                  *)
(***************************************************************************)
LEMMA JoinType ==
  ASSUME NEW v \in Views, NEW w \in Views
  PROVE  /\ Join(v, w) \in Views
         /\ \A l \in Locations : /\ v[l] <= Join(v, w)[l] /\ w[l] <= Join(v, w)[l]
                                 /\ Join(v, w)[l] \in {v[l], w[l]}
  BY DEF Join, Views

LEMMA LearnType ==
  ASSUME NEW v \in Views, NEW l \in Locations, NEW n \in Nat
  PROVE  /\ [v EXCEPT ![l] = n] \in Views
         /\ [v EXCEPT ![l] = n][l] = n
         /\ \A m \in Locations : m # l => [v EXCEPT ![l] = n][m] = v[m]
  BY DEF Views

(* What two threads know together is no more than what has happened. *)
LEMMA JoinWithin ==
  ASSUME TypeOK, NEW v \in Views, NEW w \in Views, Within(v), Within(w)
  PROVE  Within(Join(v, w))
<1> SUFFICES ASSUME NEW c \in Cells
             PROVE  /\ Join(v, w)[SeqAt(c)] <= Len(stores[c])
                    /\ Join(v, w)[DataAt(c)] <= touched[c]
                    /\ Join(v, w)[SeqAt(c)] >= 1 =>
                         stores[c][Join(v, w)[SeqAt(c)]].view[DataAt(c)] <= Join(v, w)[DataAt(c)]
  BY DEF Within
<1> DEFINE z == Join(v, w)
<1>1. SeqAt(c) \in Locations /\ DataAt(c) \in Locations
  BY Places
<1>2. /\ z[SeqAt(c)] \in {v[SeqAt(c)], w[SeqAt(c)]}
      /\ z[DataAt(c)] \in {v[DataAt(c)], w[DataAt(c)]}
      /\ v[DataAt(c)] <= z[DataAt(c)] /\ w[DataAt(c)] <= z[DataAt(c)]
      /\ z[SeqAt(c)] \in Nat /\ z[DataAt(c)] \in Nat /\ v[DataAt(c)] \in Nat /\ w[DataAt(c)] \in Nat
  BY <1>1, JoinType DEF Views
<1> HIDE DEF z
<1>3. /\ v[SeqAt(c)] <= Len(stores[c]) /\ v[DataAt(c)] <= touched[c]
      /\ w[SeqAt(c)] <= Len(stores[c]) /\ w[DataAt(c)] <= touched[c]
      /\ v[SeqAt(c)] >= 1 => stores[c][v[SeqAt(c)]].view[DataAt(c)] <= v[DataAt(c)]
      /\ w[SeqAt(c)] >= 1 => stores[c][w[SeqAt(c)]].view[DataAt(c)] <= w[DataAt(c)]
  BY DEF Within
<1>4. ASSUME z[SeqAt(c)] >= 1
      PROVE  stores[c][z[SeqAt(c)]].view[DataAt(c)] <= z[DataAt(c)]
  <2>1. z[SeqAt(c)] \in 1 .. Len(stores[c])
    BY <1>2, <1>3, <1>4, LastStore
  <2>2. stores[c][z[SeqAt(c)]].view \in Views
    BY <2>1, StoreType
  <2>3. stores[c][z[SeqAt(c)]].view[DataAt(c)] \in Nat
    BY <1>1, <2>2 DEF Views
  <2>4. CASE z[SeqAt(c)] = v[SeqAt(c)]
    <3>1. stores[c][z[SeqAt(c)]].view[DataAt(c)] <= v[DataAt(c)]
      BY <1>3, <1>4, <2>4
    <3> QED
      BY <1>2, <2>3, <3>1
  <2>5. CASE z[SeqAt(c)] = w[SeqAt(c)]
    <3>1. stores[c][z[SeqAt(c)]].view[DataAt(c)] <= w[DataAt(c)]
      BY <1>3, <1>4, <2>5
    <3> QED
      BY <1>2, <2>3, <3>1
  <2> QED
    BY <1>2, <2>4, <2>5
<1> QED
  BY <1>2, <1>3, <1>4 DEF z

(* An acquire load that finds store i of cell c knows afterwards of exactly
   that many stores to it, and of all that the store carries.               *)
LEMMA AcquireWithin ==
  ASSUME TypeOK, Coherent, NEW v \in Views, Within(v), NEW c \in Cells,
         NEW i \in 1 .. Len(stores[c]), v[SeqAt(c)] <= i
  PROVE  LET z == Join([v EXCEPT ![SeqAt(c)] = i], stores[c][i].view) IN
         /\ z \in Views /\ Within(z) /\ z[SeqAt(c)] = i
         /\ \A l \in Locations : v[l] <= z[l]
<1> DEFINE w == stores[c][i].view
           x == [v EXCEPT ![SeqAt(c)] = i]
           z == Join(x, w)
<1>1. w \in Views /\ Within(w) /\ w[SeqAt(c)] <= i
  BY StoreType DEF Coherent
<1>2. /\ i \in Nat /\ x \in Views /\ x[SeqAt(c)] = i
      /\ \A l \in Locations : l # SeqAt(c) => x[l] = v[l]
  BY Places DEF Views
<1>3. Len(stores[c]) \in Nat
  BY LastStore
<1> HIDE DEF x, w
<1>4. /\ z \in Views
      /\ \A l \in Locations : x[l] <= z[l] /\ w[l] <= z[l] /\ z[l] \in {x[l], w[l]}
  BY <1>1, <1>2, JoinType
<1> HIDE DEF z
<1>5. z[SeqAt(c)] = i
  BY <1>1, <1>2, <1>4, Places DEF Views
<1>6. \A l \in Locations : v[l] <= z[l]
  BY <1>2, <1>4, <1>5 DEF Views
<1>7. Within(z)
  <2> SUFFICES ASSUME NEW d \in Cells
               PROVE  /\ z[SeqAt(d)] <= Len(stores[d])
                      /\ z[DataAt(d)] <= touched[d]
                      /\ z[SeqAt(d)] >= 1 => stores[d][z[SeqAt(d)]].view[DataAt(d)] <= z[DataAt(d)]
    BY DEF Within
  <2>1. CASE d = c
    <3>1. z[DataAt(c)] \in {v[DataAt(c)], w[DataAt(c)]} /\ w[DataAt(c)] <= z[DataAt(c)]
      BY <1>2, <1>4, Places
    <3>2. z[DataAt(c)] <= touched[c]
      BY <1>1, <3>1 DEF Within
    <3>3. stores[c][z[SeqAt(c)]].view[DataAt(c)] <= z[DataAt(c)]
      BY <1>5, <3>1 DEF w
    <3> QED
      BY <1>5, <2>1, <3>2, <3>3
  <2>2. CASE d # c
    <3>1. Within(Join(v, w))
      BY <1>1, JoinWithin
    <3>2. /\ z[SeqAt(d)] = Join(v, w)[SeqAt(d)]
          /\ z[DataAt(d)] = Join(v, w)[DataAt(d)]
      BY <1>2, <2>2, Places DEF z, Join
    <3> QED
      BY <3>1, <3>2 DEF Within
  <2> QED
    BY <2>1, <2>2
<1> QED
  BY <1>4, <1>5, <1>6, <1>7 DEF z, x, w
(***************************************************************************)
(* Steps that neither take nor hand over a slot.                           *)
(***************************************************************************)
shared == <<head, tail, stores, data, touched, sound>>

(* What has to be said of the one thread that moved. *)
SampleOf(t) ==
  /\ pc[t] \in {"e_seq", "e_cas"} => pos[t] <= head
  /\ pc[t] \in {"d_seq", "d_cas"} => pos[t] <= tail
  /\ pc[t] = "e_cas" => KnownSeq(t, CellOf(pos[t])) = pos[t]
  /\ pc[t] = "d_cas" => KnownSeq(t, CellOf(pos[t])) = pos[t] + 1

Aware(t) == Within(view[t]) /\ \A c \in Cells : view[t][SeqAt(c)] >= 1

LEMMA QuietStep ==
  ASSUME RInv, NEW t \in Threads, UNCHANGED shared,
         pc' \in [Threads -> Labels], pos' \in [Threads -> Nat], view' \in [Threads -> Views],
         \A u \in Threads \ {t} : pc'[u] = pc[u] /\ pos'[u] = pos[u] /\ view'[u] = view[u],
         ~Enqueuing(t), ~Dequeuing(t), ~Enqueuing(t)', ~Dequeuing(t)',
         SampleOf(t)', Aware(t)'
  PROVE  RInv'
<1> USE DEF RInv, Protocol, Knowledge
<1>1. /\ UNCHANGED <<head, tail, stores, data, touched, sound>>
      /\ seq' = seq
  BY DEF shared, seq
<1>2. \A u \in Threads : (Enqueuing(u)' <=> Enqueuing(u)) /\ (Dequeuing(u)' <=> Dequeuing(u))
  BY DEF Enqueuing, Dequeuing
<1>3. \A u \in Threads : Enqueuing(u) \/ Dequeuing(u) => pc'[u] = pc[u] /\ pos'[u] = pos[u] /\ view'[u] = view[u]
  OBVIOUS
<1>4. TypeOK'
  BY <1>1 DEF TypeOK
<1>5. Counters'
  BY <1>1 DEF Counters
<1>6. Owners'
  BY <1>1, <1>2, <1>3 DEF Owners
<1>7. OneOwner'
  BY <1>2, <1>3 DEF OneOwner
<1>8. Taken'
  BY <1>1, <1>2, <1>3 DEF Taken
<1>9. Vacant'
  BY <1>1, <1>2, <1>3 DEF Vacant
<1>10. Contents'
  BY <1>1, <1>2, <1>3 DEF Contents, Enqueuing, Dequeuing
<1>11. Samples'
  BY <1>1 DEF Samples, SampleOf, KnownSeq
<1>12. Growing'
  BY <1>1 DEF Growing
<1>13. Coherent'
  BY <1>1 DEF Coherent, Within, Aware
<1>14. Informed'
  BY <1>1, <1>2, <1>3 DEF Informed
<1>15. Carried'
  BY <1>1, <1>2, <1>3 DEF Carried, Enqueuing, Dequeuing
<1> QED
  BY <1>1, <1>4, <1>5, <1>6, <1>7, <1>8, <1>9, <1>10, <1>11, <1>12, <1>13, <1>14, <1>15
(* A load of a counter tells its thread nothing of the cells. *)
LEMMA LoadStep ==
  ASSUME RInv, NEW t \in Threads, NEW l \in {HeadAt, TailAt}, NEW n \in Nat,
         Loads(t, l, n), UNCHANGED <<stores, touched>>
  PROVE  /\ view' \in [Threads -> Views] /\ pos' \in [Threads -> Nat]
         /\ \A u \in Threads \ {t} : pos'[u] = pos[u] /\ view'[u] = view[u]
         /\ Aware(t)' /\ pos'[t] <= n
<1> USE DEF RInv
<1>1. l \in Locations /\ \A c \in Cells : l # SeqAt(c) /\ l # DataAt(c)
  BY Places
<1>2. view[t] \in Views /\ view \in [Threads -> Views] /\ pos \in [Threads -> Nat]
  BY DEF TypeOK
<1>3. view[t][l] \in Nat
  BY <1>1, <1>2 DEF Views
<1>4. PICK v \in view[t][l] .. n :
        pos' = [pos EXCEPT ![t] = v] /\ view' = [view EXCEPT ![t][l] = v]
  BY DEF Loads
<1>5. v \in Nat /\ v <= n
  BY <1>3, <1>4
<1>6. /\ view' \in [Threads -> Views] /\ pos' \in [Threads -> Nat]
      /\ \A u \in Threads \ {t} : pos'[u] = pos[u] /\ view'[u] = view[u]
      /\ pos'[t] = v
      /\ \A c \in Cells : view'[t][SeqAt(c)] = view[t][SeqAt(c)] /\ view'[t][DataAt(c)] = view[t][DataAt(c)]
  BY <1>1, <1>2, <1>4, <1>5, Places DEF Views
<1>7. Aware(t)
  BY DEF Knowledge, Coherent, Aware
<1>8. Aware(t)'
  BY <1>6, <1>7 DEF Aware, Within
<1> QED
  BY <1>5, <1>6, <1>8

LEMMA LoadActions ==
  ASSUME RInv, NEW t \in Threads,
         \/ EnqLoad(t) \/ EnqClaimFails(t) \/ DeqLoad(t) \/ DeqClaimFails(t)
         \/ SizeTail(t) \/ SizeHead(t)
  PROVE  RInv'
<1> USE DEF RInv
<1>1. \/ Loads(t, HeadAt, head) /\ pc' = [pc EXCEPT ![t] = "e_seq"]
      \/ Loads(t, TailAt, tail) /\ pc' = [pc EXCEPT ![t] = "d_seq"]
      \/ Loads(t, TailAt, tail) /\ pc' = [pc EXCEPT ![t] = "s_head"]
      \/ Loads(t, HeadAt, head) /\ pc' = [pc EXCEPT ![t] = "idle"]
  BY DEF EnqLoad, EnqClaimFails, DeqLoad, DeqClaimFails, SizeTail, SizeHead, Goto
<1>2. UNCHANGED shared
  BY DEF EnqLoad, EnqClaimFails, DeqLoad, DeqClaimFails, SizeTail, SizeHead, shared
<1>3. pc[t] \in {"idle", "e_load", "e_cas", "d_load", "d_cas", "s_head"}
  BY DEF EnqLoad, EnqClaimFails, DeqLoad, DeqClaimFails, SizeTail, SizeHead
<1>4. UNCHANGED <<head, tail, stores, touched>> /\ head \in Nat /\ tail \in Nat
  BY <1>2 DEF shared, TypeOK
<1>5. /\ view' \in [Threads -> Views] /\ pos' \in [Threads -> Nat]
      /\ \A u \in Threads \ {t} : pos'[u] = pos[u] /\ view'[u] = view[u]
      /\ Aware(t)'
      /\ pc'[t] = "e_seq" => pos'[t] <= head
      /\ pc'[t] = "d_seq" => pos'[t] <= tail
  <2>1. CASE Loads(t, HeadAt, head)
    BY <1>1, <1>4, <2>1, LoadStep DEF TypeOK
  <2>2. CASE Loads(t, TailAt, tail)
    BY <1>1, <1>4, <2>2, LoadStep DEF TypeOK
  <2> QED
    BY <1>1, <2>1, <2>2
<1>6. /\ pc' \in [Threads -> Labels]
      /\ \A u \in Threads \ {t} : pc'[u] = pc[u]
      /\ pc'[t] \in {"e_seq", "d_seq", "s_head", "idle"}
  BY <1>1 DEF TypeOK, Labels
<1>7. SampleOf(t)'
  BY <1>4, <1>5, <1>6 DEF SampleOf
<1>8. ~Enqueuing(t) /\ ~Dequeuing(t) /\ ~Enqueuing(t)' /\ ~Dequeuing(t)'
  BY <1>3, <1>6 DEF Enqueuing, Dequeuing
<1> QED
  BY <1>2, <1>5, <1>6, <1>7, <1>8, QuietStep

(* An acquire load of the sequence of a cell. *)
LEMMA AcquireStep ==
  ASSUME RInv, NEW t \in Threads, NEW c \in Cells,
         NEW i \in view[t][SeqAt(c)] .. Len(stores[c]), Acquires(t, c, i),
         UNCHANGED <<stores, touched>>
  PROVE  /\ view' \in [Threads -> Views]
         /\ \A u \in Threads \ {t} : view'[u] = view[u]
         /\ Aware(t)' /\ view'[t][SeqAt(c)] = i /\ i \in 1 .. Len(stores[c])
<1> USE DEF RInv
<1>1. /\ view[t] \in Views /\ view \in [Threads -> Views]
      /\ Within(view[t]) /\ \A d \in Cells : view[t][SeqAt(d)] >= 1
      /\ Coherent
  BY DEF TypeOK, Knowledge, Coherent
<1>2. /\ view[t][SeqAt(c)] \in Nat /\ view[t][SeqAt(c)] <= i
      /\ i \in 1 .. Len(stores[c])
  BY <1>1, Places, LastStore DEF Views
<1> DEFINE z == Join([view[t] EXCEPT ![SeqAt(c)] = i], stores[c][i].view)
<1>3. /\ z \in Views /\ Within(z) /\ z[SeqAt(c)] = i
      /\ \A l \in Locations : view[t][l] <= z[l]
  BY <1>1, <1>2, AcquireWithin
<1>4. view' = [view EXCEPT ![t] = z]
  BY <1>1 DEF Acquires
<1> HIDE DEF z
<1>5. view'[t] = z
  BY <1>1, <1>4
<1>6. \A d \in Cells : z[SeqAt(d)] >= 1
  BY <1>1, <1>3, Places DEF Views
<1>7. Aware(t)'
  BY <1>3, <1>5, <1>6 DEF Aware, Within
<1> QED
  BY <1>1, <1>2, <1>3, <1>4, <1>5, <1>7

LEMMA EnqSeqStep ==
  ASSUME RInv, NEW t \in Threads, EnqSeq(t)
  PROVE  RInv'
<1> USE RelaxedAssumption DEF RInv, Protocol, Knowledge
<1> DEFINE c == CellOf(pos[t])
<1>1. PICK i \in view[t][SeqAt(c)] .. Len(stores[c]) :
        Acquires(t, c, i) /\ Verdict(t, pos[t], stores[c][i].value, "e_cas", "e_load")
  BY DEF EnqSeq
<1>2. /\ UNCHANGED shared /\ UNCHANGED <<stores, touched, pos, head, tail>>
      /\ pc[t] = "e_seq"
  BY DEF EnqSeq, shared
<1>3. c \in Cells /\ pos[t] \in Nat /\ pos[t] <= head
  BY <1>2, CellFacts DEF TypeOK, Samples
<1> HIDE DEF c
<1>4. /\ view' \in [Threads -> Views]
      /\ \A u \in Threads \ {t} : view'[u] = view[u]
      /\ Aware(t)' /\ view'[t][SeqAt(c)] = i /\ i \in 1 .. Len(stores[c])
  BY <1>1, <1>2, <1>3, AcquireStep
<1>5. /\ pc' \in [Threads -> Labels]
      /\ \A u \in Threads \ {t} : pc'[u] = pc[u]
      /\ pc'[t] \in {"e_cas", "idle", "e_load"}
      /\ pc'[t] = "e_cas" => Matches(pos[t], stores[c][i].value)
  BY <1>1 DEF Verdict, Goto, TypeOK, Labels
<1>6. ASSUME pc'[t] = "e_cas" PROVE stores[c][i].value = pos[t]
  <2>1. stores[c][i].value \in Nat /\ stores[c][i].value <= MaxClaims + Capacity
    BY <1>3, <1>4, StoreType DEF Growing
  <2>2. pos[t] <= MaxClaims
    BY <1>3 DEF Counters, TypeOK
  <2> DEFINE w == pos[t]
             s == stores[c][i].value
  <2>a. /\ Capacity \in Nat /\ Capacity >= 2 /\ MaxClaims \in Nat
        /\ WordSize \in Nat /\ MaxClaims + 2 * Capacity < WordSize
    OBVIOUS
  <2>b. s \in Nat /\ s <= MaxClaims + Capacity /\ w \in Nat /\ w <= MaxClaims
    BY <1>3, <2>1, <2>2
  <2>c. Matches(w, s)
    BY <1>5, <1>6
  <2> HIDE DEF w, s
  <2>3. w - s < WordSize /\ s - w < WordSize
    BY ONLY <2>a, <2>b
  <2>4. w = s
    BY <2>b, <2>c, <2>3, WordsMatch
  <2> QED
    BY <2>4 DEF w, s
<1>7. SampleOf(t)'
  BY <1>2, <1>3, <1>4, <1>5, <1>6 DEF SampleOf, KnownSeq, c
<1>8. ~Enqueuing(t) /\ ~Dequeuing(t) /\ ~Enqueuing(t)' /\ ~Dequeuing(t)'
  BY <1>2, <1>5 DEF Enqueuing, Dequeuing
<1>9. pos' \in [Threads -> Nat] /\ \A u \in Threads \ {t} : pos'[u] = pos[u]
  BY <1>2 DEF TypeOK
<1> QED
  BY <1>2, <1>4, <1>5, <1>7, <1>8, <1>9, QuietStep

LEMMA DeqSeqStep ==
  ASSUME RInv, NEW t \in Threads, DeqSeq(t)
  PROVE  RInv'
<1> USE RelaxedAssumption DEF RInv, Protocol, Knowledge
<1> DEFINE c == CellOf(pos[t])
<1>1. PICK i \in view[t][SeqAt(c)] .. Len(stores[c]) :
        Acquires(t, c, i) /\ Verdict(t, pos[t] + 1, stores[c][i].value, "d_cas", "d_load")
  BY DEF DeqSeq
<1>2. /\ UNCHANGED shared /\ UNCHANGED <<stores, touched, pos, head, tail>>
      /\ pc[t] = "d_seq"
  BY DEF DeqSeq, shared
<1>3. c \in Cells /\ pos[t] \in Nat /\ pos[t] <= tail
  BY <1>2, CellFacts DEF TypeOK, Samples
<1> HIDE DEF c
<1>4. /\ view' \in [Threads -> Views]
      /\ \A u \in Threads \ {t} : view'[u] = view[u]
      /\ Aware(t)' /\ view'[t][SeqAt(c)] = i /\ i \in 1 .. Len(stores[c])
  BY <1>1, <1>2, <1>3, AcquireStep
<1>5. /\ pc' \in [Threads -> Labels]
      /\ \A u \in Threads \ {t} : pc'[u] = pc[u]
      /\ pc'[t] \in {"d_cas", "idle", "d_load"}
      /\ pc'[t] = "d_cas" => Matches(pos[t] + 1, stores[c][i].value)
  BY <1>1 DEF Verdict, Goto, TypeOK, Labels
<1>6. ASSUME pc'[t] = "d_cas" PROVE stores[c][i].value = pos[t] + 1
  <2>1. stores[c][i].value \in Nat /\ stores[c][i].value <= MaxClaims + Capacity
    BY <1>3, <1>4, StoreType DEF Growing
  <2>2. pos[t] <= MaxClaims
    BY <1>3 DEF Counters, TypeOK
  <2> DEFINE w == pos[t] + 1
             s == stores[c][i].value
  <2>a. /\ Capacity \in Nat /\ Capacity >= 2 /\ MaxClaims \in Nat
        /\ WordSize \in Nat /\ MaxClaims + 2 * Capacity < WordSize
    OBVIOUS
  <2>b. s \in Nat /\ s <= MaxClaims + Capacity /\ pos[t] \in Nat /\ pos[t] <= MaxClaims
    BY <1>3, <2>1, <2>2
  <2> HIDE DEF s
  <2>3. w \in Int /\ w - s < WordSize /\ s - w < WordSize
    BY ONLY <2>a, <2>b
  <2>4. Matches(w, s)
    BY <1>5, <1>6 DEF s
  <2> HIDE DEF w
  <2>5. w = s
    BY <2>b, <2>3, <2>4, WordsMatch
  <2> QED
    BY <2>5 DEF w, s
<1>7. SampleOf(t)'
  BY <1>2, <1>3, <1>4, <1>5, <1>6 DEF SampleOf, KnownSeq, c
<1>8. ~Enqueuing(t) /\ ~Dequeuing(t) /\ ~Enqueuing(t)' /\ ~Dequeuing(t)'
  BY <1>2, <1>5 DEF Enqueuing, Dequeuing
<1>9. pos' \in [Threads -> Nat] /\ \A u \in Threads \ {t} : pos'[u] = pos[u]
  BY <1>2 DEF TypeOK
<1> QED
  BY <1>2, <1>4, <1>5, <1>7, <1>8, <1>9, QuietStep

(* What two threads tell each other outside the queue. *)
LEMMA HearsStep ==
  ASSUME RInv, NEW t \in Threads, NEW u \in Threads, Hears(t, u)
  PROVE  RInv'
<1> USE DEF RInv, Knowledge
<1> DEFINE z == Join(view[t], view[u])
<1>1. /\ view[t] \in Views /\ view[u] \in Views /\ view \in [Threads -> Views]
      /\ Within(view[t]) /\ Within(view[u])
      /\ \A c \in Cells : view[t][SeqAt(c)] >= 1
  BY DEF TypeOK, Coherent
<1>2. z \in Views /\ Within(z) /\ \A l \in Locations : view[t][l] <= z[l]
  BY <1>1, JoinType, JoinWithin
<1>3. /\ view' = [view EXCEPT ![t] = z]
      /\ pc[t] = "idle"
      /\ UNCHANGED shared /\ UNCHANGED <<stores, touched, pc, pos>>
  BY <1>1 DEF Hears, shared
<1> HIDE DEF z
<1>4. view'[t] = z /\ \A c \in Cells : z[SeqAt(c)] >= 1
  BY <1>1, <1>2, <1>3, Places DEF Views
<1>5. Aware(t)'
  BY <1>2, <1>3, <1>4 DEF Aware, Within
<1>6. SampleOf(t)'
  BY <1>3 DEF SampleOf
<1>7. ~Enqueuing(t) /\ ~Dequeuing(t) /\ ~Enqueuing(t)' /\ ~Dequeuing(t)'
  BY <1>3 DEF Enqueuing, Dequeuing
<1>8. /\ view' \in [Threads -> Views] /\ pc' \in [Threads -> Labels] /\ pos' \in [Threads -> Nat]
      /\ \A w \in Threads \ {t} : pc'[w] = pc[w] /\ pos'[w] = pos[w] /\ view'[w] = view[w]
  BY <1>1, <1>2, <1>3 DEF TypeOK
<1> QED
  BY <1>3, <1>5, <1>6, <1>7, <1>8, QuietStep
(***************************************************************************)
(* The compare-and-swaps that take a slot.                                 *)
(***************************************************************************)
LEMMA SwapViews ==
  ASSUME TypeOK, NEW t \in Threads, NEW l \in {HeadAt, TailAt}, NEW n \in Nat,
         view' = [view EXCEPT ![t][l] = n]
  PROVE  /\ view' \in [Threads -> Views]
         /\ \A u \in Threads : \A c \in Cells :
              view'[u][SeqAt(c)] = view[u][SeqAt(c)] /\ view'[u][DataAt(c)] = view[u][DataAt(c)]
<1>1. l \in Locations /\ \A c \in Cells : l # SeqAt(c) /\ l # DataAt(c)
  BY Places
<1>2. view \in [Threads -> Views]
  BY DEF TypeOK
<1> QED
  BY <1>1, <1>2, Places DEF Views

(* What the views say of the cells stands while neither they nor the cells
   change.                                                                  *)
LEMMA CoherentStays ==
  ASSUME Coherent, UNCHANGED <<stores, touched>>,
         \A u \in Threads : \A c \in Cells :
           view'[u][SeqAt(c)] = view[u][SeqAt(c)] /\ view'[u][DataAt(c)] = view[u][DataAt(c)]
  PROVE  Coherent'
<1>1. ASSUME NEW u \in Threads
      PROVE  Within(view[u])' /\ \A c \in Cells : view'[u][SeqAt(c)] >= 1
  <2>1. Within(view[u]) /\ \A c \in Cells : view[u][SeqAt(c)] >= 1
    BY DEF Coherent
  <2> QED
    BY <2>1 DEF Within
<1>2. ASSUME NEW c \in Cells, NEW i \in 1 .. Len(stores[c])
      PROVE  Within(stores[c][i].view)' /\ stores[c][i].view[SeqAt(c)] <= i
  BY DEF Coherent, Within
<1> QED
  BY <1>1, <1>2 DEF Coherent

(* No thread owns a cell whose last sequence number is head, or is tail + 1,
   with the dequeue of that item unclaimed.                                 *)
LEMMA NoOwner ==
  ASSUME TypeOK, Counters, Owners, NEW u \in Threads, Enqueuing(u) \/ Dequeuing(u)
  PROVE  /\ head < tail + Capacity /\ seq[CellOf(head)] = head => CellOf(pos[u]) # CellOf(head)
         /\ tail < head /\ seq[CellOf(tail)] = tail + 1 => CellOf(pos[u]) # CellOf(tail)
<1> USE RelaxedAssumption DEF TypeOK
<1>1. CASE Enqueuing(u)
  <2>1. tail <= pos[u] /\ pos[u] < head /\ seq[CellOf(pos[u])] = pos[u]
    BY <1>1 DEF Owners
  <2>2. CellOf(tail + 1) # CellOf(tail)
    BY CellFacts
  <2> QED
    BY <2>1, <2>2
<1>2. CASE Dequeuing(u)
  <2>1. pos[u] < tail /\ head <= pos[u] + Capacity /\ seq[CellOf(pos[u])] = pos[u] + 1
    BY <1>2 DEF Owners
  <2>2. CellOf(head - 1) # CellOf(head) \/ head = 0
    BY CellFacts
  <2> QED
    BY <2>1, <2>2
<1> QED
  BY <1>1, <1>2

(* A thread that knows of the last store to a cell nobody owns knows of every
   access to its data.                                                      *)
LEMMA KnowsData ==
  ASSUME TypeOK, Knowledge, NEW t \in Threads, NEW c \in Cells,
         view[t][SeqAt(c)] = Len(stores[c]),
         \A u \in Threads : Enqueuing(u) \/ Dequeuing(u) => CellOf(pos[u]) # c
  PROVE  view[t][DataAt(c)] = touched[c]
<1>1. stores[c][Len(stores[c])].view[DataAt(c)] = touched[c]
  BY DEF Knowledge, Carried, Enqueuing, Dequeuing
<1>2. /\ view[t][DataAt(c)] <= touched[c]
      /\ view[t][SeqAt(c)] >= 1
      /\ view[t][SeqAt(c)] >= 1 => stores[c][view[t][SeqAt(c)]].view[DataAt(c)] <= view[t][DataAt(c)]
  BY DEF Knowledge, Coherent, Within
<1>3. touched[c] <= view[t][DataAt(c)]
  BY <1>1, <1>2
<1>4. view[t][DataAt(c)] \in Nat /\ touched[c] \in Nat
  BY Places DEF TypeOK, Views
<1> QED
  BY <1>2, <1>3, <1>4
LEMMA EnqClaimStep ==
  ASSUME RInv, NEW t \in Threads, EnqClaim(t)
  PROVE  RInv'
<1> USE RelaxedAssumption DEF RInv, Protocol, Knowledge
<1> DEFINE c == CellOf(head)
<1>1. /\ head < MaxClaims /\ head' = head + 1
      /\ pc[t] = "e_cas" /\ pc' = [pc EXCEPT ![t] = "e_data"]
      /\ view' = [view EXCEPT ![t][HeadAt] = head + 1]
      /\ Matches(head, pos[t])
      /\ UNCHANGED <<tail, stores, data, touched, pos, sound>>
  BY DEF EnqClaim, Goto, Swaps, Matches
<1>2. head \in Nat /\ tail \in Nat /\ pos[t] \in Nat /\ pos[t] <= head
  BY <1>1 DEF TypeOK, Samples
<1>3. pos[t] = head
  <2>1. head - pos[t] < WordSize /\ pos[t] - head < WordSize
    BY <1>1, <1>2
  <2> QED
    BY <1>1, <1>2, <2>1, WordsMatch
<1>4. c \in Cells
  BY <1>2, CellFacts
<1> DEFINE k == view[t][SeqAt(c)]
<1>5. k \in 1 .. Len(stores[c]) /\ stores[c][k].value = head
  <2>1. k \in Nat /\ k >= 1 /\ k <= Len(stores[c])
    BY <1>4, Places DEF TypeOK, Views, Coherent, Within
  <2>2. stores[c][k].value = head
    BY <1>1, <1>3 DEF Samples, KnownSeq
  <2> QED
    BY <1>4, <2>1, <2>2, LastStore
<1>6. head <= seq[c] /\ (seq[c] = head => k = Len(stores[c]))
  BY <1>4, <1>5, KnowsLast
<1>7. head < tail + Capacity /\ seq[c] = head
  <2>1. seq[c] \in Nat
    BY <1>4, SeqType
  <2> QED
    BY <1>2, <1>6, <2>1, SeqOfHead
<1>8. k = Len(stores[c]) /\ k \in Nat
  BY <1>5, <1>6, <1>7
<1>9. \A u \in Threads : Enqueuing(u) \/ Dequeuing(u) => CellOf(pos[u]) # c
  BY <1>7, NoOwner
<1>10. view[t][DataAt(c)] = touched[c]
  BY <1>4, <1>8, <1>9, KnowsData
<1> HIDE DEF c, k
<1>11. /\ view' \in [Threads -> Views]
       /\ \A u \in Threads : \A d \in Cells :
            view'[u][SeqAt(d)] = view[u][SeqAt(d)] /\ view'[u][DataAt(d)] = view[u][DataAt(d)]
  <2>1. head + 1 \in Nat
    BY <1>2
  <2> QED
    BY <1>1, <2>1, SwapViews
<1>12. seq' = seq
  BY <1>1 DEF seq
<1>13. TypeOK'
  <2>1. pc' \in [Threads -> Labels]
    BY <1>1 DEF TypeOK, Labels
  <2>2. head' \in Nat
    BY <1>1, <1>2
  <2> QED
    BY <1>1, <1>11, <2>1, <2>2 DEF TypeOK
<1>14. /\ pc \in [Threads -> Labels] /\ pos \in [Threads -> Nat]
       /\ \A u \in Threads : u # t => pc'[u] = pc[u]
       /\ pc'[t] = "e_data"
  BY <1>1 DEF TypeOK
<1>15. /\ \A u \in Threads : u # t => (Enqueuing(u)' <=> Enqueuing(u)) /\ (Dequeuing(u)' <=> Dequeuing(u))
       /\ Enqueuing(t)' /\ ~Dequeuing(t)' /\ ~Enqueuing(t) /\ ~Dequeuing(t)
  BY <1>1, <1>14 DEF Enqueuing, Dequeuing
<1>16. \A p \in Nat : CellOf(p) \in Cells
  BY CellFacts
<1>17. Counters'
  BY <1>1, <1>2, <1>7 DEF Counters
<1>18. \A u \in Threads : Dequeuing(u) => head < pos[u] + Capacity
  <2> SUFFICES ASSUME NEW u \in Threads, Dequeuing(u), head = pos[u] + Capacity
               PROVE  FALSE
    BY <1>2, <1>14 DEF Owners
  <2>1. CellOf(pos[u]) = c
    BY <1>14, CellFacts DEF c
  <2> QED
    BY <1>9, <2>1
<1>19. Owners'
  BY <1>1, <1>2, <1>3, <1>7, <1>12, <1>14, <1>15, <1>18 DEF Owners, Counters, c
<1>20. OneOwner'
  BY <1>1, <1>2, <1>3, <1>14, <1>15 DEF OneOwner, Owners
<1>21. Taken'
  <2> SUFFICES ASSUME NEW p \in tail .. head
               PROVE  \/ seq[CellOf(p)] = p + 1
                      \/ seq[CellOf(p)] = p /\ \E u \in Threads : Enqueuing(u)' /\ pos'[u] = p
    BY <1>1, <1>2, <1>12 DEF Taken
  <2>1. CASE p = head
    BY <1>1, <1>3, <1>7, <1>15, <2>1 DEF c
  <2>2. CASE p # head
    <3>1. p \in tail .. head - 1
      BY <1>2, <2>2
    <3> QED
      BY <1>1, <1>15, <3>1 DEF Taken
  <2> QED
    BY <2>1, <2>2
<1>22. Vacant'
  <2> SUFFICES ASSUME NEW p \in head + 1 .. tail + Capacity - 1
               PROVE  \/ seq[CellOf(p)] = p
                      \/ /\ seq[CellOf(p)] = p + 1 - Capacity
                         /\ \E u \in Threads : Dequeuing(u)' /\ pos'[u] = p - Capacity
    BY <1>1, <1>12 DEF Vacant
  <2>1. p \in head .. tail + Capacity - 1
    BY <1>2
  <2> QED
    BY <1>1, <1>15, <2>1 DEF Vacant
<1>23. Contents'
  <2>1. ASSUME NEW p \in tail .. head, seq[CellOf(p)] = p + 1
        PROVE  data[CellOf(p)] = p
    BY <1>2, <1>7, <2>1 DEF Contents, c
  <2>2. ASSUME NEW u \in Threads, pc'[u] \in {"e_pub", "d_data"}
        PROVE  data[CellOf(pos[u])] = pos[u]
    BY <1>14, <2>2 DEF Contents
  <2> QED
    BY <1>1, <1>2, <1>12, <2>1, <2>2 DEF Contents
<1>24. Samples'
  <2> SUFFICES ASSUME NEW u \in Threads, u # t PROVE SampleOf(u)'
    BY <1>14 DEF Samples, SampleOf
  <2>1. SampleOf(u)
    BY DEF Samples, SampleOf
  <2> QED
    BY <1>1, <1>2, <1>11, <1>14, <1>16, <2>1 DEF SampleOf, KnownSeq
<1>25. Growing'
  BY <1>1 DEF Growing
<1>26. Coherent'
  BY <1>1, <1>11, CoherentStays
<1>27. Informed'
  <2> SUFFICES ASSUME NEW u \in Threads, Enqueuing(u)' \/ Dequeuing(u)'
               PROVE  /\ view'[u][SeqAt(CellOf(pos[u]))] = Len(stores[CellOf(pos[u])])
                      /\ view'[u][DataAt(CellOf(pos[u]))] = touched[CellOf(pos[u])]
    BY <1>1 DEF Informed
  <2>1. CASE u = t
    BY <1>3, <1>4, <1>8, <1>10, <1>11, <2>1 DEF c, k
  <2>2. CASE u # t
    BY <1>11, <1>14, <1>15, <1>16, <2>2 DEF Informed
  <2> QED
    BY <2>1, <2>2
<1>28. Carried'
  <2> SUFFICES ASSUME NEW d \in Cells, NEW u \in Threads, pc[u] \in {"e_pub", "d_rel"}, CellOf(pos[u]) = d
               PROVE  pc'[u] \in {"e_pub", "d_rel"} /\ CellOf(pos'[u]) = d
    BY <1>1 DEF Carried
  <2> QED
    BY <1>1, <1>14
<1> QED
  BY <1>1, <1>13, <1>17, <1>19, <1>20, <1>21, <1>22, <1>23, <1>24, <1>25, <1>26, <1>27, <1>28
LEMMA DeqClaimStep ==
  ASSUME RInv, NEW t \in Threads, DeqClaim(t)
  PROVE  RInv'
<1> USE RelaxedAssumption DEF RInv, Protocol, Knowledge
<1> DEFINE c == CellOf(tail)
<1>1. /\ tail' = tail + 1
      /\ pc[t] = "d_cas" /\ pc' = [pc EXCEPT ![t] = "d_data"]
      /\ view' = [view EXCEPT ![t][TailAt] = tail + 1]
      /\ Matches(tail, pos[t])
      /\ UNCHANGED <<head, stores, data, touched, pos, sound>>
  BY DEF DeqClaim, Goto, Swaps, Matches
<1>2. head \in Nat /\ tail \in Nat /\ pos[t] \in Nat /\ pos[t] <= tail
  BY <1>1 DEF TypeOK, Samples
<1>3. pos[t] = tail
  <2>1. tail - pos[t] < WordSize /\ pos[t] - tail < WordSize
    BY <1>1, <1>2 DEF Counters
  <2> QED
    BY <1>1, <1>2, <2>1, WordsMatch
<1>4. c \in Cells
  BY <1>2, CellFacts
<1> DEFINE k == view[t][SeqAt(c)]
<1>5. k \in 1 .. Len(stores[c]) /\ stores[c][k].value = tail + 1
  <2>1. k \in Nat /\ k >= 1 /\ k <= Len(stores[c])
    BY <1>4, Places DEF TypeOK, Views, Coherent, Within
  <2>2. stores[c][k].value = tail + 1
    BY <1>1, <1>3 DEF Samples, KnownSeq
  <2> QED
    BY <1>4, <2>1, <2>2, LastStore
<1>6. tail + 1 <= seq[c] /\ (seq[c] = tail + 1 => k = Len(stores[c]))
  BY <1>4, <1>5, KnowsLast
<1>7. tail < head /\ seq[c] = tail + 1
  <2>1. seq[c] \in Nat
    BY <1>4, SeqType
  <2> QED
    BY <1>2, <1>6, <2>1, SeqOfTail
<1>8. k = Len(stores[c]) /\ k \in Nat
  BY <1>5, <1>6, <1>7
<1>9. \A u \in Threads : Enqueuing(u) \/ Dequeuing(u) => CellOf(pos[u]) # c
  BY <1>7, NoOwner
<1>10. view[t][DataAt(c)] = touched[c]
  BY <1>4, <1>8, <1>9, KnowsData
<1> HIDE DEF c, k
<1>11. /\ view' \in [Threads -> Views]
       /\ \A u \in Threads : \A d \in Cells :
            view'[u][SeqAt(d)] = view[u][SeqAt(d)] /\ view'[u][DataAt(d)] = view[u][DataAt(d)]
  <2>1. tail + 1 \in Nat
    BY <1>2
  <2> QED
    BY <1>1, <2>1, SwapViews
<1>12. seq' = seq
  BY <1>1 DEF seq
<1>13. TypeOK'
  <2>1. pc' \in [Threads -> Labels]
    BY <1>1 DEF TypeOK, Labels
  <2>2. tail' \in Nat
    BY <1>1, <1>2
  <2> QED
    BY <1>1, <1>11, <2>1, <2>2 DEF TypeOK
<1>14. /\ pc \in [Threads -> Labels] /\ pos \in [Threads -> Nat]
       /\ \A u \in Threads : u # t => pc'[u] = pc[u]
       /\ pc'[t] = "d_data"
  BY <1>1 DEF TypeOK
<1>15. /\ \A u \in Threads : u # t => (Enqueuing(u)' <=> Enqueuing(u)) /\ (Dequeuing(u)' <=> Dequeuing(u))
       /\ ~Enqueuing(t)' /\ Dequeuing(t)' /\ ~Enqueuing(t) /\ ~Dequeuing(t)
  BY <1>1, <1>14 DEF Enqueuing, Dequeuing
<1>16. /\ \A p \in Nat : CellOf(p) \in Cells
       /\ CellOf(tail + Capacity) = c
  BY <1>2, CellFacts DEF c
<1>17. Counters'
  BY <1>1, <1>2, <1>7 DEF Counters
<1>19. Owners'
  <2> SUFFICES ASSUME NEW u \in Threads
               PROVE  /\ Enqueuing(u)' => tail + 1 <= pos[u] /\ pos[u] < head /\ seq[CellOf(pos[u])] = pos[u]
                      /\ Dequeuing(u)' => /\ pos[u] < tail + 1 /\ head <= pos[u] + Capacity
                                          /\ seq[CellOf(pos[u])] = pos[u] + 1
    BY <1>1, <1>12 DEF Owners
  <2>1. CASE u = t
    BY <1>2, <1>3, <1>7, <1>15, <2>1 DEF Counters, c
  <2>2. CASE u # t
    <3>1. Enqueuing(u) => pos[u] # tail
      BY <1>9 DEF c
    <3> QED
      BY <1>2, <1>14, <1>15, <2>2, <3>1 DEF Owners
  <2> QED
    BY <2>1, <2>2
<1>20. OneOwner'
  BY <1>1, <1>2, <1>3, <1>14, <1>15 DEF OneOwner, Owners
<1>21. Taken'
  <2> SUFFICES ASSUME NEW p \in tail + 1 .. head - 1
               PROVE  \/ seq[CellOf(p)] = p + 1
                      \/ seq[CellOf(p)] = p /\ \E u \in Threads : Enqueuing(u)' /\ pos'[u] = p
    BY <1>1, <1>12 DEF Taken
  <2>1. p \in tail .. head - 1
    BY <1>2
  <2> QED
    BY <1>1, <1>15, <2>1 DEF Taken
<1>22. Vacant'
  <2> SUFFICES ASSUME NEW p \in head .. tail + Capacity
               PROVE  \/ seq[CellOf(p)] = p
                      \/ /\ seq[CellOf(p)] = p + 1 - Capacity
                         /\ \E u \in Threads : Dequeuing(u)' /\ pos'[u] = p - Capacity
    BY <1>1, <1>2, <1>12 DEF Vacant
  <2>1. CASE p = tail + Capacity
    BY <1>1, <1>2, <1>3, <1>7, <1>15, <1>16, <2>1
  <2>2. CASE p # tail + Capacity
    <3>1. p \in head .. tail + Capacity - 1
      BY <1>2, <2>2
    <3> QED
      BY <1>1, <1>15, <3>1 DEF Vacant
  <2> QED
    BY <2>1, <2>2
<1>23. Contents'
  <2>1. data[c] = tail
    BY <1>2, <1>7 DEF Contents, c
  <2>2. ASSUME NEW u \in Threads, pc'[u] \in {"e_pub", "d_data"}
        PROVE  data[CellOf(pos[u])] = pos[u]
    BY <1>3, <1>14, <2>1, <2>2 DEF Contents, c
  <2>3. \A p \in tail + 1 .. head - 1 : seq[CellOf(p)] = p + 1 => data[CellOf(p)] = p
    BY <1>2 DEF Contents
  <2> QED
    BY <1>1, <1>2, <1>12, <2>2, <2>3 DEF Contents
<1>24. Samples'
  <2> SUFFICES ASSUME NEW u \in Threads, u # t PROVE SampleOf(u)'
    BY <1>14 DEF Samples, SampleOf
  <2>1. SampleOf(u)
    BY DEF Samples, SampleOf
  <2> QED
    BY <1>1, <1>2, <1>11, <1>14, <1>16, <2>1 DEF SampleOf, KnownSeq
<1>25. Growing'
  BY <1>1 DEF Growing
<1>26. Coherent'
  BY <1>1, <1>11, CoherentStays
<1>27. Informed'
  <2> SUFFICES ASSUME NEW u \in Threads, Enqueuing(u)' \/ Dequeuing(u)'
               PROVE  /\ view'[u][SeqAt(CellOf(pos[u]))] = Len(stores[CellOf(pos[u])])
                      /\ view'[u][DataAt(CellOf(pos[u]))] = touched[CellOf(pos[u])]
    BY <1>1 DEF Informed
  <2>1. CASE u = t
    BY <1>3, <1>4, <1>8, <1>10, <1>11, <2>1 DEF c, k
  <2>2. CASE u # t
    BY <1>11, <1>14, <1>15, <1>16, <2>2 DEF Informed
  <2> QED
    BY <2>1, <2>2
<1>28. Carried'
  <2> SUFFICES ASSUME NEW d \in Cells, NEW u \in Threads, pc[u] \in {"e_pub", "d_rel"}, CellOf(pos[u]) = d
               PROVE  pc'[u] \in {"e_pub", "d_rel"} /\ CellOf(pos'[u]) = d
    BY <1>1 DEF Carried
  <2> QED
    BY <1>1, <1>14
<1> QED
  BY <1>1, <1>13, <1>17, <1>19, <1>20, <1>21, <1>22, <1>23, <1>24, <1>25, <1>26, <1>27, <1>28

(***************************************************************************)
(* The accesses to the data of an owned slot.                              *)
(***************************************************************************)
(* No two threads own the same cell. *)
LEMMA OwnersApart ==
  ASSUME TypeOK, Protocol, NEW t \in Threads, NEW u \in Threads, t # u,
         Enqueuing(t) \/ Dequeuing(t), Enqueuing(u) \/ Dequeuing(u)
  PROVE  CellOf(pos[t]) # CellOf(pos[u])
<1> USE RelaxedAssumption DEF Protocol
<1>1. pos[t] \in Nat /\ pos[u] \in Nat /\ head \in Nat /\ tail \in Nat
  BY DEF TypeOK
<1>2. /\ head - Capacity <= pos[t] /\ pos[t] < head
      /\ head - Capacity <= pos[u] /\ pos[u] < head
  BY <1>1 DEF Owners, Counters
<1>3. pos[t] # pos[u]
  <2>1. ~(Enqueuing(t) /\ Dequeuing(u)) \/ pos[t] > pos[u]
    BY <1>1 DEF Owners
  <2>2. ~(Dequeuing(t) /\ Enqueuing(u)) \/ pos[u] > pos[t]
    BY <1>1 DEF Owners
  <2> QED
    BY <1>1, <2>1, <2>2 DEF OneOwner
<1>4. pos[t] < pos[u] + Capacity /\ pos[u] < pos[t] + Capacity
  BY <1>1, <1>2
<1> QED
  BY <1>1, <1>3, <1>4, CellFacts

(* An access to the data of cell c that its owner makes. *)
LEMMA TouchStep ==
  ASSUME TypeOK, Protocol, Knowledge, NEW t \in Threads, Enqueuing(t) \/ Dequeuing(t),
         Enqueuing(t)' \/ Dequeuing(t)', pc' \in [Threads -> Labels],
         pc'[t] \in {"e_pub", "d_rel"},
         \A u \in Threads : u # t => pc'[u] = pc[u],
         touched' = [touched EXCEPT ![CellOf(pos[t])] = @ + 1],
         view' = [view EXCEPT ![t][DataAt(CellOf(pos[t]))] = touched[CellOf(pos[t])] + 1],
         UNCHANGED <<stores, pos>>
  PROVE  /\ view' \in [Threads -> Views] /\ touched' \in [Cells -> Nat]
         /\ \A u \in Threads : \A d \in Cells : view'[u][SeqAt(d)] = view[u][SeqAt(d)]
         /\ Knowledge'
<1> USE DEF Knowledge
<1> DEFINE c == CellOf(pos[t])
<1>1. c \in Cells /\ touched[c] \in Nat /\ view \in [Threads -> Views] /\ pos \in [Threads -> Nat]
  BY CellFacts DEF TypeOK
<1>2. \A p \in Nat : CellOf(p) \in Cells
  BY CellFacts
<1>3. \A u \in Threads : u # t /\ (Enqueuing(u) \/ Dequeuing(u)) => CellOf(pos[u]) # c
  BY OwnersApart
<1> HIDE DEF c
<1>4. /\ touched' = [touched EXCEPT ![c] = @ + 1]
      /\ view' = [view EXCEPT ![t][DataAt(c)] = touched[c] + 1]
  BY DEF c
<1>5. /\ view' \in [Threads -> Views] /\ touched' \in [Cells -> Nat]
      /\ \A d \in Cells : touched'[d] = IF d = c THEN touched[c] + 1 ELSE touched[d]
      /\ \A u \in Threads : u # t => view'[u] = view[u]
      /\ \A d \in Cells : view'[t][SeqAt(d)] = view[t][SeqAt(d)]
      /\ \A d \in Cells : view'[t][DataAt(d)] = IF d = c THEN touched[c] + 1 ELSE view[t][DataAt(d)]
  <2>1. DataAt(c) \in Locations /\ \A d \in Cells : SeqAt(d) # DataAt(c) /\ (DataAt(d) = DataAt(c) => d = c)
    BY <1>1, Places
  <2>2. touched \in [Cells -> Nat] /\ touched[c] + 1 \in Nat
    BY <1>1 DEF TypeOK
  <2>3. view'[t] = [view[t] EXCEPT ![DataAt(c)] = touched[c] + 1] /\ view[t] \in Views
    BY <1>1, <1>4
  <2>4. \A d \in Cells : touched'[d] = IF d = c THEN touched[c] + 1 ELSE touched[d]
    BY <1>1, <1>4, <2>2
  <2>5. view'[t] \in Views
    BY <2>1, <2>2, <2>3, LearnType
  <2>6. view' \in [Threads -> Views] /\ \A u \in Threads : u # t => view'[u] = view[u]
    BY <1>1, <1>4, <2>3, <2>5
  <2>7. touched' \in [Cells -> Nat]
    BY <1>1, <1>4, <2>2
  <2> QED
    BY <1>1, <2>1, <2>3, <2>4, <2>6, <2>7, Places DEF Views
<1>6. Growing'
  BY DEF Growing
<1>7. \A v \in Views : Within(v) => Within(v)'
  <2> SUFFICES ASSUME NEW v \in Views, Within(v), NEW d \in Cells
               PROVE  /\ v[SeqAt(d)] <= Len(stores[d])
                      /\ v[DataAt(d)] <= touched'[d]
                      /\ v[SeqAt(d)] >= 1 => stores[d][v[SeqAt(d)]].view[DataAt(d)] <= v[DataAt(d)]
    BY DEF Within
  <2>1. v[DataAt(d)] \in Nat /\ touched[d] \in Nat /\ v[DataAt(d)] <= touched[d]
    BY Places DEF Views, Within, TypeOK
  <2>2. v[DataAt(d)] <= touched'[d]
    BY <1>1, <1>5, <2>1
  <2> QED
    BY <2>2 DEF Within
<1>8. Coherent'
  <2>1. ASSUME NEW u \in Threads
        PROVE  Within(view[u])' /\ \A d \in Cells : view'[u][SeqAt(d)] >= 1
    <3>1. Within(view[u]) /\ \A d \in Cells : view[u][SeqAt(d)] >= 1
      BY DEF Coherent
    <3>2. CASE u # t
      BY <1>1, <1>5, <1>7, <3>1, <3>2 DEF Within
    <3>3. CASE u = t
      <4> SUFFICES ASSUME NEW d \in Cells
                   PROVE  /\ view'[t][SeqAt(d)] <= Len(stores[d])
                          /\ view'[t][DataAt(d)] <= touched'[d]
                          /\ view'[t][SeqAt(d)] >= 1 =>
                               stores[d][view'[t][SeqAt(d)]].view[DataAt(d)] <= view'[t][DataAt(d)]
        BY <1>5, <3>1, <3>3 DEF Within
      <4>1. CASE d # c
        BY <1>5, <3>1, <3>3, <4>1 DEF Within
      <4>2. CASE d = c
        <5>1. view[t][SeqAt(c)] \in 1 .. Len(stores[c])
          BY <1>1, <3>1, <3>3, Places, LastStore DEF Views, Within
        <5>2. stores[c][view[t][SeqAt(c)]].view \in Views /\ Within(stores[c][view[t][SeqAt(c)]].view)
          BY <1>1, <5>1, StoreType DEF Coherent
        <5>3. /\ stores[c][view[t][SeqAt(c)]].view[DataAt(c)] <= touched[c]
              /\ stores[c][view[t][SeqAt(c)]].view[DataAt(c)] \in Nat
          BY <1>1, <5>2, Places DEF Within, Views
        <5>4. stores[c][view[t][SeqAt(c)]].view[DataAt(c)] <= touched[c] + 1
          BY <1>1, <5>3
        <5> QED
          BY <1>1, <1>5, <3>1, <3>3, <4>2, <5>4 DEF Within
      <4> QED
        BY <4>1, <4>2
    <3> QED
      BY <3>2, <3>3
  <2>2. ASSUME NEW d \in Cells, NEW i \in 1 .. Len(stores[d])
        PROVE  Within(stores[d][i].view)' /\ stores[d][i].view[SeqAt(d)] <= i
    <3>1. stores[d][i].view \in Views /\ Within(stores[d][i].view) /\ stores[d][i].view[SeqAt(d)] <= i
      BY StoreType DEF Coherent
    <3> QED
      BY <1>7, <3>1 DEF Within
  <2> QED
    BY <2>1, <2>2 DEF Coherent
<1>9. Informed'
  <2> SUFFICES ASSUME NEW u \in Threads, Enqueuing(u)' \/ Dequeuing(u)'
               PROVE  /\ view'[u][SeqAt(CellOf(pos[u]))] = Len(stores[CellOf(pos[u])])
                      /\ view'[u][DataAt(CellOf(pos[u]))] = touched'[CellOf(pos[u])]
    BY DEF Informed
  <2>1. CASE u = t
    BY <1>1, <1>5, <2>1 DEF Informed, c
  <2>2. CASE u # t
    <3>1. Enqueuing(u) \/ Dequeuing(u)
      BY <2>2 DEF Enqueuing, Dequeuing
    <3> QED
      BY <1>1, <1>2, <1>3, <1>5, <2>2, <3>1 DEF Informed
  <2> QED
    BY <2>1, <2>2
<1>10. Carried'
  <2> SUFFICES ASSUME NEW d \in Cells
               PROVE  \/ stores[d][Len(stores[d])].view[DataAt(d)] = touched'[d]
                      \/ \E u \in Threads : pc'[u] \in {"e_pub", "d_rel"} /\ CellOf(pos[u]) = d
    BY DEF Carried
  <2>1. CASE d = c
    BY <2>1 DEF c
  <2>2. CASE d # c
    <3>1. CASE stores[d][Len(stores[d])].view[DataAt(d)] = touched[d]
      BY <1>5, <2>2, <3>1
    <3>2. CASE \E u \in Threads : pc[u] \in {"e_pub", "d_rel"} /\ CellOf(pos[u]) = d
      BY <3>2
    <3> QED
      BY <3>1, <3>2 DEF Carried
  <2> QED
    BY <2>1, <2>2
<1> QED
  BY <1>5, <1>6, <1>8, <1>9, <1>10
LEMMA EnqWriteStep ==
  ASSUME RInv, NEW t \in Threads, EnqWrite(t)
  PROVE  RInv'
<1> USE RelaxedAssumption DEF RInv, Protocol
<1> DEFINE c == CellOf(pos[t])
<1>1. /\ touched' = [touched EXCEPT ![c] = @ + 1]
      /\ view' = [view EXCEPT ![t][DataAt(c)] = touched[c] + 1]
      /\ sound' = (sound /\ TRUE /\ view[t][DataAt(c)] = touched[c] /\ view[t][SeqAt(c)] = Len(stores[c]))
      /\ data' = [data EXCEPT ![c] = pos[t]]
      /\ pc[t] = "e_data" /\ pc' = [pc EXCEPT ![t] = "e_pub"]
      /\ UNCHANGED <<head, tail, stores, pos>>
  BY DEF EnqWrite, Goto, Touches
<1>2. /\ pc \in [Threads -> Labels] /\ pc' \in [Threads -> Labels]
      /\ pc'[t] = "e_pub" /\ \A u \in Threads : u # t => pc'[u] = pc[u]
      /\ pos \in [Threads -> Nat]
  BY <1>1 DEF TypeOK, Labels
<1>3. \A u \in Threads : (Enqueuing(u)' <=> Enqueuing(u)) /\ (Dequeuing(u)' <=> Dequeuing(u))
  BY <1>1, <1>2 DEF Enqueuing, Dequeuing
<1>4. Enqueuing(t) /\ ~Dequeuing(t)
  BY <1>1 DEF Enqueuing, Dequeuing
<1>5. /\ view' \in [Threads -> Views] /\ touched' \in [Cells -> Nat]
      /\ \A u \in Threads : \A d \in Cells : view'[u][SeqAt(d)] = view[u][SeqAt(d)]
      /\ Knowledge'
  BY <1>1, <1>2, <1>3, <1>4, TouchStep
<1>6. c \in Cells /\ \A p \in Nat : CellOf(p) \in Cells
  BY <1>2, CellFacts
<1>7. \A u \in Threads : u # t /\ (Enqueuing(u) \/ Dequeuing(u)) => CellOf(pos[u]) # c
  BY <1>4, OwnersApart
<1>8. seq[c] = pos[t] /\ view[t][DataAt(c)] = touched[c] /\ view[t][SeqAt(c)] = Len(stores[c])
  BY <1>4 DEF Owners, Informed, Knowledge
<1>9. seq' = seq
  BY <1>1 DEF seq
<1> HIDE DEF c
<1>10. sound' = TRUE
  BY <1>1, <1>8
<1>11. /\ data' \in [Cells -> Nat]
       /\ \A d \in Cells : data'[d] = IF d = c THEN pos[t] ELSE data[d]
  BY <1>1, <1>2, <1>6 DEF TypeOK
<1>12. TypeOK'
  BY <1>1, <1>2, <1>5, <1>11 DEF TypeOK
<1>13. Counters'
  BY <1>1 DEF Counters
<1>14. Owners'
  BY <1>1, <1>3, <1>9 DEF Owners
<1>15. OneOwner'
  BY <1>1, <1>3 DEF OneOwner
<1>16. Taken'
  BY <1>1, <1>3, <1>9 DEF Taken
<1>17. Vacant'
  BY <1>1, <1>3, <1>9 DEF Vacant
<1>18. Contents'
  <2>1. ASSUME NEW p \in tail .. head - 1, seq[CellOf(p)] = p + 1
        PROVE  data'[CellOf(p)] = p
    <3>1. p \in Nat /\ data[CellOf(p)] = p
      BY <2>1 DEF Contents, TypeOK
    <3>2. CellOf(p + 1) # CellOf(p)
      BY <3>1, CellFacts
    <3>3. CellOf(p) # c
      BY <1>8, <2>1, <3>2 DEF c
    <3> QED
      BY <1>6, <1>11, <3>1, <3>3
  <2>2. ASSUME NEW u \in Threads, pc'[u] \in {"e_pub", "d_data"}
        PROVE  data'[CellOf(pos[u])] = pos[u]
    <3>1. CASE u = t
      BY <1>6, <1>11, <3>1 DEF c
    <3>2. CASE u # t
      BY <1>2, <1>6, <1>7, <1>11, <2>2, <3>2 DEF Contents, Enqueuing, Dequeuing
    <3> QED
      BY <3>1, <3>2
  <2> QED
    BY <1>1, <1>9, <2>1, <2>2 DEF Contents
<1>19. Samples'
  <2> SUFFICES ASSUME NEW u \in Threads, u # t PROVE SampleOf(u)'
    BY <1>2 DEF Samples, SampleOf
  <2>1. SampleOf(u)
    BY DEF Samples, SampleOf
  <2> QED
    BY <1>1, <1>2, <1>5, <1>6, <2>1 DEF SampleOf, KnownSeq
<1> QED
  BY <1>5, <1>10, <1>12, <1>13, <1>14, <1>15, <1>16, <1>17, <1>18, <1>19

LEMMA DeqReadStep ==
  ASSUME RInv, NEW t \in Threads, DeqRead(t)
  PROVE  RInv'
<1> USE RelaxedAssumption DEF RInv, Protocol
<1> DEFINE c == CellOf(pos[t])
<1>1. /\ touched' = [touched EXCEPT ![c] = @ + 1]
      /\ view' = [view EXCEPT ![t][DataAt(c)] = touched[c] + 1]
      /\ sound' = (sound /\ data[c] = pos[t] /\ view[t][DataAt(c)] = touched[c] /\ view[t][SeqAt(c)] = Len(stores[c]))
      /\ pc[t] = "d_data" /\ pc' = [pc EXCEPT ![t] = "d_rel"]
      /\ UNCHANGED <<head, tail, stores, data, pos>>
  BY DEF DeqRead, Goto, Touches
<1>2. /\ pc \in [Threads -> Labels] /\ pc' \in [Threads -> Labels]
      /\ pc'[t] = "d_rel" /\ \A u \in Threads : u # t => pc'[u] = pc[u]
      /\ pos \in [Threads -> Nat]
  BY <1>1 DEF TypeOK, Labels
<1>3. \A u \in Threads : (Enqueuing(u)' <=> Enqueuing(u)) /\ (Dequeuing(u)' <=> Dequeuing(u))
  BY <1>1, <1>2 DEF Enqueuing, Dequeuing
<1>4. Dequeuing(t) /\ ~Enqueuing(t)
  BY <1>1 DEF Enqueuing, Dequeuing
<1>5. /\ view' \in [Threads -> Views] /\ touched' \in [Cells -> Nat]
      /\ \A u \in Threads : \A d \in Cells : view'[u][SeqAt(d)] = view[u][SeqAt(d)]
      /\ Knowledge'
  BY <1>1, <1>2, <1>3, <1>4, TouchStep
<1>6. c \in Cells /\ \A p \in Nat : CellOf(p) \in Cells
  BY <1>2, CellFacts
<1>8. data[c] = pos[t] /\ view[t][DataAt(c)] = touched[c] /\ view[t][SeqAt(c)] = Len(stores[c])
  BY <1>1, <1>4 DEF Contents, Informed, Knowledge
<1>9. seq' = seq
  BY <1>1 DEF seq
<1> HIDE DEF c
<1>10. sound' = TRUE
  BY <1>1, <1>8
<1>12. TypeOK'
  BY <1>1, <1>2, <1>5 DEF TypeOK
<1>13. Counters'
  BY <1>1 DEF Counters
<1>14. Owners'
  BY <1>1, <1>3, <1>9 DEF Owners
<1>15. OneOwner'
  BY <1>1, <1>3 DEF OneOwner
<1>16. Taken'
  BY <1>1, <1>3, <1>9 DEF Taken
<1>17. Vacant'
  BY <1>1, <1>3, <1>9 DEF Vacant
<1>18. Contents'
  BY <1>1, <1>2, <1>9 DEF Contents
<1>19. Samples'
  <2> SUFFICES ASSUME NEW u \in Threads, u # t PROVE SampleOf(u)'
    BY <1>2 DEF Samples, SampleOf
  <2>1. SampleOf(u)
    BY DEF Samples, SampleOf
  <2> QED
    BY <1>1, <1>2, <1>5, <1>6, <2>1 DEF SampleOf, KnownSeq
<1> QED
  BY <1>5, <1>10, <1>12, <1>13, <1>14, <1>15, <1>16, <1>17, <1>18, <1>19

(***************************************************************************)
(* The stores that hand a slot over.                                       *)
(***************************************************************************)
(* The release store is the last one, and carries all that its thread knows. *)
StoredLast(t, c, n) ==
  /\ stores' \in [Cells -> Seq([value : Nat, view : Views])]
  /\ Len(stores'[c]) = Len(stores[c]) + 1
  /\ stores'[c][Len(stores[c]) + 1] = [value |-> n, view |-> view'[t]]
  /\ \A i \in 1 .. Len(stores[c]) : stores'[c][i] = stores[c][i]
  /\ \A d \in Cells : d # c => stores'[d] = stores[d]
  /\ view' \in [Threads -> Views]
  /\ view'[t] = [view[t] EXCEPT ![SeqAt(c)] = Len(stores[c]) + 1]
  /\ \A u \in Threads : u # t => view'[u] = view[u]
  /\ seq' = [seq EXCEPT ![c] = n]

LEMMA Released ==
  ASSUME TypeOK, NEW t \in Threads, NEW c \in Cells, NEW n \in Nat, Releases(t, c, n)
  PROVE  StoredLast(t, c, n)
<1> DEFINE known == [view[t] EXCEPT ![SeqAt(c)] = Len(stores[c]) + 1]
           e == [value |-> n, view |-> known]
<1>1. /\ stores' = [stores EXCEPT ![c] = Append(stores[c], e)]
      /\ view' = [view EXCEPT ![t] = known]
  BY DEF Releases, TypeOK
<1>2. Len(stores[c]) \in Nat /\ Len(stores[c]) + 1 \in Nat
  BY LastStore
<1>3. view[t] \in Views /\ view \in [Threads -> Views] /\ SeqAt(c) \in Locations
  BY Places DEF TypeOK
<1>4. known \in Views
  BY <1>2, <1>3, LearnType
<1>5. /\ stores \in [Cells -> Seq([value : Nat, view : Views])]
      /\ stores[c] \in Seq([value : Nat, view : Views])
  BY DEF TypeOK
<1>6. view' \in [Threads -> Views] /\ view'[t] = known /\ \A u \in Threads : u # t => view'[u] = view[u]
  <2> HIDE DEF known
  <2> QED
    BY <1>1, <1>3, <1>4
<1> HIDE DEF known
<1>7. e \in [value : Nat, view : Views]
  BY <1>4
<1> HIDE DEF e
<1>8. /\ Append(stores[c], e) \in Seq([value : Nat, view : Views])
      /\ Len(Append(stores[c], e)) = Len(stores[c]) + 1
      /\ Append(stores[c], e)[Len(stores[c]) + 1] = e
      /\ \A i \in 1 .. Len(stores[c]) : Append(stores[c], e)[i] = stores[c][i]
  BY <1>5, <1>7
<1>9. stores'[c] = Append(stores[c], e) /\ \A d \in Cells : d # c => stores'[d] = stores[d]
  BY <1>1, <1>5
<1>10. stores' \in [Cells -> Seq([value : Nat, view : Views])]
  BY <1>1, <1>5, <1>8
<1>11. seq' = [seq EXCEPT ![c] = n]
  <2>1. stores'[c][Len(stores'[c])].value = n
    BY <1>8, <1>9 DEF e
  <2> QED
    BY <1>9, <2>1 DEF seq
<1> QED
  BY <1>6, <1>8, <1>9, <1>10, <1>11 DEF StoredLast, e, known
(* The store keeps what is known of the cells: it carries the access that its
   thread has just made.                                                    *)
LEMMA ReleaseStep ==
  ASSUME TypeOK, Protocol, Knowledge, NEW t \in Threads, pc[t] \in {"e_pub", "d_rel"},
         NEW c \in Cells, c = CellOf(pos[t]), NEW n \in Nat, seq[c] < n, n <= MaxClaims + Capacity,
         Releases(t, c, n), pc' = [pc EXCEPT ![t] = "idle"], UNCHANGED <<touched, pos>>
  PROVE  Knowledge'
<1> USE DEF Knowledge
<1> DEFINE m == Len(stores[c])
           k == m + 1
           known == view'[t]
<1>0. StoredLast(t, c, n)
  BY Released
<1>1. /\ stores' \in [Cells -> Seq([value : Nat, view : Views])]
      /\ Len(stores'[c]) = k
      /\ stores'[c][k] = [value |-> n, view |-> known]
      /\ \A i \in 1 .. m : stores'[c][i] = stores[c][i]
      /\ \A d \in Cells : d # c => stores'[d] = stores[d]
      /\ view' \in [Threads -> Views]
      /\ known = [view[t] EXCEPT ![SeqAt(c)] = k]
      /\ \A u \in Threads : u # t => view'[u] = view[u]
  BY <1>0 DEF StoredLast
<1>2. /\ m \in Nat /\ m >= 1 /\ k \in Nat /\ k = m + 1
      /\ view[t] \in Views /\ SeqAt(c) \in Locations
      /\ pos \in [Threads -> Nat] /\ \A p \in Nat : CellOf(p) \in Cells
      /\ touched \in [Cells -> Nat]
  <2>1. m \in Nat /\ m >= 1
    BY LastStore
  <2>2. k \in Nat
    BY <2>1
  <2>3. view[t] \in Views /\ pos \in [Threads -> Nat] /\ touched \in [Cells -> Nat]
    BY DEF TypeOK
  <2> QED
    BY <2>1, <2>2, <2>3, Places, CellFacts
<1>a. stores'[c][k].value = n /\ stores'[c][k].view = known
  <2> HIDE DEF m, k, known
  <2> QED
    BY <1>1
<1>3. /\ known \in Views /\ known[SeqAt(c)] = k
      /\ \A l \in Locations : l # SeqAt(c) => known[l] = view[t][l]
  <2>1. known = [view[t] EXCEPT ![SeqAt(c)] = k] /\ k \in Nat /\ view[t] \in Views /\ SeqAt(c) \in Locations
    BY <1>1, <1>2
  <2> HIDE DEF m, k, known
  <2> QED
    BY <2>1 DEF Views
<1>4. view[t][SeqAt(c)] = m /\ view[t][DataAt(c)] = touched[c]
  BY DEF Informed, Enqueuing, Dequeuing
<1>5. seq[c] = stores[c][m].value
  BY DEF seq
<1>6. \A u \in Threads : u # t /\ (Enqueuing(u) \/ Dequeuing(u)) => CellOf(pos[u]) # c
  BY OwnersApart DEF Enqueuing, Dequeuing
<1>7. \A u \in Threads : /\ u # t => pc'[u] = pc[u]
                         /\ pc'[t] = "idle"
  BY DEF TypeOK
<1> HIDE DEF m, k, known
<1>8. known[DataAt(c)] = touched[c]
  BY <1>3, <1>4, Places
<1>9. Growing'
  <2> SUFFICES ASSUME NEW d \in Cells
               PROVE  /\ \A i, j \in 1 .. Len(stores'[d]) : i < j => stores'[d][i].value < stores'[d][j].value
                      /\ \A i \in 1 .. Len(stores'[d]) : stores'[d][i].value <= MaxClaims + Capacity
    BY DEF Growing
  <2>1. CASE d # c
    BY <1>1, <2>1 DEF Growing
  <2>2. CASE d = c
    <3>1. ASSUME NEW i \in 1 .. m PROVE stores'[c][i].value < n
      <4>1. stores[c][i].value <= seq[c] /\ stores[c][i].value \in Nat /\ seq[c] \in Nat
        BY KnowsLast, StoreType, SeqType DEF m
      <4> QED
        BY <1>1, <4>1
    <3>2. ASSUME NEW i \in 1 .. k, NEW j \in 1 .. k, i < j
          PROVE  stores'[c][i].value < stores'[c][j].value
      <4>1. CASE j = k
        <5>1. i \in 1 .. m
          BY <1>2, <3>2, <4>1
        <5> QED
          BY <1>a, <3>1, <4>1, <5>1
      <4>2. CASE j # k
        <5>1. i \in 1 .. m /\ j \in 1 .. m
          BY <1>2, <3>2, <4>2
        <5> QED
          BY <1>1, <3>2, <5>1 DEF Growing, m
      <4> QED
        BY <4>1, <4>2
    <3>3. ASSUME NEW i \in 1 .. k
          PROVE  stores'[c][i].value <= MaxClaims + Capacity
      <4>1. CASE i = k
        BY <1>a, <4>1
      <4>2. CASE i # k
        <5>1. i \in 1 .. m
          BY <1>2, <4>2
        <5> QED
          BY <1>1, <5>1 DEF Growing, m
      <4> QED
        BY <4>1, <4>2
    <3> QED
      BY <1>1, <2>2, <3>2, <3>3
  <2> QED
    BY <2>1, <2>2
<1>10. ASSUME NEW v \in Views, Within(v) PROVE Within(v)'
  <2> SUFFICES ASSUME NEW d \in Cells
               PROVE  /\ v[SeqAt(d)] <= Len(stores'[d])
                      /\ v[DataAt(d)] <= touched[d]
                      /\ v[SeqAt(d)] >= 1 => stores'[d][v[SeqAt(d)]].view[DataAt(d)] <= v[DataAt(d)]
    BY DEF Within
  <2>1. CASE d # c
    BY <1>1, <1>10, <2>1 DEF Within
  <2>2. CASE d = c
    <3>1. /\ v[SeqAt(c)] <= m /\ v[SeqAt(c)] \in Nat
          /\ v[DataAt(c)] <= touched[c]
          /\ v[SeqAt(c)] >= 1 => stores[c][v[SeqAt(c)]].view[DataAt(c)] <= v[DataAt(c)]
      BY <1>10, <1>2 DEF Within, Views, m
    <3>2. v[SeqAt(c)] <= k
      BY <1>2, <3>1
    <3>3. v[SeqAt(c)] >= 1 => v[SeqAt(c)] \in 1 .. m
      BY <1>2, <3>1
    <3> QED
      BY <1>1, <2>2, <3>1, <3>2, <3>3
  <2> QED
    BY <2>1, <2>2
<1>11. Within(view[t]) /\ \A d \in Cells : view[t][SeqAt(d)] >= 1
  BY DEF Coherent
<1>12. Within(view[t])'
  <2> SUFFICES ASSUME NEW d \in Cells
               PROVE  /\ known[SeqAt(d)] <= Len(stores'[d])
                      /\ known[DataAt(d)] <= touched[d]
                      /\ known[SeqAt(d)] >= 1 => stores'[d][known[SeqAt(d)]].view[DataAt(d)] <= known[DataAt(d)]
    BY <1>1 DEF Within, known
  <2>1. CASE d # c
    <3>1. known[SeqAt(d)] = view[t][SeqAt(d)] /\ known[DataAt(d)] = view[t][DataAt(d)]
      BY <1>3, <2>1, Places
    <3> QED
      BY <1>1, <1>11, <2>1, <3>1 DEF Within
  <2>2. CASE d = c
    <3>1. stores'[c][known[SeqAt(c)]].view[DataAt(c)] = known[DataAt(c)]
      BY <1>3, <1>a
    <3>2. touched[c] \in Nat /\ k <= k
      BY <1>2
    <3>3. known[DataAt(c)] <= touched[c] /\ known[SeqAt(c)] <= Len(stores'[c])
      BY <1>1, <1>3, <1>8, <3>2
    <3>4. stores'[c][known[SeqAt(c)]].view[DataAt(c)] <= known[DataAt(c)]
      BY <1>8, <3>1, <3>2
    <3> QED
      BY <2>2, <3>3, <3>4
  <2> QED
    BY <2>1, <2>2
<1>13. Coherent'
  <2>1. ASSUME NEW u \in Threads
        PROVE  Within(view[u])' /\ \A d \in Cells : view'[u][SeqAt(d)] >= 1
    <3>1. CASE u = t
      <4>1. \A d \in Cells : known[SeqAt(d)] >= 1
        BY <1>2, <1>3, <1>11, Places
      <4> QED
        BY <1>12, <3>1, <4>1 DEF Within, known
    <3>2. CASE u # t
      <4>1. view[u] \in Views /\ Within(view[u]) /\ \A d \in Cells : view[u][SeqAt(d)] >= 1
        BY DEF Coherent, TypeOK
      <4> QED
        BY <1>1, <1>10, <3>2, <4>1 DEF Within
    <3> QED
      BY <3>1, <3>2
  <2>2. ASSUME NEW d \in Cells, NEW i \in 1 .. Len(stores'[d])
        PROVE  Within(stores[d][i].view)' /\ stores'[d][i].view[SeqAt(d)] <= i
    <3>1. CASE d = c /\ i = k
      <4>1. stores'[d][i].view = view'[t]
        BY <1>a, <3>1 DEF known
      <4>2. Within(stores[d][i].view)'
        BY <1>12, <4>1 DEF Within
      <4>3. stores'[d][i].view[SeqAt(d)] = k
        BY <1>3, <1>a, <3>1
      <4>4. k <= i
        BY <1>2, <3>1
      <4> QED
        BY <4>2, <4>3, <4>4
    <3>2. CASE d # c \/ i # k
      <4>1. stores'[d][i] = stores[d][i] /\ i \in 1 .. Len(stores[d])
        <5>1. CASE d # c
          BY <1>1, <5>1
        <5>2. CASE d = c
          <6>1. i \in 1 .. k /\ i # k
            BY <1>1, <3>2, <5>2
          <6>2. i \in 1 .. m
            BY <1>2, <6>1
          <6> QED
            BY <1>1, <5>2, <6>2 DEF m
        <5> QED
          BY <5>1, <5>2
      <4>2. stores[d][i].view \in Views /\ Within(stores[d][i].view) /\ stores[d][i].view[SeqAt(d)] <= i
        BY <4>1, StoreType DEF Coherent
      <4> QED
        BY <1>10, <4>1, <4>2 DEF Within
    <3> QED
      BY <3>1, <3>2
  <2> QED
    BY <2>1, <2>2 DEF Coherent
<1>14. Informed'
  <2> SUFFICES ASSUME NEW u \in Threads, Enqueuing(u)' \/ Dequeuing(u)'
               PROVE  /\ view'[u][SeqAt(CellOf(pos[u]))] = Len(stores'[CellOf(pos[u])])
                      /\ view'[u][DataAt(CellOf(pos[u]))] = touched[CellOf(pos[u])]
    BY DEF Informed
  <2>1. u # t /\ (Enqueuing(u) \/ Dequeuing(u))
    BY <1>7 DEF Enqueuing, Dequeuing
  <2>2. CellOf(pos[u]) # c /\ CellOf(pos[u]) \in Cells
    BY <1>2, <1>6, <2>1
  <2>3. /\ view[u][SeqAt(CellOf(pos[u]))] = Len(stores[CellOf(pos[u])])
        /\ view[u][DataAt(CellOf(pos[u]))] = touched[CellOf(pos[u])]
    BY <2>1 DEF Informed
  <2>4. view'[u] = view[u] /\ stores'[CellOf(pos[u])] = stores[CellOf(pos[u])]
    BY <1>1, <2>1, <2>2
  <2> QED
    BY <2>3, <2>4
<1>15. Carried'
  <2> SUFFICES ASSUME NEW d \in Cells
               PROVE  \/ stores'[d][Len(stores'[d])].view[DataAt(d)] = touched[d]
                      \/ \E u \in Threads : pc'[u] \in {"e_pub", "d_rel"} /\ CellOf(pos[u]) = d
    BY DEF Carried
  <2>1. CASE d = c
    BY <1>1, <1>8, <1>a, <2>1
  <2>2. CASE d # c
    <3>1. \A u \in Threads : CellOf(pos[u]) = d => pc'[u] = pc[u]
      BY <1>7, <2>2
    <3> QED
      BY <1>1, <2>2, <3>1 DEF Carried
  <2> QED
    BY <2>1, <2>2
<1> QED
  BY <1>9, <1>13, <1>14, <1>15
(* The types after a release store. *)
LEMMA ReleasedType ==
  ASSUME TypeOK, NEW t \in Threads, NEW c \in Cells, NEW n, StoredLast(t, c, n),
         pc' \in [Threads -> Labels], UNCHANGED <<head, tail, data, touched, pos>>
  PROVE  TypeOK'
<1>1. \A d \in Cells : Len(stores'[d]) >= 1
  <2> SUFFICES ASSUME NEW d \in Cells PROVE Len(stores'[d]) >= 1
    OBVIOUS
  <2>1. CASE d = c
    BY <2>1, LastStore DEF StoredLast
  <2>2. CASE d # c
    BY <2>2 DEF StoredLast, TypeOK
  <2> QED
    BY <2>1, <2>2
<1> QED
  BY <1>1 DEF StoredLast, TypeOK

(* What the other threads have sampled stands. *)
LEMMA SamplesKept ==
  ASSUME TypeOK, Samples, Coherent, NEW t \in Threads, NEW c \in Cells, NEW n, StoredLast(t, c, n),
         pc'[t] = "idle", \A u \in Threads : u # t => pc'[u] = pc[u],
         UNCHANGED <<head, tail, pos>>
  PROVE  Samples'
<1> SUFFICES ASSUME NEW u \in Threads, u # t PROVE SampleOf(u)'
  BY DEF Samples, SampleOf
<1>1. SampleOf(u) /\ view'[u] = view[u] /\ pos[u] \in Nat
  BY DEF Samples, SampleOf, StoredLast, TypeOK
<1>2. ASSUME NEW d \in Cells PROVE stores'[d][view[u][SeqAt(d)]] = stores[d][view[u][SeqAt(d)]]
  <2>1. CASE d = c
    <3>1. view[u][SeqAt(c)] \in 1 .. Len(stores[c])
      BY Places, LastStore DEF TypeOK, Coherent, Within, Views
    <3> QED
      BY <2>1, <3>1 DEF StoredLast
  <2>2. CASE d # c
    BY <2>2 DEF StoredLast
  <2> QED
    BY <2>1, <2>2
<1>3. CellOf(pos[u]) \in Cells
  BY <1>1, CellFacts
<1> QED
  BY <1>1, <1>2, <1>3 DEF SampleOf, KnownSeq

LEMMA EnqPublishStep ==
  ASSUME RInv, NEW t \in Threads, EnqPublish(t)
  PROVE  RInv'
<1> USE RelaxedAssumption DEF RInv, Protocol
<1> DEFINE c == CellOf(pos[t])
<1>0. Coherent
  BY DEF Knowledge
<1>1. /\ Releases(t, c, pos[t] + 1)
      /\ pc[t] = "e_pub" /\ pc' = [pc EXCEPT ![t] = "idle"]
      /\ UNCHANGED <<head, tail, data, touched, pos, sound>>
  BY DEF EnqPublish, Goto
<1>2. /\ pc \in [Threads -> Labels] /\ pc' \in [Threads -> Labels]
      /\ pc'[t] = "idle" /\ \A u \in Threads : u # t => pc'[u] = pc[u]
      /\ pos \in [Threads -> Nat] /\ head \in Nat /\ tail \in Nat
  BY <1>1 DEF TypeOK, Labels
<1>3. /\ \A u \in Threads : u # t => (Enqueuing(u)' <=> Enqueuing(u)) /\ (Dequeuing(u)' <=> Dequeuing(u))
      /\ Enqueuing(t) /\ ~Dequeuing(t) /\ ~Enqueuing(t)' /\ ~Dequeuing(t)'
  BY <1>1, <1>2 DEF Enqueuing, Dequeuing
<1>4. c \in Cells /\ \A p \in Nat : CellOf(p) \in Cells
  BY <1>2, CellFacts
<1>5. tail <= pos[t] /\ pos[t] < head /\ seq[c] = pos[t] /\ data[c] = pos[t]
  BY <1>1, <1>3 DEF Owners, Contents
<1>6. \A u \in Threads : u # t /\ (Enqueuing(u) \/ Dequeuing(u)) => CellOf(pos[u]) # c
  BY <1>3, OwnersApart
<1>7. \A p \in Nat : p # pos[t] /\ p < pos[t] + Capacity /\ pos[t] < p + Capacity => CellOf(p) # c
  BY <1>2, CellFacts
<1> HIDE DEF c
<1> DEFINE n == pos[t] + 1
<1>8. n \in Nat /\ seq[c] < n /\ n <= MaxClaims + Capacity
  BY <1>2, <1>5 DEF Counters
<1>9. Releases(t, c, n)
  BY <1>1
<1> HIDE DEF n
<1>10. Knowledge'
  BY <1>1, <1>4, <1>8, <1>9, ReleaseStep DEF c
<1>11. StoredLast(t, c, n)
  BY <1>4, <1>8, <1>9, Released
<1>12. seq' = [seq EXCEPT ![c] = n] /\ seq \in [Cells -> Nat]
  BY <1>11, SeqType DEF StoredLast
<1>13. \A d \in Cells : seq'[d] = IF d = c THEN pos[t] + 1 ELSE seq[d]
  BY <1>4, <1>12 DEF n
<1>14. TypeOK'
  BY <1>1, <1>2, <1>4, <1>11, ReleasedType
<1>15. Counters'
  BY <1>1 DEF Counters
<1>16. Owners'
  BY <1>1, <1>2, <1>3, <1>4, <1>6, <1>13 DEF Owners
<1>17. OneOwner'
  BY <1>1, <1>3 DEF OneOwner
<1>18. Taken'
  <2> SUFFICES ASSUME NEW p \in tail .. head - 1
               PROVE  \/ seq'[CellOf(p)] = p + 1
                      \/ seq'[CellOf(p)] = p /\ \E u \in Threads : Enqueuing(u)' /\ pos'[u] = p
    BY <1>1 DEF Taken
  <2>1. CASE p = pos[t]
    BY <1>4, <1>13, <2>1 DEF c
  <2>2. CASE p # pos[t]
    <3>1. p \in Nat /\ CellOf(p) # c
      BY <1>2, <1>5, <1>7, <2>2 DEF Counters
    <3> QED
      BY <1>1, <1>3, <1>4, <1>13, <2>2, <3>1 DEF Taken
  <2> QED
    BY <2>1, <2>2
<1>19. Vacant'
  <2> SUFFICES ASSUME NEW p \in head .. tail + Capacity - 1
               PROVE  \/ seq'[CellOf(p)] = p
                      \/ /\ seq'[CellOf(p)] = p + 1 - Capacity
                         /\ \E u \in Threads : Dequeuing(u)' /\ pos'[u] = p - Capacity
    BY <1>1 DEF Vacant
  <2>1. p \in Nat /\ CellOf(p) # c
    BY <1>2, <1>5, <1>7
  <2> QED
    BY <1>1, <1>3, <1>4, <1>13, <2>1 DEF Vacant
<1>20. Contents'
  <2>1. ASSUME NEW p \in tail .. head - 1, seq'[CellOf(p)] = p + 1
        PROVE  data[CellOf(p)] = p
    <3>1. CASE p = pos[t]
      BY <1>5, <3>1 DEF c
    <3>2. CASE p # pos[t]
      <4>1. p \in Nat /\ CellOf(p) # c
        BY <1>2, <1>5, <1>7, <3>2 DEF Counters
      <4> QED
        BY <1>4, <1>13, <2>1, <4>1 DEF Contents
    <3> QED
      BY <3>1, <3>2
  <2> QED
    BY <1>1, <1>2, <2>1 DEF Contents
<1>21. Samples'
  BY <1>0, <1>1, <1>2, <1>4, <1>11, SamplesKept
<1> QED
  BY <1>1, <1>10, <1>14, <1>15, <1>16, <1>17, <1>18, <1>19, <1>20, <1>21

LEMMA DeqReleaseStep ==
  ASSUME RInv, NEW t \in Threads, DeqRelease(t)
  PROVE  RInv'
<1> USE RelaxedAssumption DEF RInv, Protocol
<1> DEFINE c == CellOf(pos[t])
<1>0. Coherent
  BY DEF Knowledge
<1>1. /\ Releases(t, c, pos[t] + Capacity)
      /\ pc[t] = "d_rel" /\ pc' = [pc EXCEPT ![t] = "idle"]
      /\ UNCHANGED <<head, tail, data, touched, pos, sound>>
  BY DEF DeqRelease, Goto
<1>2. /\ pc \in [Threads -> Labels] /\ pc' \in [Threads -> Labels]
      /\ pc'[t] = "idle" /\ \A u \in Threads : u # t => pc'[u] = pc[u]
      /\ pos \in [Threads -> Nat] /\ head \in Nat /\ tail \in Nat
  BY <1>1 DEF TypeOK, Labels
<1>3. /\ \A u \in Threads : u # t => (Enqueuing(u)' <=> Enqueuing(u)) /\ (Dequeuing(u)' <=> Dequeuing(u))
      /\ ~Enqueuing(t) /\ Dequeuing(t) /\ ~Enqueuing(t)' /\ ~Dequeuing(t)'
  BY <1>1, <1>2 DEF Enqueuing, Dequeuing
<1>4. c \in Cells /\ (\A p \in Nat : CellOf(p) \in Cells) /\ CellOf(pos[t] + Capacity) = c
  BY <1>2, CellFacts
<1>5. pos[t] < tail /\ head <= pos[t] + Capacity /\ seq[c] = pos[t] + 1
  BY <1>1, <1>3 DEF Owners
<1>6. \A u \in Threads : u # t /\ (Enqueuing(u) \/ Dequeuing(u)) => CellOf(pos[u]) # c
  BY <1>3, OwnersApart
<1>7. \A p \in Nat : p # pos[t] /\ p < pos[t] + Capacity /\ pos[t] < p + Capacity => CellOf(p) # c
  BY <1>2, CellFacts
<1> HIDE DEF c
<1>8. \A p \in Nat : p # pos[t] + Capacity /\ p < pos[t] + Capacity + Capacity /\ pos[t] < p => CellOf(p) # c
  <2> DEFINE r == pos[t] + Capacity
  <2>1. r \in Nat /\ CellOf(r) = c
    BY <1>2, <1>4
  <2> HIDE DEF r
  <2>2. \A p \in Nat : p # r /\ p < r + Capacity /\ r < p + Capacity => CellOf(p) # c
    BY <2>1, CellFacts
  <2> QED
    BY <1>2, <2>2 DEF r
<1> DEFINE n == pos[t] + Capacity
<1>9. n \in Nat /\ seq[c] < n /\ n <= MaxClaims + Capacity
  BY <1>2, <1>5 DEF Counters
<1>10. Releases(t, c, n)
  BY <1>1
<1> HIDE DEF n
<1>11. Knowledge'
  BY <1>1, <1>4, <1>9, <1>10, ReleaseStep DEF c
<1>12. StoredLast(t, c, n)
  BY <1>4, <1>9, <1>10, Released
<1>13. seq' = [seq EXCEPT ![c] = n] /\ seq \in [Cells -> Nat]
  BY <1>12, SeqType DEF StoredLast
<1>14. \A d \in Cells : seq'[d] = IF d = c THEN pos[t] + Capacity ELSE seq[d]
  BY <1>4, <1>13 DEF n
<1>15. TypeOK'
  BY <1>1, <1>2, <1>4, <1>12, ReleasedType
<1>16. Counters'
  BY <1>1 DEF Counters
<1>17. Owners'
  BY <1>1, <1>2, <1>3, <1>4, <1>6, <1>14 DEF Owners
<1>18. OneOwner'
  BY <1>1, <1>3 DEF OneOwner
<1>19. \A p \in tail .. head - 1 : p \in Nat /\ CellOf(p) # c /\ seq'[CellOf(p)] = seq[CellOf(p)]
  <2> SUFFICES ASSUME NEW p \in tail .. head - 1 PROVE p \in Nat /\ CellOf(p) # c
    BY <1>4, <1>14
  <2> QED
    BY <1>2, <1>5, <1>7
<1>20. Taken'
  BY <1>1, <1>3, <1>19 DEF Taken
<1>21. Vacant'
  <2> SUFFICES ASSUME NEW p \in head .. tail + Capacity - 1
               PROVE  \/ seq'[CellOf(p)] = p
                      \/ /\ seq'[CellOf(p)] = p + 1 - Capacity
                         /\ \E u \in Threads : Dequeuing(u)' /\ pos'[u] = p - Capacity
    BY <1>1 DEF Vacant
  <2>1. CASE p = pos[t] + Capacity
    BY <1>4, <1>14, <2>1
  <2>2. CASE p # pos[t] + Capacity
    <3>1. p \in Nat /\ CellOf(p) # c
      <4>1. p \in Nat /\ pos[t] < p /\ p < pos[t] + Capacity + Capacity
        BY <1>2, <1>5 DEF Counters
      <4> QED
        BY <1>8, <2>2, <4>1
    <3>2. pos[t] # p - Capacity
      BY <1>2, <2>2
    <3> QED
      BY <1>1, <1>3, <1>4, <1>14, <3>1, <3>2 DEF Vacant
  <2> QED
    BY <2>1, <2>2
<1>22. Contents'
  BY <1>1, <1>2, <1>19 DEF Contents
<1>23. Samples'
  BY <1>0, <1>1, <1>2, <1>4, <1>12, SamplesKept
<1> QED
  BY <1>1, <1>11, <1>15, <1>16, <1>17, <1>18, <1>20, <1>21, <1>22, <1>23
(***************************************************************************)
(* The theorems.                                                           *)
(***************************************************************************)
LEMMA Initially == Init => RInv
<1> SUFFICES ASSUME Init PROVE RInv
  OBVIOUS
<1> USE RelaxedAssumption DEF Init
<1> DEFINE first(c) == [value |-> c, view |-> Nothing]
<1>1. ASSUME NEW c \in Cells
      PROVE  /\ stores[c] = <<first(c)>> /\ Len(stores[c]) = 1
             /\ stores[c][1].value = c /\ stores[c][1].view = Nothing
             /\ c \in Nat /\ c < Capacity
  BY DEF Cells
<1>2. Nothing \in Views /\ \A l \in Locations : Nothing[l] = 0
  BY DEF Nothing, Views
<1>3. stores \in [Cells -> Seq([value : Nat, view : Views])]
  <2> SUFFICES ASSUME NEW c \in Cells PROVE <<first(c)>> \in Seq([value : Nat, view : Views])
    OBVIOUS
  <2>1. first(c) \in [value : Nat, view : Views]
    BY <1>1, <1>2
  <2> HIDE DEF first
  <2> QED
    BY <2>1
<1>4. ASSUME NEW t \in Threads
      PROVE  /\ view[t] \in Views
             /\ \A c \in Cells : view[t][SeqAt(c)] = 1 /\ view[t][DataAt(c)] = 0
  BY Places DEF Views
<1> HIDE DEF first
<1>5. seq \in [Cells -> Nat] /\ \A c \in Cells : seq[c] = c
  BY <1>1 DEF seq
<1>6. TypeOK
  <2>1. view \in [Threads -> Views]
    BY <1>4
  <2>2. \A c \in Cells : Len(stores[c]) >= 1
    BY <1>1
  <2> QED
    BY <1>3, <2>1, <2>2 DEF TypeOK, Labels
<1>7. Vacant
  <2> SUFFICES ASSUME NEW p \in 0 .. Capacity - 1 PROVE seq[CellOf(p)] = p
    BY DEF Vacant
  <2>1. /\ p \in Cells /\ p \in Int /\ 0 <= p /\ p < Capacity
        /\ Capacity \in Nat \ {0} /\ WordSize \in Nat \ {0} /\ Capacity < WordSize
    BY DEF Cells
  <2>2. p % WordSize = p
    BY ONLY <2>1
  <2>3. p % Capacity = p
    BY ONLY <2>1
  <2>4. CellOf(p) = p
    BY <2>2, <2>3 DEF CellOf
  <2> QED
    BY <1>5, <2>1, <2>4
<1>8. Counters /\ Owners /\ OneOwner /\ Taken /\ Contents /\ Samples
  BY DEF Counters, Owners, OneOwner, Taken, Contents, Samples, Enqueuing, Dequeuing
<1>9. Growing
  BY <1>1 DEF Growing
<1>10. Coherent
  <2>1. Within(Nothing)
    BY <1>1, <1>2, Places DEF Within
  <2>2. ASSUME NEW t \in Threads PROVE Within(view[t])
    BY <1>1, <1>2, <1>4, Places DEF Within
  <2>3. ASSUME NEW c \in Cells, NEW i \in 1 .. Len(stores[c])
        PROVE  Within(stores[c][i].view) /\ stores[c][i].view[SeqAt(c)] <= i
    <3>1. i = 1
      BY <1>1
    <3> QED
      BY <1>1, <1>2, <2>1, <3>1, Places
  <2>4. ASSUME NEW t \in Threads, NEW c \in Cells PROVE view[t][SeqAt(c)] >= 1
    BY <1>4
  <2> QED
    BY <2>2, <2>3, <2>4 DEF Coherent
<1>11. Informed
  BY DEF Informed, Enqueuing, Dequeuing
<1>12. Carried
  BY <1>1, <1>2, Places DEF Carried
<1> QED
  BY <1>6, <1>7, <1>8, <1>9, <1>10, <1>11, <1>12 DEF RInv, Protocol, Knowledge

(* Every step of every thread preserves the invariant. *)
LEMMA Inductive == RInv /\ [Next]_vars => RInv'
<1> SUFFICES ASSUME RInv, [Next]_vars PROVE RInv'
  OBVIOUS
<1>1. CASE UNCHANGED vars
  <2>1. UNCHANGED <<head, tail, stores, data, touched, view, pc, pos, sound>>
    BY <1>1 DEF vars
  <2>2. TypeOK'
    BY <2>1 DEF RInv, TypeOK
  <2>a. seq' = seq
    BY <2>1 DEF seq
  <2>b. \A u \in Threads : (Enqueuing(u)' <=> Enqueuing(u)) /\ (Dequeuing(u)' <=> Dequeuing(u))
    BY <2>1 DEF Enqueuing, Dequeuing
  <2>3. Protocol'
    <3>1. Counters' /\ Owners' /\ OneOwner'
      BY <2>1, <2>a, <2>b DEF RInv, Protocol, Counters, Owners, OneOwner
    <3>2. Taken' /\ Vacant'
      BY <2>1, <2>a, <2>b DEF RInv, Protocol, Taken, Vacant
    <3>3. Contents'
      BY <2>1, <2>a DEF RInv, Protocol, Contents
    <3>4. Samples'
      BY <2>1 DEF RInv, Protocol, Samples, KnownSeq
    <3> QED
      BY <3>1, <3>2, <3>3, <3>4 DEF Protocol
  <2>4. Knowledge'
    <3>1. Coherent'
      BY <2>1, CoherentStays DEF RInv, Knowledge
    <3> QED
      BY <2>1, <3>1 DEF RInv, Knowledge, Growing, Informed, Carried, Enqueuing, Dequeuing
  <2> QED
    BY <2>1, <2>2, <2>3, <2>4 DEF RInv
<1>2. ASSUME NEW t \in Producers, Producing(t) PROVE RInv'
  <2>1. t \in Threads
    BY DEF Threads
  <2> QED
    BY <1>2, <2>1, LoadActions, EnqSeqStep, EnqClaimStep, EnqWriteStep, EnqPublishStep DEF Producing
<1>3. ASSUME NEW t \in Consumers, Consuming(t) PROVE RInv'
  <2>1. t \in Threads
    BY DEF Threads
  <2> QED
    BY <1>3, <2>1, LoadActions, DeqSeqStep, DeqClaimStep, DeqReadStep, DeqReleaseStep DEF Consuming
<1>4. ASSUME NEW t \in Monitors, Sizing(t) PROVE RInv'
  <2>1. t \in Threads
    BY DEF Threads
  <2> QED
    BY <1>4, <2>1, LoadActions DEF Sizing
<1>5. ASSUME NEW t \in Threads, NEW u \in Threads, Hears(t, u) PROVE RInv'
  BY <1>5, HearsStep
<1> QED
  BY <1>1, <1>2, <1>3, <1>4, <1>5 DEF Next

LEMMA RelaxedInvariant == Spec => []RInv
  BY Initially, Inductive, PTL DEF Spec

(* The memory orders of dv_queue.c are enough: no plain access to cell->data
   (dv_queue.c:68, 100) races with another, no two threads store the same
   cell's sequence unordered, and a dequeue reads the item of the position it
   claimed, whatever older values the relaxed loads return.                 *)
THEOREM OrdersSuffice == Spec => []RaceFree
<1>1. RInv => RaceFree
  BY DEF RInv, RaceFree
<1> QED
  BY <1>1, RelaxedInvariant, PTL
(* What a thread knows without a gap ends at any position it does not know of. *)
LEMMA PrefixBound ==
  ASSUME NEW known, NEW q \in Positions, q \notin known
  PROVE  Prefix(known) \in 0 .. q
<1> DEFINE N == MaxClaims + Capacity + 1
           T == {n \in 0 .. N : n \notin known}
           g == Prefix(known)
<1>1. N \in Nat /\ T \subseteq Nat /\ T # {} /\ q \in T
  BY RelaxedAssumption DEF Positions
<1>2. PICK m \in T : \A k \in T : m <= k
  <2> HIDE DEF T
  <2> QED
    BY <1>1, LeastNat
<1>3. m \in 0 .. N /\ m \notin known /\ \A p \in 0 .. m - 1 : p \in known
  BY <1>1, <1>2
<1>4. g \in 0 .. N /\ g \notin known /\ \A p \in 0 .. g - 1 : p \in known
  BY <1>3 DEF Prefix, Positions
<1> HIDE DEF g
<1>5. ~(q < g)
  BY <1>1, <1>4
<1> QED
  BY <1>1, <1>4, <1>5 DEF g

(* Words that compare as not yet there are behind. *)
LEMMA BehindIs ==
  ASSUME NEW a \in Nat, NEW b \in Nat, a <= MaxClaims + 1, b <= MaxClaims + Capacity, Behind(a, b)
  PROVE  b < a
<1> USE RelaxedAssumption
<1> DEFINE d == a - b
<1>1. WordSize \in Nat \ {0} /\ d \in Int /\ -WordSize < d /\ d < WordSize
  OBVIOUS
<1>2. /\ d % WordSize # 0 /\ d % WordSize <= Capacity
      /\ d > -(WordSize - Capacity)
  BY DEF Behind, Matches
<1> HIDE DEF d
<1>3. d % WordSize = IF d >= 0 THEN d ELSE d + WordSize
  BY ONLY <1>1, ModOfSmall
<1>4. d > 0
  BY <1>1, <1>2, <1>3
<1> QED
  BY <1>4 DEF d

(* An enqueue that gives up has found a store at its position that leaves the
   slot taken, and still knows of it afterwards.                            *)
LEMMA EnqGivesUp ==
  ASSUME RInv, NEW t \in Threads, EnqSeq(t), pc'[t] = "idle"
  PROVE  KnownFree(t)' <= head
<1> USE RelaxedAssumption DEF RInv, Protocol, Knowledge
<1> DEFINE c == CellOf(pos[t])
<1>1. PICK i \in view[t][SeqAt(c)] .. Len(stores[c]) :
        Acquires(t, c, i) /\ Verdict(t, pos[t], stores[c][i].value, "e_cas", "e_load")
  BY DEF EnqSeq
<1>2. UNCHANGED <<stores, touched, pos, head>> /\ pc[t] = "e_seq"
  BY DEF EnqSeq
<1>3. c \in Cells /\ pos[t] \in Nat /\ pos[t] <= head /\ head \in Nat /\ head <= MaxClaims
  BY <1>2, CellFacts DEF TypeOK, Samples, Counters
<1> HIDE DEF c
<1>4. view'[t][SeqAt(c)] = i /\ i \in 1 .. Len(stores[c])
  BY <1>1, <1>2, <1>3, AcquireStep
<1>5. Behind(pos[t], stores[c][i].value)
  BY <1>1 DEF Verdict, Goto, TypeOK
<1>6. stores[c][i].value < pos[t]
  <2>1. stores[c][i].value \in Nat /\ stores[c][i].value <= MaxClaims + Capacity
    BY <1>3, <1>4, StoreType DEF Growing
  <2> QED
    BY <1>3, <1>5, <2>1, BehindIs
<1> DEFINE known == {p \in Positions : stores'[CellOf(p)][view'[t][SeqAt(CellOf(p))]].value >= p}
<1>7. KnownFree(t)' = Prefix(known)
  BY DEF KnownFree, KnownSeq
<1>8. pos[t] \in Positions
  BY <1>3 DEF Positions
<1>9. stores'[c][view'[t][SeqAt(c)]].value = stores[c][i].value
  BY <1>2, <1>4
<1>10. pos[t] \notin known
  <2>1. stores[c][i].value \in Nat
    BY <1>3, <1>4, StoreType
  <2>2. ~(stores'[c][view'[t][SeqAt(c)]].value >= pos[t])
    BY <1>3, <1>6, <1>9, <2>1
  <2> QED
    BY <2>2 DEF c
<1> HIDE DEF known
<1>11. Prefix(known) \in 0 .. pos[t]
  BY <1>8, <1>10, PrefixBound
<1> QED
  BY <1>3, <1>7, <1>11

(* A dequeue that gives up has found its position not published, and still
   knows of no more afterwards.                                             *)
LEMMA DeqGivesUp ==
  ASSUME RInv, NEW t \in Threads, DeqSeq(t), pc'[t] = "idle"
  PROVE  KnownPut(t)' <= tail
<1> USE RelaxedAssumption DEF RInv, Protocol, Knowledge
<1> DEFINE c == CellOf(pos[t])
<1>1. PICK i \in view[t][SeqAt(c)] .. Len(stores[c]) :
        Acquires(t, c, i) /\ Verdict(t, pos[t] + 1, stores[c][i].value, "d_cas", "d_load")
  BY DEF DeqSeq
<1>2. UNCHANGED <<stores, touched, pos, tail>> /\ pc[t] = "d_seq"
  BY DEF DeqSeq
<1>3. c \in Cells /\ pos[t] \in Nat /\ pos[t] <= tail /\ tail \in Nat /\ tail <= MaxClaims
  BY <1>2, CellFacts DEF TypeOK, Samples, Counters
<1> HIDE DEF c
<1>4. view'[t][SeqAt(c)] = i /\ i \in 1 .. Len(stores[c])
  BY <1>1, <1>2, <1>3, AcquireStep
<1>5. Behind(pos[t] + 1, stores[c][i].value)
  BY <1>1 DEF Verdict, Goto, TypeOK
<1>6. stores[c][i].value <= pos[t]
  <2> DEFINE w == pos[t] + 1
  <2>1. stores[c][i].value \in Nat /\ stores[c][i].value <= MaxClaims + Capacity
    BY <1>3, <1>4, StoreType DEF Growing
  <2>2. w \in Nat /\ w <= MaxClaims + 1 /\ Behind(w, stores[c][i].value)
    BY <1>3, <1>5
  <2> DEFINE s == stores[c][i].value
  <2>3. s \in Nat /\ s <= MaxClaims + Capacity /\ Behind(w, s)
    BY <2>1, <2>2
  <2> HIDE DEF w, s
  <2>4. s < w
    BY <2>2, <2>3, BehindIs
  <2>5. w = pos[t] + 1 /\ pos[t] \in Nat
    BY <1>3 DEF w
  <2>6. s <= pos[t]
    BY ONLY <2>3, <2>4, <2>5
  <2> QED
    BY <2>6 DEF s
<1> DEFINE known == {p \in Positions : stores'[CellOf(p)][view'[t][SeqAt(CellOf(p))]].value > p}
<1>7. KnownPut(t)' = Prefix(known)
  BY DEF KnownPut, KnownSeq
<1>8. pos[t] \in Positions
  BY <1>3 DEF Positions
<1>9. stores'[c][view'[t][SeqAt(c)]].value = stores[c][i].value
  BY <1>2, <1>4
<1>10. pos[t] \notin known
  <2>1. stores[c][i].value \in Nat
    BY <1>3, <1>4, StoreType
  <2>2. ~(stores'[c][view'[t][SeqAt(c)]].value > pos[t])
    BY <1>3, <1>6, <1>9, <2>1
  <2> QED
    BY <2>2 DEF c
<1> HIDE DEF known
<1>11. Prefix(known) \in 0 .. pos[t]
  BY <1>8, <1>10, PrefixBound
<1> QED
  BY <1>3, <1>7, <1>11

(* Only a thread's own sequence load takes it back to idle from there. *)
LEMMA WhoMoved ==
  ASSUME TypeOK, [Next]_vars, NEW t \in Threads, pc[t] \in {"e_seq", "d_seq"}, pc'[t] = "idle"
  PROVE  /\ pc[t] = "e_seq" => EnqSeq(t)
         /\ pc[t] = "d_seq" => DeqSeq(t)
<1> USE DEF TypeOK, Goto
<1>1. CASE UNCHANGED vars
  BY <1>1 DEF vars
<1>2. ASSUME NEW u \in Threads, Producing(u)
      PROVE  EnqSeq(t) /\ pc[t] = "e_seq"
  BY <1>2 DEF Producing, EnqLoad, EnqSeq, EnqClaim, EnqClaimFails, EnqWrite, EnqPublish, Verdict
<1>3. ASSUME NEW u \in Threads, Consuming(u)
      PROVE  DeqSeq(t) /\ pc[t] = "d_seq"
  BY <1>3 DEF Consuming, DeqLoad, DeqSeq, DeqClaim, DeqClaimFails, DeqRead, DeqRelease, Verdict
<1>4. ASSUME NEW u \in Threads, Sizing(u)
      PROVE  FALSE
  BY <1>4 DEF Sizing, SizeTail, SizeHead
<1>5. ASSUME NEW u \in Threads, NEW w \in Threads, Hears(u, w)
      PROVE  FALSE
  BY <1>5 DEF Hears
<1> QED
  BY <1>1, <1>2, <1>3, <1>4, <1>5 DEF Next, Threads

(* A call gives up only for a reason: an empty dequeue leaves no item that its
   caller knows of, and a full enqueue no slot (dv_queue.c:72-76, 105-109).
   The tester's last poll relies on it (dv_queue_tester.c:172-178).         *)
THEOREM RefusalsAreHonest == Spec => GivesUpKnowingly
<1>1. ASSUME RInv, [Next]_vars, NEW t \in Threads
      PROVE  /\ pc[t] = "d_seq" /\ pc'[t] = "idle" => KnownPut(t)' <= tail
             /\ pc[t] = "e_seq" /\ pc'[t] = "idle" => KnownFree(t)' <= head
  <2>1. ASSUME pc[t] = "d_seq", pc'[t] = "idle" PROVE KnownPut(t)' <= tail
    <3>1. DeqSeq(t)
      BY <1>1, <2>1, WhoMoved DEF RInv
    <3> QED
      BY <1>1, <2>1, <3>1, DeqGivesUp
  <2>2. ASSUME pc[t] = "e_seq", pc'[t] = "idle" PROVE KnownFree(t)' <= head
    <3>1. EnqSeq(t)
      BY <1>1, <2>2, WhoMoved DEF RInv
    <3> QED
      BY <1>1, <2>2, <3>1, EnqGivesUp
  <2> QED
    BY <2>1, <2>2
<1>2. RInv /\ [Next]_vars =>
        [\A t \in Threads :
           /\ pc[t] = "d_seq" /\ pc'[t] = "idle" => KnownPut(t)' <= tail
           /\ pc[t] = "e_seq" /\ pc'[t] = "idle" => KnownFree(t)' <= head]_vars
  BY <1>1
<1> QED
  BY <1>2, RelaxedInvariant, PTL DEF Spec, GivesUpKnowingly
=============================================================================

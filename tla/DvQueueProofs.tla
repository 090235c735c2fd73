--------------------------- MODULE DvQueueProofs ---------------------------
(* The safety of the queue for every number of threads, every capacity and
   word size that mpmc_init admits, and every starting position, and that it
   implements the bounded FIFO of module BoundedFifo.                       *)
EXTENDS DvQueue, TLAPS, SequenceTheorems

(***************************************************************************)
(* Remainders, and the cells of a ring.                                    *)
(***************************************************************************)
(* Division with remainder. *)
LEMMA DivMod ==
  ASSUME NEW M \in Nat \ {0}, NEW p \in Int
  PROVE  /\ p \div M \in Int
         /\ p % M \in 0 .. (M - 1)
         /\ p = M * (p \div M) + (p % M)
  OBVIOUS

(* Multiples of M are at least M apart. *)
LEMMA MultiplesApart ==
  ASSUME NEW M \in Nat \ {0}, NEW a \in Int, NEW b \in Int, a < b
  PROVE  M * a + M <= M * b
<1>1. PICK k \in Nat : b = a + 1 + k
  <2> WITNESS b - a - 1 \in Nat
  <2> QED OBVIOUS
<1>2. M * b = M * a + M + M * k
  BY <1>1
<1>3. M * k >= 0
  BY <1>1
<1> QED
  BY <1>2, <1>3

(* A remainder is determined by its bounds. *)
LEMMA ModUnique ==
  ASSUME NEW M \in Nat \ {0}, NEW p \in Int, NEW q \in Int,
         NEW r \in 0 .. (M - 1), p = M * q + r
  PROVE  p % M = r
<1> DEFINE q2 == p \div M
           r2 == p % M
<1>1. q2 \in Int /\ r2 \in 0 .. (M - 1) /\ p = M * q2 + r2
  BY DivMod
<1> HIDE DEF q2, r2
<1>2. CASE q < q2
  BY <1>1, <1>2, MultiplesApart
<1>3. CASE q2 < q
  BY <1>1, <1>3, MultiplesApart
<1>4. CASE q2 = q
  BY <1>1, <1>4 DEF r2
<1> QED
  BY <1>1, <1>2, <1>3, <1>4

(* Adding a multiple of M does not change a remainder. *)
LEMMA ModShift ==
  ASSUME NEW M \in Nat \ {0}, NEW p \in Int, NEW k \in Int
  PROVE  (p + M * k) % M = p % M
<1> DEFINE q == p \div M
           r == p % M
<1>1. q \in Int /\ r \in 0 .. (M - 1) /\ p = M * q + r
  BY DivMod
<1> HIDE DEF q, r
<1>2. q + k \in Int /\ p + M * k \in Int /\ p + M * k = M * (q + k) + r
  BY <1>1
<1>3. (p + M * k) % M = r
  BY <1>1, <1>2, ModUnique
<1> QED
  BY <1>3 DEF r

(* Numbers less than M apart have different remainders. *)
LEMMA ModDistinct ==
  ASSUME NEW M \in Nat \ {0}, NEW p \in Int, NEW r \in Int, p < r, r < p + M
  PROVE  p % M # r % M
<1> SUFFICES ASSUME p % M = r % M PROVE FALSE
  OBVIOUS
<1>1. p \div M \in Int /\ r \div M \in Int
  BY DivMod
<1>2. /\ p = M * (p \div M) + (p % M)
      /\ r = M * (r \div M) + (r % M)
      /\ p % M \in 0 .. (M - 1)
  BY DivMod
<1>3. CASE p \div M < r \div M
  BY <1>1, <1>2, <1>3, MultiplesApart
<1>4. CASE r \div M < p \div M
  BY <1>1, <1>2, <1>4, MultiplesApart
<1> QED
  BY <1>1, <1>2, <1>3, <1>4

(* Every M consecutive numbers contain one of each remainder. *)
LEMMA ModWindow ==
  ASSUME NEW M \in Nat \ {0}, NEW base \in Int, NEW p \in Int
  PROVE  /\ base + ((p - base) % M) \in base .. (base + M - 1)
         /\ (base + ((p - base) % M)) % M = p % M
<1> DEFINE q == (p - base) \div M
           r == (p - base) % M
<1>0. p - base \in Int
  OBVIOUS
<1>1. q \in Int /\ r \in 0 .. (M - 1) /\ p - base = M * q + r
  BY ONLY <1>0, DivMod
<1> HIDE DEF q, r
<1>2. base + r = p + M * (-q) /\ -q \in Int
  BY <1>1
<1>3. (base + r) % M = p % M
  BY <1>2, ModShift
<1>4. base + r \in base .. (base + M - 1)
  BY <1>1
<1> QED
  BY <1>3, <1>4 DEF r

(* The remainder by a divisor of N can be taken after the remainder by N. *)
LEMMA ModOfMod ==
  ASSUME NEW M \in Nat \ {0}, NEW N \in Nat \ {0}, N % M = 0, NEW p \in Int
  PROVE  (p % N) % M = p % M
<1> DEFINE k == N \div M
           q == p \div N
           r == p % N
<1>1. k \in Int /\ N = M * k
  BY DivMod
<1>2. q \in Int /\ r \in 0 .. (N - 1) /\ p = N * q + r
  BY DivMod
<1> HIDE DEF k, q, r
<1>3. -(k * q) \in Int /\ r = p + M * (-(k * q))
  BY <1>1, <1>2
<1>4. (p + M * (-(k * q))) % M = p % M
  BY <1>3, ModShift
<1> QED
  BY <1>3, <1>4 DEF r

(* A difference smaller than M either way is a multiple of M only when it is
   zero, and below zero it wraps to the top of the range.                   *)
LEMMA ModOfSmall ==
  ASSUME NEW M \in Nat \ {0}, NEW d \in Int, -M < d, d < M
  PROVE  d % M = IF d >= 0 THEN d ELSE d + M
<1>1. CASE d >= 0
  BY <1>1
<1>2. CASE d < 0
  BY <1>2
<1> QED
  BY <1>1, <1>2

(* The cell that position p of a ring of M cells has, when p is counted in
   words of W values.                                                       *)
RingCell(p, M, W) == (p % W) % M

(* It is a cell of the ring, the same one a lap later, and different ones
   within a lap.                                                            *)
LEMMA RingFacts ==
  ASSUME NEW M \in Nat \ {0}, NEW W \in Nat \ {0}, W % M = 0
  PROVE  /\ \A p \in Nat : RingCell(p, M, W) \in 0 .. (M - 1)
         /\ \A p \in Nat : RingCell(p + M, M, W) = RingCell(p, M, W)
         /\ \A p, r \in Nat : p # r /\ p < r + M /\ r < p + M => RingCell(p, M, W) # RingCell(r, M, W)
<1>2. ASSUME NEW p \in Nat PROVE RingCell(p, M, W) = p % M
  <2>1. p \in Int
    OBVIOUS
  <2>2. (p % W) % M = p % M
    BY ONLY W % M = 0, <2>1, ModOfMod
  <2> QED
    BY <2>2 DEF RingCell
<1>3. ASSUME NEW p \in Nat PROVE RingCell(p, M, W) \in 0 .. (M - 1)
  <2>1. p % M \in 0 .. (M - 1)
    BY DivMod
  <2> QED
    BY <1>2, <2>1
<1>4. ASSUME NEW p \in Nat PROVE RingCell(p + M, M, W) = RingCell(p, M, W)
  <2>1. p \in Int /\ 1 \in Int
    OBVIOUS
  <2>2. (p + M * 1) % M = p % M
    BY ONLY <2>1, ModShift
  <2>3. p + M * 1 = p + M /\ p + M \in Nat
    OBVIOUS
  <2> QED
    BY <1>2, <2>2, <2>3
<1>5. ASSUME NEW p \in Nat, NEW r \in Nat, p # r, p < r + M, r < p + M
      PROVE  RingCell(p, M, W) # RingCell(r, M, W)
  <2>1. CASE p < r
    BY <1>2, <1>5, <2>1, ModDistinct
  <2>2. CASE r < p
    BY <1>2, <1>5, <2>2, ModDistinct
  <2> QED
    BY <1>5, <2>1, <2>2
<1> QED
  BY <1>3, <1>4, <1>5

(* The cell of p has a position in the lap that starts at base. *)
InLap(p, base, M, W) ==
  \E r \in base .. (base + M - 1) : RingCell(r, M, W) = RingCell(p, M, W)

(* Each cell has a position in every lap. *)
LEMMA RingWindow ==
  ASSUME NEW M \in Nat \ {0}, NEW W \in Nat \ {0}, W % M = 0, NEW base \in Nat, NEW p \in Nat
  PROVE  InLap(p, base, M, W)
<1> DEFINE r == base + ((p - base) % M)
<1>0. base \in Int /\ p \in Int
  OBVIOUS
<1>1. r \in base .. (base + M - 1) /\ r % M = p % M
  BY ONLY <1>0, ModWindow
<1> HIDE DEF r
<1>2. r \in Nat
  BY <1>1
<1>3. RingCell(r, M, W) = r % M /\ RingCell(p, M, W) = p % M
  <2>1. r \in Int
    BY <1>2
  <2>2. (r % W) % M = r % M /\ (p % W) % M = p % M
    BY ONLY W % M = 0, <1>0, <2>1, ModOfMod
  <2> QED
    BY <2>2 DEF RingCell
<1> QED
  BY <1>1, <1>3 DEF InLap

(***************************************************************************)
(* Cells and words.                                                        *)
(***************************************************************************)

(* pos & buffer_mask addresses a cell of the buffer, the same one a lap
   later, and different ones within a lap.                                  *)
LEMMA CellFacts ==
  /\ \A p \in Nat : CellOf(p) \in Cells
  /\ \A p \in Nat : CellOf(p + Capacity) = CellOf(p)
  /\ \A p, r \in Nat : p < r /\ r < p + Capacity => CellOf(p) # CellOf(r)
<1>1. Capacity \in Nat \ {0} /\ WordSize \in Nat \ {0} /\ WordSize % Capacity = 0
  BY QueueAssumption
<1>2. /\ \A p \in Nat : RingCell(p, Capacity, WordSize) \in 0 .. (Capacity - 1)
      /\ \A p \in Nat : RingCell(p + Capacity, Capacity, WordSize) = RingCell(p, Capacity, WordSize)
      /\ \A p, r \in Nat : p # r /\ p < r + Capacity /\ r < p + Capacity
           => RingCell(p, Capacity, WordSize) # RingCell(r, Capacity, WordSize)
  BY ONLY <1>1, RingFacts
<1>3. \A p : CellOf(p) = RingCell(p, Capacity, WordSize)
  BY DEF CellOf, Word, RingCell
<1> QED
  BY <1>1, <1>2, <1>3 DEF Cells

(* Positions less than two laps apart that share a cell are equal or exactly
   one lap apart.                                                           *)
LEMMA CellLap ==
  \A p, r \in Nat :
    p <= r /\ r < p + 2 * Capacity /\ CellOf(p) = CellOf(r)
      => r = p \/ r = p + Capacity
<1> SUFFICES ASSUME NEW p \in Nat, NEW r \in Nat, p <= r,
                    r < p + 2 * Capacity, CellOf(p) = CellOf(r)
             PROVE  r = p \/ r = p + Capacity
  OBVIOUS
<1>1. p + Capacity \in Nat /\ CellOf(p + Capacity) = CellOf(p)
  BY CellFacts, QueueAssumption
<1>2. CASE r < p + Capacity
  BY <1>2, CellFacts
<1>3. CASE r > p + Capacity
  BY <1>1, <1>3, CellFacts, QueueAssumption
<1> QED
  BY <1>2, <1>3, QueueAssumption

(* Positions less than a lap apart that share a cell are equal. *)
LEMMA CellNear ==
  \A p, r \in Nat :
    p # r /\ p < r + Capacity /\ r < p + Capacity => CellOf(p) # CellOf(r)
<1> SUFFICES ASSUME NEW p \in Nat, NEW r \in Nat,
                    p # r, p < r + Capacity, r < p + Capacity
             PROVE  CellOf(p) # CellOf(r)
  OBVIOUS
<1>1. CASE p < r
  BY <1>1, CellFacts
<1>2. CASE r < p
  BY <1>2, CellFacts
<1> QED
  BY <1>1, <1>2

(* Each cell has a position in every lap. *)
LEMMA CellWindow ==
  ASSUME NEW base \in Nat, NEW p \in Nat
  PROVE  \E r \in base .. (base + Capacity - 1) : CellOf(r) = CellOf(p)
<1>1. Capacity \in Nat \ {0} /\ WordSize \in Nat \ {0} /\ WordSize % Capacity = 0
  BY QueueAssumption
<1>2. InLap(p, base, Capacity, WordSize)
  BY <1>1, RingWindow
<1> QED
  BY <1>2 DEF InLap, CellOf, Word, RingCell

(* On words less than WordSize apart the comparisons mean what they say. *)
LEMMA WordFacts ==
  ASSUME NEW a \in Int, NEW b \in Int,
         Capacity - WordSize < a - b, a - b < WordSize
  PROVE  /\ WordEq(a, b) <=> a = b
         /\ WordEq(b, a) <=> a = b
         /\ Behind(a, b) <=> 0 <= a - b /\ a - b <= Capacity
         /\ 0 <= a - b => Word(a - b) = a - b
<1> USE QueueAssumption
<1> DEFINE d == a - b
           e == b - a
<1>1. /\ WordSize \in Nat \ {0}
      /\ d \in Int /\ -WordSize < d /\ d < WordSize
      /\ e \in Int /\ -WordSize < e /\ e < WordSize
  OBVIOUS
<1> HIDE DEF d, e
<1>2. d % WordSize = IF d >= 0 THEN d ELSE d + WordSize
  BY ONLY <1>1, ModOfSmall
<1>3. e % WordSize = IF e >= 0 THEN e ELSE e + WordSize
  BY ONLY <1>1, ModOfSmall
<1> USE DEF d, e
<1> QED
  BY <1>2, <1>3 DEF WordEq, Behind, Word

(***************************************************************************)
(* What the sequence number found at a sampled position can be.            *)
(***************************************************************************)

(* At a position that has been claimed and not dequeued. *)
LEMMA SeqOfTaken ==
  ASSUME TypeOK, Taken, NEW q \in Nat, tail <= q, q < head
  PROVE  /\ seq[CellOf(q)] \in {q, q + 1}
         /\ seq[CellOf(q)] = q => \E u \in Threads : Enqueuing(u) /\ pos[u] = q
<1>1. q \in tail .. head - 1
  BY DEF TypeOK
<1> QED
  BY <1>1 DEF Taken

(* At head: the slot is free, or the queue is full, or the dequeue one lap
   behind still owns the slot.                                              *)
LEMMA SeqOfHead ==
  ASSUME TypeOK, Counters, Taken, Vacant
  PROVE  LET s == seq[CellOf(head)] IN
         \/ s = head /\ head < tail + Capacity
         \/ s \in {tail, tail + 1} /\ head = tail + Capacity
         \/ /\ s = head + 1 - Capacity /\ head < tail + Capacity
            /\ \E u \in Threads : Dequeuing(u) /\ pos[u] = head - Capacity
<1> USE QueueAssumption DEF TypeOK
<1>1. CASE head < tail + Capacity
  <2>1. head \in head .. tail + Capacity - 1
    BY <1>1
  <2> QED
    BY <1>1, <2>1 DEF Vacant
<1>2. CASE head = tail + Capacity
  <2>1. CellOf(head) = CellOf(tail)
    BY <1>2, CellFacts
  <2>2. tail < head
    BY <1>2
  <2>3. seq[CellOf(tail)] \in {tail, tail + 1}
    BY <2>2, SeqOfTaken
  <2> QED
    BY <1>2, <2>1, <2>3
<1> QED
  BY <1>1, <1>2 DEF Counters

(* At tail: an item, a slot being written, or an empty queue. *)
LEMMA SeqOfTail ==
  ASSUME TypeOK, Counters, Taken, Vacant
  PROVE  LET s == seq[CellOf(tail)] IN
         \/ s = tail + 1 /\ tail < head
         \/ /\ s = tail /\ tail < head
            /\ \E u \in Threads : Enqueuing(u) /\ pos[u] = tail
         \/ s \in {tail, tail + 1 - Capacity} /\ tail = head
<1> USE QueueAssumption DEF TypeOK
<1>1. CASE tail < head
  BY <1>1, SeqOfTaken
<1>2. CASE tail = head
  <2>1. tail \in head .. tail + Capacity - 1
    BY <1>2
  <2> QED
    BY <1>2, <2>1 DEF Vacant
<1> QED
  BY <1>1, <1>2 DEF Counters

(* At a position already dequeued, a later lap. *)
LEMMA SeqOfPast ==
  ASSUME TypeOK, Counters, Taken, Vacant, NEW q \in Nat, q < tail
  PROVE  /\ q + 1 <= seq[CellOf(q)]
         /\ seq[CellOf(q)] <= head \/ seq[CellOf(q)] < tail + Capacity
<1> USE QueueAssumption DEF TypeOK
<1>1. PICK r \in tail .. (tail + Capacity - 1) : CellOf(r) = CellOf(q)
  BY CellWindow
<1>2. r \in Nat /\ r >= q + Capacity
  BY <1>1, CellFacts
<1>3. CASE r < head
  <2>1. seq[CellOf(r)] \in {r, r + 1}
    BY <1>1, <1>2, <1>3, SeqOfTaken
  <2> QED
    BY <1>1, <1>2, <1>3, <2>1 DEF Counters
<1>4. CASE head <= r
  <2>1. r \in head .. tail + Capacity - 1
    BY <1>1, <1>4
  <2>2. seq[CellOf(r)] \in {r, r + 1 - Capacity}
    BY <2>1 DEF Vacant
  <2> QED
    BY <1>1, <1>2, <2>2
<1> QED
  BY <1>2, <1>3, <1>4

(* The comparisons of an enqueue on its sample (dv_queue.c:64, 72). *)
LEMMA EnqComparisons ==
  ASSUME TypeOK, Counters, Taken, Vacant, NEW q \in Nat,
         q <= head, head - q <= MaxLag
  PROVE  LET s == seq[CellOf(q)] IN
         /\ WordEq(s, q) <=> s = q
         /\ Behind(q, s) <=> s <= q
         /\ s <= q => s = q \/ q = head
<1> USE QueueAssumption DEF TypeOK, MaxLag
<1> DEFINE s == seq[CellOf(q)]
<1>1. s \in Nat
  BY CellFacts
<1>2. q < tail => q + 1 <= s /\ (s <= head \/ s < tail + Capacity)
  BY SeqOfPast
<1>3. tail <= q /\ q < head => s \in {q, q + 1}
  BY SeqOfTaken
<1>4. q = head => q - Capacity <= s /\ s <= q
  BY SeqOfHead DEF Counters
<1> HIDE DEF s
<1>5. Capacity - WordSize < q - s /\ q - s < WordSize /\ q - s <= Capacity
  BY <1>1, <1>2, <1>3, <1>4 DEF Counters
<1>6. (WordEq(s, q) <=> s = q) /\ (Behind(q, s) <=> s <= q)
  BY <1>1, <1>5, WordFacts
<1> QED
  BY <1>1, <1>2, <1>3, <1>6 DEF s

(* The comparisons of a dequeue on its sample (dv_queue.c:96, 105). *)
LEMMA DeqComparisons ==
  ASSUME TypeOK, Counters, Taken, Vacant, NEW q \in Nat,
         q <= tail, tail - q <= MaxLag
  PROVE  LET s == seq[CellOf(q)] IN
         /\ WordEq(s, q + 1) <=> s = q + 1
         /\ Behind(q + 1, s) <=> s <= q + 1
         /\ s <= q => q = tail
<1> USE QueueAssumption DEF TypeOK, MaxLag
<1> DEFINE s == seq[CellOf(q)]
<1>1. s \in Nat
  BY CellFacts
<1>2. q < tail => q + 1 <= s /\ (s <= head \/ s < tail + Capacity)
  BY SeqOfPast
<1>3. q = tail => q + 1 - Capacity <= s /\ s <= q + 1
  BY SeqOfTail DEF Counters
<1> HIDE DEF s
<1>4. Capacity - WordSize < q + 1 - s /\ q + 1 - s < WordSize /\ q + 1 - s <= Capacity
  BY <1>1, <1>2, <1>3 DEF Counters
<1>5. (WordEq(s, q + 1) <=> s = q + 1) /\ (Behind(q + 1, s) <=> s <= q + 1)
  BY <1>1, <1>4, WordFacts
<1> QED
  BY <1>1, <1>2, <1>5 DEF s

(***************************************************************************)
(* Types, and the bookkeeping of the calls.                                *)
(***************************************************************************)
LEMMA ItemType ==
  ASSUME TypeOK, Roles, NEW t \in Threads
  PROVE  Item(t) \in Items
<1>1. sent[t] + 1 \in 1 .. MaxSent + 1
  BY QueueAssumption DEF TypeOK, Roles
<1> QED
  BY <1>1 DEF Item, Items

(* Steps of an enqueue keep the types. *)
LEMMA EnqTypes ==
  ASSUME TypeOK, Roles, NEW t \in Threads,
         \/ \E n \in 1 .. MaxBulk : EnqCall(t, n)
         \/ EnqLoad(t) \/ EnqSlotFree(t) \/ EnqFull(t) \/ EnqStale(t)
         \/ EnqClaim(t) \/ EnqClaimFails(t) \/ EnqWrite(t) \/ EnqPublish(t)
  PROVE  TypeOK' /\ Roles'
<1> USE QueueAssumption DEF TypeOK, Roles, Labels, shared, Goto
<1>0. Item(t) \in Items /\ CellOf(pos[t]) \in Cells
  BY ItemType, CellFacts
<1>1. ASSUME NEW n \in 1 .. MaxBulk, EnqCall(t, n) PROVE TypeOK' /\ Roles'
  BY <1>1 DEF EnqCall
<1>2. CASE EnqLoad(t)
  BY <1>2 DEF EnqLoad
<1>3. CASE EnqSlotFree(t)
  BY <1>3 DEF EnqSlotFree
<1>4. CASE EnqFull(t)
  BY <1>4 DEF EnqFull, Return
<1>5. CASE EnqStale(t)
  BY <1>5 DEF EnqStale
<1>6. CASE EnqClaim(t)
  BY <1>0, <1>6 DEF EnqClaim
<1>7. CASE EnqClaimFails(t)
  BY <1>7 DEF EnqClaimFails
<1>8. CASE EnqWrite(t)
  BY <1>0, <1>8 DEF EnqWrite
<1>9. CASE EnqPublish(t)
  <2>1. seq' \in [Cells -> Nat] /\ sent' \in [Threads -> Nat]
    BY <1>0, <1>9 DEF EnqPublish, PublishSeq
  <2>2. CASE rem[t] > 1
    BY <1>9, <2>1, <2>2 DEF EnqPublish, NextOfBulk, Return
  <2>3. CASE rem[t] <= 1
    BY <1>9, <2>1, <2>3 DEF EnqPublish, NextOfBulk, Return
  <2> QED
    BY <2>2, <2>3
<1> QED
  BY <1>1, <1>2, <1>3, <1>4, <1>5, <1>6, <1>7, <1>8, <1>9

(* Steps of a dequeue keep the types. *)
LEMMA DeqTypes ==
  ASSUME TypeOK, Roles, NEW t \in Threads,
         \/ \E n \in 1 .. MaxBulk : DeqCall(t, n)
         \/ DeqLoad(t) \/ DeqSlotReady(t) \/ DeqEmpty(t) \/ DeqStale(t)
         \/ DeqClaim(t) \/ DeqClaimFails(t) \/ DeqRead(t) \/ DeqRelease(t)
  PROVE  TypeOK' /\ Roles'
<1> USE QueueAssumption DEF TypeOK, Roles, Labels, shared, Goto
<1>0. CellOf(pos[t]) \in Cells
  BY CellFacts
<1>1. ASSUME NEW n \in 1 .. MaxBulk, DeqCall(t, n) PROVE TypeOK' /\ Roles'
  BY <1>1 DEF DeqCall
<1>2. CASE DeqLoad(t)
  BY <1>2 DEF DeqLoad
<1>3. CASE DeqSlotReady(t)
  BY <1>3 DEF DeqSlotReady
<1>4. CASE DeqEmpty(t)
  BY <1>4 DEF DeqEmpty, Return
<1>5. CASE DeqStale(t)
  BY <1>5 DEF DeqStale
<1>6. CASE DeqClaim(t)
  BY <1>6 DEF DeqClaim
<1>7. CASE DeqClaimFails(t)
  BY <1>7 DEF DeqClaimFails
<1>8. CASE DeqRead(t)
  BY <1>0, <1>8 DEF DeqRead
<1>9. CASE DeqRelease(t)
  <2>1. seq' \in [Cells -> Nat] /\ got' \in [Threads -> Items \cup {NoItem}]
    BY <1>0, <1>9 DEF DeqRelease, ReleaseSeq
  <2>2. CASE rem[t] > 1
    BY <1>9, <2>1, <2>2 DEF DeqRelease, NextOfBulk, Return
  <2>3. CASE rem[t] <= 1
    BY <1>9, <2>1, <2>3 DEF DeqRelease, NextOfBulk, Return
  <2> QED
    BY <2>2, <2>3
<1> QED
  BY <1>1, <1>2, <1>3, <1>4, <1>5, <1>6, <1>7, <1>8, <1>9

(* Steps of mpmc_size keep the types. *)
LEMMA SizeTypes ==
  ASSUME TypeOK, Roles, NEW t \in Threads, SizeCall(t) \/ SizeStep(t)
  PROVE  TypeOK' /\ Roles'
<1> USE QueueAssumption DEF TypeOK, Roles, Labels, shared, Goto
<1>1. CASE SizeCall(t)
  BY <1>1 DEF SizeCall
<1>2. CASE SizeTail(t)
  BY <1>2 DEF SizeTail
<1>3. CASE SizeHead(t)
  <2> DEFINE n == Word(head - pos[t])
  <2>1. n \in Nat
    <3>1. WordSize \in Nat \ {0} /\ head - pos[t] \in Int
      OBVIOUS
    <3>2. (head - pos[t]) % WordSize \in 0 .. (WordSize - 1)
      BY ONLY <3>1, DivMod
    <3> QED
      BY <3>1, <3>2 DEF Word
  <2> HIDE DEF n
  <2>2. (IF n > Capacity THEN Capacity ELSE n) \in 0 .. Capacity
    BY <2>1
  <2>3. size' \in [Threads -> 0 .. Capacity]
    BY <1>3, <2>2 DEF SizeHead, n
  <2> QED
    BY <1>3, <2>3 DEF SizeHead, Return
<1> QED
  BY <1>1, <1>2, <1>3 DEF SizeStep

(***************************************************************************)
(* Steps that neither take nor hand over a slot.                           *)
(***************************************************************************)
LEMMA QuietStep ==
  ASSUME TypeOK, TypeOK', Counters, Owners, OneOwner, Taken, Vacant, Contents,
         UNCHANGED shared,
         \A u \in Threads : (Enqueuing(u)' <=> Enqueuing(u)) /\ (Dequeuing(u)' <=> Dequeuing(u)),
         \A u \in Threads : Enqueuing(u) \/ Dequeuing(u) =>
           /\ pc'[u] = pc[u] /\ pos'[u] = pos[u]
           /\ sent'[u] = sent[u] /\ got'[u] = got[u]
  PROVE  (Counters /\ Owners /\ OneOwner /\ Taken /\ Vacant /\ Contents)'
<1> USE DEF shared, Enqueuing, Dequeuing
<1>1. Counters'
  BY DEF Counters
<1>2. Owners'
  BY DEF Owners
<1>3. OneOwner'
  BY DEF OneOwner
<1>4. Taken'
  BY DEF Taken
<1>5. Vacant'
  BY DEF Vacant
<1>6. Contents'
  <2>1. ASSUME NEW p \in tail .. head - 1
        PROVE  /\ claim'[CellOf(p)] \in Items
               /\ seq'[CellOf(p)] = p + 1 => data'[CellOf(p)] = claim'[CellOf(p)]
    BY DEF Contents
  <2>2. ASSUME NEW u \in Threads
        PROVE  /\ Enqueuing(u)' => claim'[CellOf(pos'[u])] = Item(u)'
               /\ pc'[u] = "e_pub" => data'[CellOf(pos'[u])] = Item(u)'
               /\ pc'[u] = "d_data" => data'[CellOf(pos'[u])] = claim'[CellOf(pos'[u])]
               /\ pc'[u] = "d_rel" => got'[u] = claim'[CellOf(pos'[u])]
    BY DEF Contents, Item
  <2> QED
    BY <2>1, <2>2 DEF Contents
<1> QED
  BY <1>1, <1>2, <1>3, <1>4, <1>5, <1>6

LEMMA QuietActions ==
  ASSUME TypeOK, IInv, NEW t \in Threads,
         \/ \E n \in 1 .. MaxBulk : EnqCall(t, n) \/ DeqCall(t, n)
         \/ EnqLoad(t) \/ EnqSlotFree(t) \/ EnqFull(t) \/ EnqStale(t)
         \/ DeqLoad(t) \/ DeqSlotReady(t) \/ DeqEmpty(t) \/ DeqStale(t)
         \/ EnqClaimFails(t) \/ DeqClaimFails(t)
         \/ SizeCall(t) \/ SizeStep(t)
  PROVE  TypeOK' /\ IInv'
<1> USE DEF IInv
<1>1. TypeOK' /\ Roles'
  BY EnqTypes, DeqTypes, SizeTypes
<1> USE DEF EnqCall, DeqCall, EnqLoad, EnqSlotFree, EnqFull, EnqStale,
            DeqLoad, DeqSlotReady, DeqEmpty, DeqStale, EnqClaimFails,
            DeqClaimFails, SizeCall, SizeStep, SizeTail, SizeHead, Return, Goto
<1>2. /\ UNCHANGED shared
      /\ \A u \in Threads \ {t} : pc'[u] = pc[u] /\ pos'[u] = pos[u]
      /\ pc[t] \notin {"e_data", "e_pub", "d_data", "d_rel"}
      /\ pc'[t] \notin {"e_data", "e_pub", "d_data", "d_rel"}
      /\ sent' = sent
      /\ \A u \in Threads \ {t} : got'[u] = got[u]
  BY DEF TypeOK
<1>3. /\ \A u \in Threads : (Enqueuing(u)' <=> Enqueuing(u)) /\ (Dequeuing(u)' <=> Dequeuing(u))
      /\ \A u \in Threads : Enqueuing(u) \/ Dequeuing(u) =>
           /\ pc'[u] = pc[u] /\ pos'[u] = pos[u]
           /\ sent'[u] = sent[u] /\ got'[u] = got[u]
  BY <1>2 DEF Enqueuing, Dequeuing
<1>4. (Counters /\ Owners /\ OneOwner /\ Taken /\ Vacant /\ Contents)'
  BY <1>1, <1>2, <1>3, QuietStep
<1>5. ASSUME pc'[t] \in {"e_seq", "d_seq", "s_head"}
      PROVE  \/ pc'[t] = "e_seq" /\ pos'[t] = head
             \/ pc'[t] \in {"d_seq", "s_head"} /\ pos'[t] = tail
  BY <1>5 DEF TypeOK
<1>6. ASSUME pc'[t] = "e_cas"
      PROVE  pc[t] = "e_seq" /\ pos'[t] = pos[t] /\ WordEq(seq[CellOf(pos[t])], pos[t])
  BY <1>6 DEF TypeOK
<1>7. ASSUME pc'[t] = "d_cas"
      PROVE  pc[t] = "d_seq" /\ pos'[t] = pos[t] /\ WordEq(seq[CellOf(pos[t])], pos[t] + 1)
  BY <1>7 DEF TypeOK
<1> USE QueueAssumption
<1>8. Samples'
  <2> SUFFICES ASSUME NEW u \in Threads
               PROVE  /\ pc'[u] \in {"e_seq", "e_cas"} => pos'[u] <= head /\ head - pos'[u] <= MaxLag
                      /\ pc'[u] \in {"d_seq", "d_cas", "s_head"} => pos'[u] <= tail /\ tail - pos'[u] <= MaxLag
                      /\ pc'[u] = "e_cas" /\ pos'[u] = head
                           => head < tail + Capacity /\ seq[CellOf(pos'[u])] = pos'[u]
                      /\ pc'[u] = "d_cas" /\ pos'[u] = tail
                           => tail < head /\ seq[CellOf(pos'[u])] = pos'[u] + 1
    BY <1>2 DEF Samples, shared
  <2>1. CASE u # t
    BY <1>2, <2>1 DEF Samples
  <2>2. CASE u = t /\ pc'[t] \in {"e_seq", "d_seq", "s_head"}
    BY <1>5, <2>2 DEF MaxLag, TypeOK
  <2>3. CASE u = t /\ pc'[t] = "e_cas"
    <3>1. pos[t] <= head /\ head - pos[t] <= MaxLag
      BY <1>6, <2>3 DEF Samples
    <3>2. seq[CellOf(pos[t])] = pos[t]
      BY <1>6, <2>3, <3>1, EnqComparisons DEF TypeOK
    <3>3. pos[t] = head => head < tail + Capacity
      BY <3>2, SeqOfHead DEF TypeOK
    <3> QED
      BY <1>6, <2>3, <3>1, <3>2, <3>3
  <2>4. CASE u = t /\ pc'[t] = "d_cas"
    <3>1. pos[t] <= tail /\ tail - pos[t] <= MaxLag
      BY <1>7, <2>4 DEF Samples
    <3>2. seq[CellOf(pos[t])] = pos[t] + 1
      BY <1>7, <2>4, <3>1, DeqComparisons DEF TypeOK
    <3>3. pos[t] = tail => tail < head
      BY <3>2, SeqOfTail DEF TypeOK
    <3> QED
      BY <1>7, <2>4, <3>1, <3>2, <3>3
  <2>5. CASE u = t /\ pc'[t] \notin {"e_seq", "d_seq", "s_head", "e_cas", "d_cas"}
    BY <2>5
  <2> QED
    BY <2>1, <2>2, <2>3, <2>4, <2>5
<1> QED
  BY <1>1, <1>4, <1>8

(***************************************************************************)
(* The compare-and-swaps that take a slot.                                 *)
(***************************************************************************)
LEMMA EnqClaimStep ==
  ASSUME TypeOK, IInv, NEW t \in Threads, EnqClaim(t)
  PROVE  TypeOK' /\ IInv'
<1> USE QueueAssumption DEF IInv
<1>1. TypeOK' /\ Roles'
  BY EnqTypes
<1>2. pos[t] <= head /\ head - pos[t] <= MaxLag
  BY DEF EnqClaim, Samples
<1>3. pos[t] = head
  BY <1>2, WordFacts DEF EnqClaim, TypeOK, MaxLag
<1>4. head < tail + Capacity /\ seq[CellOf(head)] = head
  BY <1>3 DEF EnqClaim, Samples
<1>5. /\ head' = head + 1
      /\ claim' = [claim EXCEPT ![CellOf(head)] = Item(t)]
      /\ pc' = [pc EXCEPT ![t] = "e_data"]
      /\ UNCHANGED <<tail, seq, data, pos, rem, got, sent, size>>
      /\ pc[t] = "e_cas"
  BY <1>3 DEF EnqClaim, Goto
<1>6. \A p \in Nat : p < head /\ head < p + Capacity => CellOf(p) # CellOf(head)
  BY CellFacts DEF TypeOK
<1>7. CellOf(head) \in Cells
  BY CellFacts DEF TypeOK
<1> USE DEF TypeOK, Enqueuing, Dequeuing
<1>8. Counters'
  BY <1>4, <1>5 DEF Counters
<1>9. \A u \in Threads : Dequeuing(u) => head < pos[u] + Capacity
  <2> SUFFICES ASSUME NEW u \in Threads, Dequeuing(u), head = pos[u] + Capacity
               PROVE  FALSE
    BY DEF Owners
  <2>1. CellOf(pos[u]) = CellOf(head)
    BY CellFacts
  <2> QED
    BY <1>4, <2>1 DEF Owners
<1>10. Owners'
  BY <1>3, <1>4, <1>5, <1>9 DEF Owners, Counters
<1>11. OneOwner'
  BY <1>3, <1>5 DEF OneOwner, Owners
<1>12. Taken'
  BY <1>3, <1>4, <1>5 DEF Taken
<1>13. Vacant'
  BY <1>5 DEF Vacant
<1>14. Samples'
  BY <1>3, <1>5 DEF Samples, EnqClaim, HeadMayAdvance
<1>15. Contents'
  <2>1. \A p \in tail .. head : claim'[CellOf(p)] = IF p = head THEN Item(t) ELSE claim[CellOf(p)]
    BY <1>4, <1>5, <1>6, <1>7
  <2>2. \A u \in Threads : Enqueuing(u) \/ Dequeuing(u) => claim'[CellOf(pos[u])] = claim[CellOf(pos[u])]
    BY <1>4, <1>5, <1>6, <1>7, <1>9 DEF Owners
  <2>3. Item(t) \in Items
    BY ItemType
  <2>4. ASSUME NEW p \in tail' .. head' - 1
        PROVE  /\ claim'[CellOf(p)] \in Items
               /\ seq'[CellOf(p)] = p + 1 => data'[CellOf(p)] = claim'[CellOf(p)]
    BY <1>4, <1>5, <2>1, <2>3 DEF Contents
  <2>5. ASSUME NEW u \in Threads
        PROVE  /\ Enqueuing(u)' => claim'[CellOf(pos'[u])] = Item(u)'
               /\ pc'[u] = "e_pub" => data'[CellOf(pos'[u])] = Item(u)'
               /\ pc'[u] = "d_data" => data'[CellOf(pos'[u])] = claim'[CellOf(pos'[u])]
               /\ pc'[u] = "d_rel" => got'[u] = claim'[CellOf(pos'[u])]
    <3>1. CASE u = t
      BY <1>3, <1>5, <1>7, <3>1 DEF Item
    <3>2. CASE u # t
      BY <1>5, <2>2, <3>2 DEF Contents, Item
    <3> QED
      BY <3>1, <3>2
  <2> QED
    BY <2>4, <2>5 DEF Contents
<1> QED
  BY <1>1, <1>8, <1>10, <1>11, <1>12, <1>13, <1>14, <1>15

LEMMA DeqClaimStep ==
  ASSUME TypeOK, IInv, NEW t \in Threads, DeqClaim(t)
  PROVE  TypeOK' /\ IInv'
<1> USE QueueAssumption DEF IInv
<1>1. TypeOK' /\ Roles'
  BY DeqTypes
<1>2. pos[t] <= tail /\ tail - pos[t] <= MaxLag
  BY DEF DeqClaim, Samples
<1>3. pos[t] = tail
  BY <1>2, WordFacts DEF DeqClaim, TypeOK, MaxLag
<1>4. tail < head /\ seq[CellOf(tail)] = tail + 1
  BY <1>3 DEF DeqClaim, Samples
<1>5. /\ tail' = tail + 1
      /\ pc' = [pc EXCEPT ![t] = "d_data"]
      /\ UNCHANGED <<head, seq, data, pos, rem, got, sent, size, claim>>
      /\ pc[t] = "d_cas"
  BY <1>3 DEF DeqClaim, Goto
<1> USE DEF TypeOK, Enqueuing, Dequeuing
<1>6. CellOf(tail + Capacity) = CellOf(tail)
  BY CellFacts
<1>7. Counters'
  BY <1>4, <1>5 DEF Counters
<1>8. Owners'
  BY <1>3, <1>4, <1>5 DEF Owners, Counters
<1>9. OneOwner'
  BY <1>3, <1>5 DEF OneOwner, Owners
<1>10. Taken'
  BY <1>3, <1>4, <1>5 DEF Taken
<1>11. Vacant'
  <2> SUFFICES ASSUME NEW p \in head .. tail + Capacity
               PROVE  \/ seq[CellOf(p)] = p
                      \/ /\ seq[CellOf(p)] = p + 1 - Capacity
                         /\ \E u \in Threads : Dequeuing(u)' /\ pos[u] = p - Capacity
    BY <1>5 DEF Vacant
  <2>1. CASE p = tail + Capacity
    BY <1>3, <1>4, <1>5, <1>6, <2>1
  <2>2. CASE p < tail + Capacity
    BY <1>5, <2>2 DEF Vacant
  <2> QED
    BY <2>1, <2>2
<1>12. Samples'
  BY <1>3, <1>5 DEF Samples, DeqClaim, TailMayAdvance
<1>13. Contents'
  BY <1>3, <1>4, <1>5 DEF Contents, Item
<1> QED
  BY <1>1, <1>7, <1>8, <1>9, <1>10, <1>11, <1>12, <1>13

(***************************************************************************)
(* The accesses to the data of an owned slot.                              *)
(***************************************************************************)
LEMMA EnqWriteStep ==
  ASSUME TypeOK, IInv, NEW t \in Threads, EnqWrite(t)
  PROVE  TypeOK' /\ IInv'
<1> USE QueueAssumption DEF IInv
<1>1. TypeOK' /\ Roles'
  BY EnqTypes
<1>2. /\ data' = [data EXCEPT ![CellOf(pos[t])] = Item(t)]
      /\ pc' = [pc EXCEPT ![t] = "e_pub"]
      /\ UNCHANGED <<head, tail, seq, pos, rem, got, sent, size, claim>>
      /\ pc[t] = "e_data"
  BY DEF EnqWrite, Goto
<1> USE DEF TypeOK, Enqueuing, Dequeuing
<1>3. CellOf(pos[t]) \in Cells
  BY CellFacts
<1>4. tail <= pos[t] /\ pos[t] < head /\ seq[CellOf(pos[t])] = pos[t]
  BY <1>2 DEF Owners
<1>5. Counters'
  BY <1>2 DEF Counters
<1>6. Owners'
  BY <1>2 DEF Owners
<1>7. OneOwner'
  BY <1>2 DEF OneOwner
<1>8. Taken'
  BY <1>2 DEF Taken
<1>9. Vacant'
  BY <1>2 DEF Vacant
<1>10. Samples'
  BY <1>2 DEF Samples
<1>11. Contents'
  <2>1. \A c \in Cells : c # CellOf(pos[t]) => data'[c] = data[c]
    BY <1>2
  <2>2. ASSUME NEW p \in tail .. head - 1, seq[CellOf(p)] = p + 1
        PROVE  CellOf(p) # CellOf(pos[t]) /\ CellOf(p) \in Cells
    BY <1>4, <2>2, CellFacts
  <2>3. ASSUME NEW u \in Threads, u # t, Enqueuing(u) \/ Dequeuing(u)
        PROVE  CellOf(pos[u]) # CellOf(pos[t]) /\ CellOf(pos[u]) \in Cells
    <3>1. CASE Enqueuing(u)
      BY <1>2, <1>4, <2>3, <3>1, CellFacts DEF Owners, OneOwner, Counters
    <3>2. CASE Dequeuing(u)
      BY <1>4, <3>2, CellFacts DEF Owners, Counters
    <3> QED
      BY <2>3, <3>1, <3>2
  <2>4. data'[CellOf(pos[t])] = Item(t)
    BY <1>2, <1>3
  <2> QED
    BY <1>2, <2>1, <2>2, <2>3, <2>4 DEF Contents, Item
<1> QED
  BY <1>1, <1>5, <1>6, <1>7, <1>8, <1>9, <1>10, <1>11

LEMMA DeqReadStep ==
  ASSUME TypeOK, IInv, NEW t \in Threads, DeqRead(t)
  PROVE  TypeOK' /\ IInv'
<1> USE QueueAssumption DEF IInv
<1>1. TypeOK' /\ Roles'
  BY DeqTypes
<1>2. /\ got' = [got EXCEPT ![t] = data[CellOf(pos[t])]]
      /\ pc' = [pc EXCEPT ![t] = "d_rel"]
      /\ UNCHANGED <<head, tail, seq, data, claim, pos, rem, sent, size>>
      /\ pc[t] = "d_data"
  BY DEF DeqRead, Goto, shared
<1> USE DEF TypeOK, Enqueuing, Dequeuing
<1>5. Counters'
  BY <1>2 DEF Counters
<1>6. Owners'
  BY <1>2 DEF Owners
<1>7. OneOwner'
  BY <1>2 DEF OneOwner
<1>8. Taken'
  BY <1>2 DEF Taken
<1>9. Vacant'
  BY <1>2 DEF Vacant
<1>10. Samples'
  BY <1>2 DEF Samples
<1>11. Contents'
  BY <1>2 DEF Contents, Item
<1> QED
  BY <1>1, <1>5, <1>6, <1>7, <1>8, <1>9, <1>10, <1>11

(***************************************************************************)
(* The stores that hand a slot over.                                       *)
(***************************************************************************)
LEMMA EnqPublishStep ==
  ASSUME TypeOK, IInv, NEW t \in Threads, EnqPublish(t)
  PROVE  TypeOK' /\ IInv'
<1> USE QueueAssumption DEF IInv
<1>1. TypeOK' /\ Roles'
  BY EnqTypes
<1> DEFINE c == CellOf(pos[t])
<1>2. /\ seq' = [seq EXCEPT ![c] = pos[t] + 1]
      /\ sent' = [sent EXCEPT ![t] = @ + 1]
      /\ pc[t] = "e_pub"
      /\ pc'[t] \in {"idle", "e_load"}
      /\ \A u \in Threads \ {t} : pc'[u] = pc[u] /\ pos'[u] = pos[u]
      /\ UNCHANGED <<head, tail, data, got, size, claim>>
  BY DEF EnqPublish, PublishSeq, NextOfBulk, Return, Goto, TypeOK
<1> USE DEF TypeOK, Enqueuing, Dequeuing
<1>3. c \in Cells
  BY CellFacts
<1>4. tail <= pos[t] /\ pos[t] < head /\ seq[c] = pos[t]
  BY <1>2 DEF Owners
<1>5. \A p \in Nat : p # pos[t] /\ p < pos[t] + Capacity /\ pos[t] < p + Capacity
        => CellOf(p) # c
  BY CellNear
<1>6. \A u \in Threads \ {t} : Enqueuing(u) \/ Dequeuing(u) => CellOf(pos[u]) # c
  BY <1>2, <1>4, <1>5 DEF Owners, OneOwner, Counters
<1>7. Counters'
  BY <1>2 DEF Counters
<1>8. \A d \in Cells : seq'[d] = IF d = c THEN pos[t] + 1 ELSE seq[d]
  BY <1>2, <1>3
<1>9. \A p \in Nat : CellOf(p) \in Cells
  BY CellFacts
<1> HIDE DEF c
<1>10. Owners'
  BY <1>2, <1>6, <1>8, <1>9 DEF Owners
<1>11. OneOwner'
  BY <1>2 DEF OneOwner
<1>12. Taken'
  <2> SUFFICES ASSUME NEW p \in tail .. head - 1
               PROVE  \/ seq'[CellOf(p)] = p + 1
                      \/ /\ seq'[CellOf(p)] = p
                         /\ \E u \in Threads : Enqueuing(u)' /\ pos'[u] = p
    BY <1>2 DEF Taken
  <2>1. CASE p = pos[t]
    BY <1>3, <1>8, <2>1 DEF c
  <2>2. CASE p # pos[t]
    <3>1. seq'[CellOf(p)] = seq[CellOf(p)]
      BY <1>4, <1>5, <1>8, <1>9, <2>2 DEF Counters
    <3>2. \A u \in Threads : Enqueuing(u) /\ pos[u] = p => Enqueuing(u)' /\ pos'[u] = p
      BY <1>2, <2>2
    <3> QED
      BY <3>1, <3>2 DEF Taken
  <2> QED
    BY <2>1, <2>2
<1>13. Vacant'
  <2> SUFFICES ASSUME NEW p \in head .. tail + Capacity - 1
               PROVE  \/ seq'[CellOf(p)] = p
                      \/ /\ seq'[CellOf(p)] = p + 1 - Capacity
                         /\ \E u \in Threads : Dequeuing(u)' /\ pos'[u] = p - Capacity
    BY <1>2 DEF Vacant
  <2>1. seq'[CellOf(p)] = seq[CellOf(p)]
    BY <1>4, <1>5, <1>8, <1>9
  <2>2. \A u \in Threads : Dequeuing(u) => Dequeuing(u)' /\ pos'[u] = pos[u]
    BY <1>2
  <2> QED
    BY <2>1, <2>2 DEF Vacant
<1>14. Samples'
  <2> SUFFICES ASSUME NEW u \in Threads, u # t
               PROVE  /\ pc[u] \in {"e_seq", "e_cas"} => pos[u] <= head /\ head - pos[u] <= MaxLag
                      /\ pc[u] \in {"d_seq", "d_cas", "s_head"} => pos[u] <= tail /\ tail - pos[u] <= MaxLag
                      /\ pc[u] = "e_cas" /\ pos[u] = head
                           => head < tail + Capacity /\ seq'[CellOf(pos[u])] = pos[u]
                      /\ pc[u] = "d_cas" /\ pos[u] = tail
                           => tail < head /\ seq'[CellOf(pos[u])] = pos[u] + 1
    BY <1>2 DEF Samples
  <2>1. pc[u] = "e_cas" /\ pos[u] = head => CellOf(pos[u]) # c
    BY <1>4, <1>5 DEF Samples
  <2>2. pc[u] = "d_cas" /\ pos[u] = tail => CellOf(pos[u]) # c
    BY <1>4, <1>5 DEF Samples, Counters, c
  <2> QED
    BY <1>8, <1>9, <2>1, <2>2 DEF Samples
<1>15. Contents'
  <2>1. ASSUME NEW p \in tail .. head - 1
        PROVE  /\ claim[CellOf(p)] \in Items
               /\ seq'[CellOf(p)] = p + 1 => data[CellOf(p)] = claim[CellOf(p)]
    <3>1. CASE p = pos[t]
      BY <1>2, <3>1 DEF Contents
    <3>2. CASE p # pos[t]
      BY <1>4, <1>5, <1>8, <1>9, <3>2 DEF Contents, Counters
    <3> QED
      BY <3>1, <3>2
  <2>2. ASSUME NEW u \in Threads, u # t
        PROVE  /\ Enqueuing(u) => claim[CellOf(pos[u])] = Item(u)'
               /\ pc[u] = "e_pub" => data[CellOf(pos[u])] = Item(u)'
    BY <1>2, <2>2 DEF Contents, Item
  <2> QED
    BY <1>2, <2>1, <2>2 DEF Contents
<1> QED
  BY <1>1, <1>7, <1>10, <1>11, <1>12, <1>13, <1>14, <1>15

LEMMA DeqReleaseStep ==
  ASSUME TypeOK, IInv, NEW t \in Threads, DeqRelease(t)
  PROVE  TypeOK' /\ IInv'
<1> USE QueueAssumption DEF IInv
<1>1. TypeOK' /\ Roles'
  BY DeqTypes
<1> DEFINE c == CellOf(pos[t])
<1>2. /\ seq' = [seq EXCEPT ![c] = pos[t] + Capacity]
      /\ pc[t] = "d_rel"
      /\ pc'[t] \in {"idle", "d_load"}
      /\ \A u \in Threads \ {t} : pc'[u] = pc[u] /\ pos'[u] = pos[u] /\ got'[u] = got[u]
      /\ UNCHANGED <<head, tail, data, sent, size, claim>>
  BY DEF DeqRelease, ReleaseSeq, NextOfBulk, Return, Goto, TypeOK
<1> USE DEF TypeOK, Enqueuing, Dequeuing
<1>3. c \in Cells /\ c = CellOf(pos[t] + Capacity)
  BY CellFacts
<1>4. pos[t] < tail /\ head <= pos[t] + Capacity /\ seq[c] = pos[t] + 1
  BY <1>2 DEF Owners
<1>5. /\ \A p \in Nat : p # pos[t] /\ p < pos[t] + Capacity /\ pos[t] < p + Capacity
           => CellOf(p) # c
      /\ \A p \in Nat : p # pos[t] + Capacity /\ p < pos[t] + 2 * Capacity /\ pos[t] < p
           => CellOf(p) # c
  <2>1. pos[t] \in Nat /\ pos[t] + Capacity \in Nat /\ Capacity \in Nat
    OBVIOUS
  <2>2. \A p \in Nat : p # pos[t] /\ p < pos[t] + Capacity /\ pos[t] < p + Capacity
          => CellOf(p) # CellOf(pos[t])
    BY ONLY <2>1, CellNear
  <2>3. \A p \in Nat : p # pos[t] + Capacity /\ p < pos[t] + 2 * Capacity /\ pos[t] < p
          => CellOf(p) # CellOf(pos[t] + Capacity)
    BY ONLY <2>1, CellNear
  <2> QED
    BY <1>3, <2>2, <2>3
<1>6. \A u \in Threads \ {t} : Enqueuing(u) \/ Dequeuing(u) => CellOf(pos[u]) # c
  BY <1>2, <1>4, <1>5 DEF Owners, OneOwner, Counters
<1>7. Counters'
  BY <1>2 DEF Counters
<1>8. \A d \in Cells : seq'[d] = IF d = c THEN pos[t] + Capacity ELSE seq[d]
  BY <1>2, <1>3
<1>9. \A p \in Nat : CellOf(p) \in Cells
  BY CellFacts
<1> HIDE DEF c
<1>10. Owners'
  BY <1>2, <1>6, <1>8, <1>9 DEF Owners
<1>11. OneOwner'
  BY <1>2 DEF OneOwner
<1>12. \A p \in tail .. head - 1 : seq'[CellOf(p)] = seq[CellOf(p)]
  BY <1>4, <1>5, <1>8, <1>9
<1>13. Taken'
  <2>1. \A u \in Threads : Enqueuing(u) => Enqueuing(u)' /\ pos'[u] = pos[u]
    BY <1>2
  <2> QED
    BY <1>2, <1>12, <2>1 DEF Taken
<1>14. Vacant'
  <2> SUFFICES ASSUME NEW p \in head .. tail + Capacity - 1
               PROVE  \/ seq'[CellOf(p)] = p
                      \/ /\ seq'[CellOf(p)] = p + 1 - Capacity
                         /\ \E u \in Threads : Dequeuing(u)' /\ pos'[u] = p - Capacity
    BY <1>2 DEF Vacant
  <2>1. CASE p = pos[t] + Capacity
    BY <1>3, <1>8, <2>1
  <2>2. CASE p # pos[t] + Capacity
    <3>1. CellOf(p) # c
      <4>1. pos[t] < p
        BY <1>4 DEF Counters
      <4>2. p < pos[t] + 2 * Capacity
        BY <1>4 DEF Counters
      <4> QED
        BY <1>5, <2>2, <4>1, <4>2
    <3>2. seq'[CellOf(p)] = seq[CellOf(p)]
      BY <1>8, <1>9, <3>1
    <3>3. \A u \in Threads : Dequeuing(u) /\ pos[u] = p - Capacity => Dequeuing(u)' /\ pos'[u] = p - Capacity
      BY <1>2, <2>2
    <3> QED
      BY <3>2, <3>3 DEF Vacant
  <2> QED
    BY <2>1, <2>2
<1>15. Samples'
  <2> SUFFICES ASSUME NEW u \in Threads, u # t
               PROVE  /\ pc[u] \in {"e_seq", "e_cas"} => pos[u] <= head /\ head - pos[u] <= MaxLag
                      /\ pc[u] \in {"d_seq", "d_cas", "s_head"} => pos[u] <= tail /\ tail - pos[u] <= MaxLag
                      /\ pc[u] = "e_cas" /\ pos[u] = head
                           => head < tail + Capacity /\ seq'[CellOf(pos[u])] = pos[u]
                      /\ pc[u] = "d_cas" /\ pos[u] = tail
                           => tail < head /\ seq'[CellOf(pos[u])] = pos[u] + 1
    BY <1>2 DEF Samples
  <2>1. pc[u] = "e_cas" /\ pos[u] = head => CellOf(pos[u]) # c
    BY <1>4, <1>5 DEF Samples, Counters, c
  <2>2. pc[u] = "d_cas" /\ pos[u] = tail => CellOf(pos[u]) # c
    BY <1>4, <1>5 DEF Samples, Counters
  <2> QED
    BY <1>8, <1>9, <2>1, <2>2 DEF Samples
<1>16. Contents'
  BY <1>2, <1>12 DEF Contents, Item
<1> QED
  BY <1>1, <1>7, <1>10, <1>11, <1>13, <1>14, <1>15, <1>16

(***************************************************************************)
(* The theorems.                                                           *)
(***************************************************************************)

(* The queue as mpmc_init leaves it, or any emptied queue. *)
LEMMA Initially == Init => TypeOK /\ IInv
<1> SUFFICES ASSUME Init PROVE TypeOK /\ IInv
  OBVIOUS
<1> USE QueueAssumption DEF Init
<1>1. Capacity \in Nat \ {0} /\ WordSize \in Nat \ {0} /\ Start \in Int
  OBVIOUS
<1>2. ASSUME NEW c \in Int
      PROVE  /\ (c - Start) % Capacity \in 0 .. (Capacity - 1)
             /\ (Start + ((c - Start) % Capacity)) % Capacity = c % Capacity
  <2>1. c - Start \in Int
    OBVIOUS
  <2> QED
    BY ONLY <1>1, <1>2, <2>1, DivMod, ModWindow
<1>3. seq \in [Cells -> Nat]
  BY <1>2 DEF Cells
<1>4. TypeOK
  BY <1>3 DEF TypeOK, Labels
<1>5. Vacant
  <2> SUFFICES ASSUME NEW p \in Start .. (Start + Capacity - 1)
               PROVE  seq[CellOf(p)] = p
    BY DEF Vacant
  <2> DEFINE c == CellOf(p)
             s == Start + ((c - Start) % Capacity)
  <2>1. c \in Cells
    BY CellFacts
  <2>2. seq[c] = s
    BY <2>1
  <2>3. s \in Start .. (Start + Capacity - 1) /\ s % Capacity = c % Capacity
    <3>1. c \in Int
      BY <2>1 DEF Cells
    <3> QED
      BY ONLY <1>1, <3>1, ModWindow
  <2>4. c % Capacity = p % Capacity
    <3>1. WordSize % Capacity = 0 /\ p \in Int /\ p % WordSize \in Int
      BY <1>1, DivMod
    <3>2. (p % WordSize) % Capacity = p % Capacity
      BY ONLY <1>1, <3>1, ModOfMod
    <3>3. c \in 0 .. (Capacity - 1)
      BY <2>1 DEF Cells
    <3>4. c % Capacity = c
      BY ONLY <1>1, <3>3
    <3> QED
      BY <3>2, <3>4 DEF CellOf, Word
  <2> HIDE DEF c, s
  <2>5. s \in Int /\ p \in Int
    BY <2>3
  <2>6. CASE s < p
    <3>1. p < s + Capacity
      BY <2>3
    <3>2. s % Capacity # p % Capacity
      BY ONLY <1>1, <2>5, <2>6, <3>1, ModDistinct
    <3> QED
      BY <2>3, <2>4, <3>2
  <2>7. CASE p < s
    <3>1. s < p + Capacity
      BY <2>3
    <3>2. s % Capacity # p % Capacity
      BY ONLY <1>1, <2>5, <2>7, <3>1, ModDistinct
    <3> QED
      BY <2>3, <2>4, <3>2
  <2> QED
    BY <2>2, <2>5, <2>6, <2>7 DEF c
<1>6. Counters /\ Owners /\ OneOwner /\ Taken /\ Samples /\ Contents /\ Roles
  BY DEF Counters, Owners, OneOwner, Taken, Samples, Contents, Roles, Enqueuing, Dequeuing
<1> QED
  BY <1>4, <1>5, <1>6 DEF IInv

(* Every step of every thread preserves the invariant. *)
LEMMA Inductive == TypeOK /\ IInv /\ [Next]_vars => TypeOK' /\ IInv'
<1> SUFFICES ASSUME TypeOK, IInv, [Next]_vars PROVE TypeOK' /\ IInv'
  OBVIOUS
<1>1. CASE UNCHANGED vars
  BY <1>1 DEF vars, TypeOK, IInv, Counters, Owners, OneOwner, Taken, Vacant,
              Samples, Contents, Roles, Enqueuing, Dequeuing, Item
<1>2. ASSUME NEW t \in Threads, Calls(t) \/ Step(t) \/ ClaimFails(t)
      PROVE  TypeOK' /\ IInv'
  <2>1. CASE EnqClaim(t)
    BY <2>1, EnqClaimStep
  <2>2. CASE DeqClaim(t)
    BY <2>2, DeqClaimStep
  <2>3. CASE EnqWrite(t)
    BY <2>3, EnqWriteStep
  <2>4. CASE DeqRead(t)
    BY <2>4, DeqReadStep
  <2>5. CASE EnqPublish(t)
    BY <2>5, EnqPublishStep
  <2>6. CASE DeqRelease(t)
    BY <2>6, DeqReleaseStep
  <2>7. CASE \/ \E n \in 1 .. MaxBulk : EnqCall(t, n) \/ DeqCall(t, n)
             \/ EnqLoad(t) \/ EnqSlotFree(t) \/ EnqFull(t) \/ EnqStale(t)
             \/ DeqLoad(t) \/ DeqSlotReady(t) \/ DeqEmpty(t) \/ DeqStale(t)
             \/ EnqClaimFails(t) \/ DeqClaimFails(t)
             \/ SizeCall(t) \/ SizeStep(t)
    BY <2>7, QuietActions
  <2> QED
    BY <1>2, <2>1, <2>2, <2>3, <2>4, <2>5, <2>6, <2>7 DEF Calls, Step, ClaimFails
<1> QED
  BY <1>1, <1>2 DEF Next

(* The types and the protocol of the sequence numbers hold in every reachable
   state of the queue, for any threads, capacity, word size and start.      *)
THEOREM ProtocolInvariant == Spec => [](TypeOK /\ IInv)
  BY Initially, Inductive, PTL DEF Spec

(* The variables of dv_queue.c keep their types. *)
THEOREM TypeCorrect == Spec => []TypeOK
  BY ProtocolInvariant, PTL

(* No two threads ever own the same cell (dv_queue.c:68, 100). *)
THEOREM NoDataRace == Spec => []SlotExclusive
<1>1. TypeOK /\ IInv => SlotExclusive
  <2> SUFFICES ASSUME TypeOK, IInv, NEW t \in Threads, NEW u \in Threads, t # u,
                      Enqueuing(t) \/ Dequeuing(t), Enqueuing(u) \/ Dequeuing(u)
               PROVE  CellOf(pos[t]) # CellOf(pos[u])
    BY DEF SlotExclusive
  <2> USE QueueAssumption DEF IInv
  <2>1. pos[t] \in Nat /\ pos[u] \in Nat /\ head \in Nat /\ tail \in Nat
    BY DEF TypeOK
  <2>2. /\ head - Capacity <= pos[t] /\ pos[t] < head
        /\ head - Capacity <= pos[u] /\ pos[u] < head
    BY <2>1 DEF Owners, Counters
  <2>3. pos[t] # pos[u]
    <3>1. ~(Enqueuing(t) /\ Dequeuing(u)) \/ pos[t] > pos[u]
      BY <2>1 DEF Owners
    <3>2. ~(Dequeuing(t) /\ Enqueuing(u)) \/ pos[u] > pos[t]
      BY <2>1 DEF Owners
    <3> QED
      BY <2>1, <3>1, <3>2 DEF OneOwner
  <2> QED
    BY <2>1, <2>2, <2>3, CellNear
<1> QED
  BY <1>1, ProtocolInvariant, PTL

(* mpmc_size never under-reports and never exceeds the capacity
   (dv_queue.c:146-162).                                                    *)
THEOREM SizeIsHonest == Spec => SizeHonest
<1>1. ASSUME TypeOK, IInv, NEW t \in Monitors, SizeStep(t), pc'[t] = "idle"
      PROVE  head - tail <= size'[t] /\ size'[t] <= Capacity
  <2> USE QueueAssumption DEF IInv
  <2>1. t \in Threads
    BY DEF Threads
  <2>2. SizeHead(t)
    BY <1>1, <2>1 DEF SizeStep, SizeTail, Goto, TypeOK
  <2>3. pos[t] <= tail /\ tail - pos[t] <= MaxLag
    BY <1>1, <2>1, <2>2 DEF SizeHead, Samples
  <2>4. head \in Nat /\ tail \in Nat /\ pos[t] \in Nat
    BY <1>1, <2>1 DEF TypeOK
  <2>5. Word(head - pos[t]) = head - pos[t]
    BY <1>1, <2>3, <2>4, WordFacts DEF Counters, MaxLag
  <2>6. size'[t] = IF head - pos[t] > Capacity THEN Capacity ELSE head - pos[t]
    BY <1>1, <2>1, <2>2, <2>5 DEF SizeHead, TypeOK
  <2> QED
    BY <1>1, <2>3, <2>4, <2>6 DEF Counters
<1>2. TypeOK /\ IInv /\ [Next]_vars =>
        [\A t \in Monitors :
           SizeStep(t) /\ pc'[t] = "idle"
             => head - tail <= size'[t] /\ size'[t] <= Capacity]_vars
  BY <1>1
<1> QED
  BY <1>2, ProtocolInvariant, PTL DEF Spec, SizeHonest

(***************************************************************************)
(* The contents of the queue as a sequence.                                *)
(***************************************************************************)

(* The items claimed for a run of positions form a sequence. *)
LEMMA RunIsSeq ==
  ASSUME NEW h \in Nat, NEW l \in Nat, l <= h, NEW f,
         \A p \in l .. h - 1 : f[CellOf(p)] \in Items,
         NEW s, s = [i \in 1 .. h - l |-> f[CellOf(l + i - 1)]]
  PROVE  /\ s \in Seq(Items)
         /\ Len(s) = h - l
         /\ \A i \in 1 .. (h - l) : s[i] = f[CellOf(l + i - 1)]
         /\ s = <<>> <=> h = l
<1>1. h - l \in Nat
  OBVIOUS
<1>2. ASSUME NEW i \in 1 .. (h - l) PROVE f[CellOf(l + i - 1)] \in Items
  <2>1. l + i - 1 \in l .. h - 1
    BY <1>1
  <2> QED
    BY <2>1
<1>3. s \in Seq(Items) /\ Len(s) = h - l
  BY <1>1, <1>2
<1>4. s = <<>> <=> Len(s) = 0
  BY <1>3, EmptySeq
<1>5. \A i \in 1 .. (h - l) : s[i] = f[CellOf(l + i - 1)]
  OBVIOUS
<1>6. h - l = 0 <=> h = l
  OBVIOUS
<1> QED
  BY <1>3, <1>4, <1>5, <1>6

LEMMA ItemsFacts ==
  ASSUME TypeOK, IInv
  PROVE  /\ items \in Seq(Items)
         /\ Len(items) = head - tail
         /\ \A i \in 1 .. (head - tail) : items[i] = claim[CellOf(tail + i - 1)]
         /\ items = <<>> <=> head = tail
<1>1. head \in Nat /\ tail \in Nat /\ tail <= head
  BY DEF TypeOK, IInv, Counters
<1>2. \A p \in tail .. head - 1 : claim[CellOf(p)] \in Items
  BY DEF IInv, Contents
<1>3. items = [i \in 1 .. head - tail |-> claim[CellOf(tail + i - 1)]]
  BY DEF items
<1> HIDE DEF items
<1> QED
  BY ONLY <1>1, <1>2, <1>3, RunIsSeq

LEMMA ItemsFactsNext ==
  ASSUME TypeOK', IInv'
  PROVE  /\ items' \in Seq(Items)
         /\ Len(items') = head' - tail'
         /\ \A i \in 1 .. (head' - tail') : items'[i] = claim'[CellOf(tail' + i - 1)]
<1>1. head' \in Nat /\ tail' \in Nat /\ tail' <= head'
  BY DEF TypeOK, IInv, Counters
<1>2. \A p \in tail' .. head' - 1 : claim'[CellOf(p)] \in Items
  BY DEF IInv, Contents
<1>3. items' = [i \in 1 .. head' - tail' |-> claim'[CellOf(tail' + i - 1)]]
  BY DEF items
<1> DEFINE h == head'
           l == tail'
           f == claim'
           s == items'
<1>4. /\ h \in Nat /\ l \in Nat /\ l <= h
      /\ \A p \in l .. h - 1 : f[CellOf(p)] \in Items
      /\ s = [i \in 1 .. h - l |-> f[CellOf(l + i - 1)]]
  BY <1>1, <1>2, <1>3
<1> HIDE DEF h, l, f, s
<1>5. /\ s \in Seq(Items) /\ Len(s) = h - l
      /\ \A i \in 1 .. (h - l) : s[i] = f[CellOf(l + i - 1)]
  BY ONLY <1>4, RunIsSeq
<1> QED
  BY <1>5 DEF h, l, f, s

(* A successful compare-and-swap of head appends the item it carries. *)
LEMMA ClaimAppends ==
  ASSUME TypeOK, IInv, NEW t \in Threads, EnqClaim(t)
  PROVE  Len(items) < Capacity /\ items' = Append(items, Item(t))
<1> USE QueueAssumption
<1>1. TypeOK' /\ IInv'
  BY EnqClaimStep
<1>2. head \in Nat /\ tail \in Nat /\ tail <= head /\ pos[t] \in Nat
  BY DEF TypeOK, IInv, Counters
<1>3. pos[t] = head /\ head < tail + Capacity
  <2>1. pos[t] <= head /\ head - pos[t] <= MaxLag
    BY DEF EnqClaim, Samples, IInv
  <2>2. WordEq(head, pos[t])
    BY DEF EnqClaim
  <2>3. Capacity - WordSize < head - pos[t] /\ head - pos[t] < WordSize
    BY <1>2, <2>1 DEF MaxLag
  <2>4. head \in Int /\ pos[t] \in Int
    BY <1>2
  <2>5. pos[t] = head
    BY ONLY <2>2, <2>3, <2>4, WordFacts
  <2> QED
    BY <2>5 DEF EnqClaim, Samples, IInv
<1>4. head' = head + 1 /\ tail' = tail /\ claim' = [claim EXCEPT ![CellOf(head)] = Item(t)]
  BY <1>3 DEF EnqClaim
<1>5. \A p \in tail .. head : claim'[CellOf(p)] = IF p = head THEN Item(t) ELSE claim[CellOf(p)]
  <2> TAKE p \in tail .. head
  <2>1. CellOf(p) \in Cells /\ p \in Nat
    BY <1>2, CellFacts
  <2>2. CASE p = head
    BY <1>4, <2>1, <2>2 DEF TypeOK
  <2>3. CASE p # head
    <3>1. CellOf(p) # CellOf(head)
      BY <1>2, <1>3, <2>1, <2>3, CellNear
    <3> QED
      BY <1>4, <2>1, <2>3, <3>1 DEF TypeOK
  <2> QED
    BY <2>2, <2>3
<1>6. Item(t) \in Items
  BY ItemType DEF IInv
<1>7. /\ items \in Seq(Items) /\ Len(items) = head - tail
      /\ \A i \in 1 .. (head - tail) : items[i] = claim[CellOf(tail + i - 1)]
  BY ItemsFacts
<1>8. /\ items' \in Seq(Items) /\ Len(items') = head' - tail'
      /\ \A i \in 1 .. (head' - tail') : items'[i] = claim'[CellOf(tail' + i - 1)]
  BY <1>1, ItemsFactsNext
<1> DEFINE a == Append(items, Item(t))
<1>9. /\ a \in Seq(Items) /\ Len(a) = Len(items) + 1
      /\ \A i \in 1 .. (Len(items) + 1) : a[i] = IF i <= Len(items) THEN items[i] ELSE Item(t)
  BY <1>6, <1>7, AppendProperties
<1> HIDE DEF a
<1>10. Len(items') = Len(a)
  BY <1>2, <1>4, <1>7, <1>8, <1>9
<1>11. ASSUME NEW i \in 1 .. Len(items') PROVE items'[i] = a[i]
  <2>1. i \in 1 .. (head + 1 - tail) /\ tail + i - 1 \in tail .. head
    BY <1>2, <1>4, <1>8
  <2>2. items'[i] = IF tail + i - 1 = head THEN Item(t) ELSE claim[CellOf(tail + i - 1)]
    BY <1>4, <1>5, <1>8, <2>1
  <2>3. CASE i = Len(items) + 1
    BY <1>2, <1>7, <1>9, <2>1, <2>2, <2>3
  <2>4. CASE i <= Len(items)
    BY <1>2, <1>7, <1>9, <2>1, <2>2, <2>4
  <2> QED
    BY <1>2, <1>7, <2>1, <2>3, <2>4
<1>12. items' = a
  BY <1>8, <1>9, <1>10, <1>11, SeqEqual
<1> QED
  BY <1>2, <1>3, <1>7, <1>12 DEF a

(* A successful compare-and-swap of tail removes the oldest item. *)
LEMMA ClaimRemoves ==
  ASSUME TypeOK, IInv, NEW t \in Threads, DeqClaim(t)
  PROVE  /\ items # <<>>
         /\ Head(items) = claim[CellOf(pos[t])]
         /\ items' = Tail(items)
<1> USE QueueAssumption
<1>1. TypeOK' /\ IInv'
  BY DeqClaimStep
<1>2. head \in Nat /\ tail \in Nat /\ tail <= head /\ pos[t] \in Nat
  BY DEF TypeOK, IInv, Counters
<1>3. pos[t] = tail /\ tail < head
  <2>1. pos[t] <= tail /\ tail - pos[t] <= MaxLag
    BY DEF DeqClaim, Samples, IInv
  <2>2. WordEq(tail, pos[t])
    BY DEF DeqClaim
  <2>3. Capacity - WordSize < tail - pos[t] /\ tail - pos[t] < WordSize
    BY <1>2, <2>1 DEF MaxLag
  <2>4. tail \in Int /\ pos[t] \in Int
    BY <1>2
  <2>5. pos[t] = tail
    BY ONLY <2>2, <2>3, <2>4, WordFacts
  <2> QED
    BY <2>5 DEF DeqClaim, Samples, IInv
<1>4. head' = head /\ tail' = tail + 1 /\ claim' = claim
  BY DEF DeqClaim
<1>5. /\ items \in Seq(Items) /\ Len(items) = head - tail /\ items # <<>>
      /\ \A i \in 1 .. (head - tail) : items[i] = claim[CellOf(tail + i - 1)]
  BY <1>2, <1>3, ItemsFacts
<1>6. /\ items' \in Seq(Items) /\ Len(items') = head' - tail'
      /\ \A i \in 1 .. (head' - tail') : items'[i] = claim'[CellOf(tail' + i - 1)]
  BY <1>1, ItemsFactsNext
<1> DEFINE b == Tail(items)
<1>7. /\ b \in Seq(Items) /\ Len(b) = Len(items) - 1
      /\ \A i \in 1 .. Len(b) : b[i] = items[i + 1]
  BY <1>5, HeadTailProperties
<1> HIDE DEF b
<1>8. Len(items') = Len(b)
  BY <1>2, <1>4, <1>5, <1>6, <1>7
<1>9. ASSUME NEW i \in 1 .. Len(items') PROVE items'[i] = b[i]
  <2>1. /\ i \in 1 .. (head' - tail') /\ i + 1 \in 1 .. (head - tail)
        /\ tail' + i - 1 = tail + (i + 1) - 1
    BY <1>2, <1>4, <1>6
  <2> QED
    BY <1>4, <1>5, <1>6, <1>7, <1>8, <2>1
<1>10. items' = b
  BY <1>6, <1>7, <1>8, <1>9, SeqEqual
<1>11. Head(items) = items[1] /\ items[1] = claim[CellOf(tail)]
  <2>1. 1 \in 1 .. (head - tail) /\ tail + 1 - 1 = tail
    BY <1>2, <1>3
  <2> QED
    BY <1>5, <2>1
<1> QED
  BY <1>3, <1>5, <1>10, <1>11 DEF b

(***************************************************************************)
(* How a step of one thread moves the mapped variables.                    *)
(***************************************************************************)
LEMMA PhaseFacts ==
  /\ Phase("idle") = "idle" /\ Phase("s_tail") = "idle" /\ Phase("s_head") = "idle"
  /\ Phase("e_load") = "enq" /\ Phase("e_seq") = "enq" /\ Phase("e_cas") = "enq"
  /\ Phase("e_data") = "enqDone" /\ Phase("e_pub") = "enqDone"
  /\ Phase("d_load") = "deq" /\ Phase("d_seq") = "deq" /\ Phase("d_cas") = "deq"
  /\ Phase("d_data") = "deqDone" /\ Phase("d_rel") = "deqDone"
  BY DEF Phase

LEMMA CallMoves ==
  ASSUME TypeOK, NEW t \in Threads, NEW label, pc' = [pc EXCEPT ![t] = label]
  PROVE  /\ call' = [call EXCEPT ![t] = Phase(label)]
         /\ Phase(label) = Phase(pc[t]) => call' = call
  BY DEF call, TypeOK

LEMMA SameItems ==
  ASSUME UNCHANGED <<head, tail, claim>>
  PROVE  items' = items
  BY DEF items

LEMMA SameOffer ==
  ASSUME UNCHANGED sent
  PROVE  offer' = offer
  BY DEF offer, Item

LEMMA SameRet ==
  ASSUME TypeOK, UNCHANGED <<claim, got>>, NEW t \in Threads,
         pc[t] # "d_data", pc'[t] # "d_data",
         \A u \in Threads \ {t} : pc'[u] = pc[u] /\ pos'[u] = pos[u]
  PROVE  ret' = ret
  BY DEF ret, TypeOK

(* Steps before an enqueue takes effect, and between that and its return, are
   invisible.                                                               *)
LEMMA EnqQuiet ==
  ASSUME TypeOK, IInv, NEW t \in Threads,
         \/ EnqLoad(t) \/ EnqSlotFree(t) \/ EnqStale(t)
         \/ EnqClaimFails(t) \/ EnqWrite(t)
  PROVE  UNCHANGED Fifo!vars
<1>1. PICK label \in Labels : pc' = [pc EXCEPT ![t] = label] /\ Phase(label) = Phase(pc[t]) /\ label # "d_data"
  BY PhaseFacts DEF EnqLoad, EnqSlotFree, EnqStale, EnqClaimFails, EnqWrite, Goto, Labels
<1>2. /\ UNCHANGED <<head, tail, claim, sent, got>> /\ pc[t] # "d_data"
      /\ \A u \in Threads \ {t} : pos'[u] = pos[u]
  BY DEF EnqLoad, EnqSlotFree, EnqStale, EnqClaimFails, EnqWrite, shared, TypeOK
<1>3. call' = call
  BY <1>1, CallMoves
<1>4. pc'[t] # "d_data" /\ \A u \in Threads \ {t} : pc'[u] = pc[u]
  BY <1>1 DEF TypeOK
<1>5. ret' = ret
  BY <1>2, <1>4, SameRet
<1> QED
  BY <1>2, <1>3, <1>5, SameItems, SameOffer DEF Fifo!vars

LEMMA DeqQuiet ==
  ASSUME TypeOK, IInv, NEW t \in Threads,
         DeqLoad(t) \/ DeqSlotReady(t) \/ DeqStale(t) \/ DeqClaimFails(t)
  PROVE  UNCHANGED Fifo!vars
<1>1. PICK label \in Labels : pc' = [pc EXCEPT ![t] = label] /\ Phase(label) = Phase(pc[t]) /\ label # "d_data"
  BY PhaseFacts DEF DeqLoad, DeqSlotReady, DeqStale, DeqClaimFails, Goto, Labels
<1>2. /\ UNCHANGED <<head, tail, claim, sent, got>> /\ pc[t] # "d_data"
      /\ \A u \in Threads \ {t} : pos'[u] = pos[u]
  BY DEF DeqLoad, DeqSlotReady, DeqStale, DeqClaimFails, shared, TypeOK
<1>3. call' = call
  BY <1>1, CallMoves
<1>4. pc'[t] # "d_data" /\ \A u \in Threads \ {t} : pc'[u] = pc[u]
  BY <1>1 DEF TypeOK
<1>5. ret' = ret
  BY <1>2, <1>4, SameRet
<1> QED
  BY <1>2, <1>3, <1>5, SameItems, SameOffer DEF Fifo!vars

LEMMA SizeQuiet ==
  ASSUME TypeOK, IInv, NEW t \in Threads, SizeCall(t) \/ SizeStep(t)
  PROVE  UNCHANGED Fifo!vars
<1>1. PICK label \in Labels : pc' = [pc EXCEPT ![t] = label] /\ Phase(label) = Phase(pc[t]) /\ label # "d_data"
  BY PhaseFacts DEF SizeCall, SizeStep, SizeTail, SizeHead, Return, Goto, Labels
<1>2. /\ UNCHANGED <<head, tail, claim, sent, got>> /\ pc[t] # "d_data"
      /\ \A u \in Threads \ {t} : pos'[u] = pos[u]
  BY DEF SizeCall, SizeStep, SizeTail, SizeHead, Return, Goto, shared, TypeOK
<1>3. call' = call
  BY <1>1, CallMoves
<1>4. pc'[t] # "d_data" /\ \A u \in Threads \ {t} : pc'[u] = pc[u]
  BY <1>1 DEF TypeOK
<1>5. ret' = ret
  BY <1>2, <1>4, SameRet
<1> QED
  BY <1>2, <1>3, <1>5, SameItems, SameOffer DEF Fifo!vars

(* What the read of the slot returns is what the slot was claimed for. *)
LEMMA ReadQuiet ==
  ASSUME TypeOK, IInv, NEW t \in Threads, DeqRead(t)
  PROVE  UNCHANGED Fifo!vars
<1>1. pc' = [pc EXCEPT ![t] = "d_rel"] /\ pc[t] = "d_data"
  BY DEF DeqRead, Goto
<1>2. /\ UNCHANGED <<head, tail, claim, sent, pos>>
      /\ got' = [got EXCEPT ![t] = data[CellOf(pos[t])]]
  BY DEF DeqRead, shared
<1>3. call' = call
  <2>1. Phase("d_rel") = Phase(pc[t])
    BY <1>1, PhaseFacts
  <2> QED
    BY <1>1, <2>1, CallMoves
<1>4. data[CellOf(pos[t])] = claim[CellOf(pos[t])]
  BY <1>1 DEF IInv, Contents
<1>5. ret' = ret
  BY <1>1, <1>2, <1>4 DEF ret, TypeOK
<1> QED
  BY <1>2, <1>3, <1>5, SameItems, SameOffer DEF Fifo!vars

(***************************************************************************)
(* Calls, effects, refusals and returns.                                   *)
(***************************************************************************)
LEMMA EnqCallMaps ==
  ASSUME TypeOK, IInv, NEW t \in Threads, NEW n \in 1 .. MaxBulk, EnqCall(t, n)
  PROVE  Fifo!CallEnq(t)
<1>1. pc' = [pc EXCEPT ![t] = "e_load"] /\ pc[t] = "idle"
  BY DEF EnqCall, Goto
<1>2. UNCHANGED <<head, tail, claim, sent, got, pos>>
  BY DEF EnqCall, shared
<1>3. call[t] = "idle" /\ call' = [call EXCEPT ![t] = "enq"]
  <2>1. call' = [call EXCEPT ![t] = Phase("e_load")] /\ call[t] = Phase("idle")
    BY <1>1, CallMoves DEF call
  <2> QED
    BY <2>1, PhaseFacts
<1>4. pc'[t] # "d_data" /\ \A u \in Threads \ {t} : pc'[u] = pc[u] /\ pos'[u] = pos[u]
  BY <1>1, <1>2 DEF TypeOK
<1>5. ret' = ret
  BY <1>1, <1>2, <1>4, SameRet
<1> QED
  BY <1>2, <1>3, <1>5, SameItems, SameOffer DEF Fifo!CallEnq

LEMMA EnqClaimMaps ==
  ASSUME TypeOK, IInv, NEW t \in Threads, EnqClaim(t)
  PROVE  Fifo!Enq(t)
<1>1. pc' = [pc EXCEPT ![t] = "e_data"] /\ pc[t] = "e_cas"
  BY DEF EnqClaim, Goto
<1>2. UNCHANGED <<tail, data, sent, got, pos>>
  BY DEF EnqClaim
<1>3. call[t] = "enq" /\ call' = [call EXCEPT ![t] = "enqDone"]
  <2>1. call' = [call EXCEPT ![t] = Phase("e_data")] /\ call[t] = Phase("e_cas")
    BY <1>1, CallMoves DEF call
  <2> QED
    BY <2>1, PhaseFacts
<1>4. Len(items) < Capacity /\ items' = Append(items, offer[t])
  BY ClaimAppends DEF offer
<1>5. TypeOK' /\ IInv'
  BY EnqClaimStep
<1>6. ASSUME NEW u \in Threads, pc'[u] = "d_data"
      PROVE  claim'[CellOf(pos'[u])] = claim[CellOf(pos[u])] /\ pc[u] = "d_data"
  <2>1. pc[u] = "d_data" /\ pos'[u] = pos[u] /\ data' = data
    BY <1>1, <1>2, <1>6 DEF TypeOK
  <2>2. data'[CellOf(pos'[u])] = claim'[CellOf(pos'[u])]
    BY <1>5, <1>6 DEF IInv, Contents
  <2>3. data[CellOf(pos[u])] = claim[CellOf(pos[u])]
    BY <2>1 DEF IInv, Contents
  <2> QED
    BY <2>1, <2>2, <2>3
<1>7. \A u \in Threads : pc'[u] # "d_data" => pc[u] # "d_data"
  BY <1>1 DEF TypeOK
<1>8. ret' = ret
  BY <1>2, <1>6, <1>7 DEF ret
<1> QED
  BY <1>2, <1>3, <1>4, <1>8, SameOffer DEF Fifo!Enq

(* An enqueue gives up only on a full queue or behind a dequeue that owns the
   slot.                                                                    *)
LEMMA EnqFullMaps ==
  ASSUME TypeOK, IInv, NEW t \in Threads, EnqFull(t)
  PROVE  Fifo!EnqRefused(t)
<1> USE QueueAssumption
<1>1. pc' = [pc EXCEPT ![t] = "idle"] /\ pc[t] = "e_seq"
  BY DEF EnqFull, Goto, Return
<1>2. /\ UNCHANGED <<head, tail, claim, sent, got>>
      /\ \A u \in Threads \ {t} : pos'[u] = pos[u]
  BY DEF EnqFull, Return, shared, TypeOK
<1>3. call[t] = "enq" /\ call' = [call EXCEPT ![t] = "idle"]
  <2>1. call' = [call EXCEPT ![t] = Phase("idle")] /\ call[t] = Phase("e_seq")
    BY <1>1, CallMoves DEF call
  <2> QED
    BY <2>1, PhaseFacts
<1>4. pc'[t] # "d_data" /\ \A u \in Threads \ {t} : pc'[u] = pc[u]
  BY <1>1 DEF TypeOK
<1>5. ret' = ret
  BY <1>1, <1>2, <1>4, SameRet
<1>6. Len(items) = Capacity \/ \E u \in Threads : call[u] = "deqDone"
  <2>1. pos[t] \in Nat /\ pos[t] <= head /\ head - pos[t] <= MaxLag
    BY <1>1 DEF IInv, Samples, TypeOK
  <2> DEFINE s == seq[CellOf(pos[t])]
  <2>2. s # pos[t] /\ s <= pos[t] /\ pos[t] = head
    BY <2>1, EnqComparisons DEF EnqFull, IInv
  <2>3. \/ head = tail + Capacity
        \/ \E u \in Threads : Dequeuing(u)
    BY <2>2, SeqOfHead DEF IInv
  <2>4. Len(items) = head - tail
    BY ItemsFacts
  <2>5. \A u \in Threads : Dequeuing(u) => call[u] = "deqDone"
    BY PhaseFacts DEF Dequeuing, call
  <2> QED
    BY <2>3, <2>4, <2>5 DEF TypeOK
<1> QED
  BY <1>2, <1>3, <1>5, <1>6, SameItems, SameOffer DEF Fifo!EnqRefused

LEMMA EnqPublishMaps ==
  ASSUME TypeOK, IInv, NEW t \in Threads, EnqPublish(t)
  PROVE  Fifo!EnqReturns(t)
<1> USE QueueAssumption
<1>1. PICK label \in {"idle", "e_load"} : pc' = [pc EXCEPT ![t] = label] /\ pc[t] = "e_pub"
  BY DEF EnqPublish, NextOfBulk, Return, Goto
<1>2. /\ UNCHANGED <<head, tail, claim, got>>
      /\ sent' = [sent EXCEPT ![t] = @ + 1]
      /\ \A u \in Threads \ {t} : pos'[u] = pos[u]
  BY DEF EnqPublish, NextOfBulk, Return, TypeOK
<1>3. call[t] = "enqDone" /\ \E next \in {"idle", "enq"} : call' = [call EXCEPT ![t] = next]
  <2>1. call' = [call EXCEPT ![t] = Phase(label)] /\ call[t] = Phase("e_pub")
    BY <1>1, CallMoves DEF call
  <2>2. Phase(label) \in {"idle", "enq"}
    BY <1>1, PhaseFacts
  <2> QED
    BY <2>1, <2>2, PhaseFacts
<1>4. pc'[t] # "d_data" /\ \A u \in Threads \ {t} : pc'[u] = pc[u]
  BY <1>1 DEF TypeOK
<1>5. ret' = ret
  BY <1>1, <1>2, <1>4, SameRet
<1>6. <<t, sent[t] + 2>> \in Items
  <2>1. sent[t] + 2 \in 1 .. MaxSent + 1
    BY <1>1 DEF IInv, Roles, TypeOK
  <2> QED
    BY <2>1 DEF Items
<1>7. offer' = [offer EXCEPT ![t] = <<t, sent[t] + 2>>]
  <2>1. \A u \in Threads : sent'[u] = IF u = t THEN sent[u] + 1 ELSE sent[u]
    BY <1>2 DEF TypeOK
  <2>2. sent[t] + 1 + 1 = sent[t] + 2
    BY DEF TypeOK
  <2> QED
    BY <2>1, <2>2 DEF offer, Item
<1> QED
  BY <1>2, <1>3, <1>5, <1>6, <1>7, SameItems DEF Fifo!EnqReturns

LEMMA DeqCallMaps ==
  ASSUME TypeOK, IInv, NEW t \in Threads, NEW n \in 1 .. MaxBulk, DeqCall(t, n)
  PROVE  Fifo!CallDeq(t)
<1>1. pc' = [pc EXCEPT ![t] = "d_load"] /\ pc[t] = "idle"
  BY DEF DeqCall, Goto
<1>2. UNCHANGED <<head, tail, claim, sent, pos>> /\ got' = [got EXCEPT ![t] = NoItem]
  BY DEF DeqCall, shared
<1>3. call[t] = "idle" /\ call' = [call EXCEPT ![t] = "deq"]
  <2>1. call' = [call EXCEPT ![t] = Phase("d_load")] /\ call[t] = Phase("idle")
    BY <1>1, CallMoves DEF call
  <2> QED
    BY <2>1, PhaseFacts
<1>4. ret' = [ret EXCEPT ![t] = NoItem]
  BY <1>1, <1>2 DEF ret, TypeOK
<1> QED
  BY <1>2, <1>3, <1>4, SameItems, SameOffer DEF Fifo!CallDeq

LEMMA DeqClaimMaps ==
  ASSUME TypeOK, IInv, NEW t \in Threads, DeqClaim(t)
  PROVE  Fifo!Deq(t)
<1>1. pc' = [pc EXCEPT ![t] = "d_data"] /\ pc[t] = "d_cas"
  BY DEF DeqClaim, Goto
<1>2. UNCHANGED <<claim, sent, got, pos>>
  BY DEF DeqClaim
<1>3. call[t] = "deq" /\ call' = [call EXCEPT ![t] = "deqDone"]
  <2>1. call' = [call EXCEPT ![t] = Phase("d_data")] /\ call[t] = Phase("d_cas")
    BY <1>1, CallMoves DEF call
  <2> QED
    BY <2>1, PhaseFacts
<1>4. items # <<>> /\ Head(items) = claim[CellOf(pos[t])] /\ items' = Tail(items)
  BY ClaimRemoves
<1>5. ret' = [ret EXCEPT ![t] = claim[CellOf(pos[t])]]
  BY <1>1, <1>2 DEF ret, TypeOK
<1> QED
  BY <1>2, <1>3, <1>4, <1>5, SameOffer DEF Fifo!Deq

(* A dequeue gives up only on an empty queue or behind an enqueue that owns
   the slot.                                                                *)
LEMMA DeqEmptyMaps ==
  ASSUME TypeOK, IInv, NEW t \in Threads, DeqEmpty(t)
  PROVE  Fifo!DeqRefused(t)
<1> USE QueueAssumption
<1>1. pc' = [pc EXCEPT ![t] = "idle"] /\ pc[t] = "d_seq"
  BY DEF DeqEmpty, Goto, Return
<1>2. /\ UNCHANGED <<head, tail, claim, sent, got>>
      /\ \A u \in Threads \ {t} : pos'[u] = pos[u]
  BY DEF DeqEmpty, Return, shared, TypeOK
<1>3. call[t] = "deq" /\ call' = [call EXCEPT ![t] = "idle"]
  <2>1. call' = [call EXCEPT ![t] = Phase("idle")] /\ call[t] = Phase("d_seq")
    BY <1>1, CallMoves DEF call
  <2> QED
    BY <2>1, PhaseFacts
<1>4. pc'[t] # "d_data" /\ \A u \in Threads \ {t} : pc'[u] = pc[u]
  BY <1>1 DEF TypeOK
<1>5. ret' = ret
  BY <1>1, <1>2, <1>4, SameRet
<1>6. items = <<>> \/ \E u \in Threads : call[u] = "enqDone"
  <2>1. pos[t] \in Nat /\ pos[t] <= tail /\ tail - pos[t] <= MaxLag
    BY <1>1 DEF IInv, Samples, TypeOK
  <2> DEFINE s == seq[CellOf(pos[t])]
  <2>2. s # pos[t] + 1 /\ s <= pos[t] + 1 /\ s \in Nat
    BY <2>1, DeqComparisons, CellFacts DEF DeqEmpty, IInv, TypeOK
  <2>3. s <= pos[t] => pos[t] = tail
    BY <2>1, DeqComparisons DEF IInv
  <2>4. s # pos[t] + 1 /\ pos[t] = tail
    BY <2>1, <2>2, <2>3
  <2>5. \/ head = tail
        \/ \E u \in Threads : Enqueuing(u)
    BY <2>4, SeqOfTail DEF IInv
  <2>6. items = <<>> <=> head = tail
    BY ItemsFacts
  <2>7. \A u \in Threads : Enqueuing(u) => call[u] = "enqDone"
    BY PhaseFacts DEF Enqueuing, call
  <2> QED
    BY <2>5, <2>6, <2>7
<1> QED
  BY <1>2, <1>3, <1>5, <1>6, SameItems, SameOffer DEF Fifo!DeqRefused

LEMMA DeqReleaseMaps ==
  ASSUME TypeOK, IInv, NEW t \in Threads, DeqRelease(t)
  PROVE  Fifo!DeqReturns(t)
<1> USE QueueAssumption
<1>1. pc[t] = "d_rel" /\ rem[t] \in Nat
  BY DEF DeqRelease, TypeOK
<1>2. /\ UNCHANGED <<head, tail, claim, sent>>
      /\ \A u \in Threads \ {t} : pos'[u] = pos[u]
  BY DEF DeqRelease, NextOfBulk, Return, TypeOK
<1>3. call[t] = "deqDone"
  BY <1>1, PhaseFacts DEF call
<1>4. CASE rem[t] > 1
  <2>1. pc' = [pc EXCEPT ![t] = "d_load"] /\ got' = [got EXCEPT ![t] = NoItem]
    BY <1>1, <1>4 DEF DeqRelease, NextOfBulk, Return, Goto
  <2>2. call' = [call EXCEPT ![t] = "deq"]
    <3>1. call' = [call EXCEPT ![t] = Phase("d_load")]
      BY <2>1, CallMoves
    <3> QED
      BY <3>1, PhaseFacts
  <2>3. ret' = [ret EXCEPT ![t] = NoItem]
    BY <1>2, <2>1 DEF ret, TypeOK
  <2> QED
    BY <1>2, <1>3, <2>2, <2>3, SameItems, SameOffer DEF Fifo!DeqReturns
<1>5. CASE rem[t] <= 1
  <2>1. pc' = [pc EXCEPT ![t] = "idle"] /\ got' = got
    BY <1>1, <1>5 DEF DeqRelease, NextOfBulk, Return, Goto
  <2>2. call' = [call EXCEPT ![t] = "idle"]
    <3>1. call' = [call EXCEPT ![t] = Phase("idle")]
      BY <2>1, CallMoves
    <3> QED
      BY <3>1, PhaseFacts
  <2>3. pc'[t] # "d_data" /\ \A u \in Threads \ {t} : pc'[u] = pc[u]
    BY <2>1 DEF TypeOK
  <2>4. ret' = ret
    BY <1>1, <1>2, <2>1, <2>3, SameRet
  <2> QED
    BY <1>2, <1>3, <2>2, <2>4, SameItems, SameOffer DEF Fifo!DeqReturns
<1> QED
  BY <1>1, <1>4, <1>5

(***************************************************************************)
(* The refinement.                                                         *)
(***************************************************************************)
LEMMA InitMaps == Init => Fifo!Init
<1> SUFFICES ASSUME Init PROVE Fifo!Init
  OBVIOUS
<1>1. TypeOK /\ IInv
  BY Initially
<1>2. items = <<>>
  BY <1>1, ItemsFacts DEF Init
<1>3. call = [t \in Threads |-> "idle"]
  BY PhaseFacts DEF Init, call
<1>4. offer \in [Threads -> Items]
  BY <1>1, ItemType DEF offer, IInv
<1>5. ret = [t \in Threads |-> NoItem]
  BY DEF Init, ret
<1> QED
  BY <1>2, <1>3, <1>4, <1>5 DEF Fifo!Init

LEMMA NextMaps == TypeOK /\ IInv /\ [Next]_vars => [Fifo!Next]_(Fifo!vars)
<1> SUFFICES ASSUME TypeOK, IInv, [Next]_vars PROVE [Fifo!Next]_(Fifo!vars)
  OBVIOUS
<1>1. CASE UNCHANGED vars
  BY <1>1 DEF vars, Fifo!vars, items, call, offer, ret, Item
<1>2. ASSUME NEW t \in Threads, Calls(t) \/ Step(t) \/ ClaimFails(t)
      PROVE  \/ UNCHANGED Fifo!vars
             \/ Fifo!CallEnq(t) \/ Fifo!Enq(t) \/ Fifo!EnqRefused(t) \/ Fifo!EnqReturns(t)
             \/ Fifo!CallDeq(t) \/ Fifo!Deq(t) \/ Fifo!DeqRefused(t) \/ Fifo!DeqReturns(t)
  <2>1. CASE Calls(t)
    BY <2>1, EnqCallMaps, DeqCallMaps, SizeQuiet DEF Calls
  <2>2. CASE EnqClaim(t) \/ EnqFull(t) \/ EnqPublish(t)
    BY <2>2, EnqClaimMaps, EnqFullMaps, EnqPublishMaps
  <2>3. CASE DeqClaim(t) \/ DeqEmpty(t) \/ DeqRelease(t)
    BY <2>3, DeqClaimMaps, DeqEmptyMaps, DeqReleaseMaps
  <2>4. CASE EnqLoad(t) \/ EnqSlotFree(t) \/ EnqStale(t) \/ EnqClaimFails(t) \/ EnqWrite(t)
    BY <2>4, EnqQuiet
  <2>5. CASE DeqLoad(t) \/ DeqSlotReady(t) \/ DeqStale(t) \/ DeqClaimFails(t)
    BY <2>5, DeqQuiet
  <2>6. CASE DeqRead(t) \/ SizeStep(t)
    BY <2>6, ReadQuiet, SizeQuiet
  <2> QED
    BY <1>2, <2>1, <2>2, <2>3, <2>4, <2>5, <2>6 DEF Step, ClaimFails
<1> QED
  BY <1>1, <1>2 DEF Next, Fifo!Next

(* Linearizability of mpmc_enqueue, mpmc_dequeue and their bulk forms
   (dv_queue.c:52-144): every behaviour of the queue is, under the mapping of
   DvQueue, a behaviour of the bounded FIFO.                                *)
THEOREM QueueImplementsFifo == Spec => ImplementsFifo
  BY InitMaps, NextMaps, ProtocolInvariant, PTL DEF Spec, ImplementsFifo, Fifo!Spec
=============================================================================

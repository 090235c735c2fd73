---------------------------- MODULE DvHeapProofs ----------------------------
(* The heap of DvHeap keeps account of its memory, tells the owner of every
   element where it is and stays in order, for every value of the constants. *)
EXTENDS DvHeap, HookedMemoryProofs, WellFoundedInduction, TLAPS

(***************************************************************************)
(* Numbers.                                                                *)
(***************************************************************************)
(* A set of numbers that has a member has a least one. *)
LEMMA LeastNat ==
  ASSUME NEW T, T \subseteq Nat, T # {}
  PROVE  \E m \in T : \A k \in T : m <= k
<1> DEFINE R == {ss \in Nat \X Nat : ss[1] < ss[2]}
<1>1. IsWellFoundedOn(R, Nat)
  BY NatLessThanWellFounded, Zenon DEF OpToRel
<1>2. \A x, y \in Nat : y < x => <<y, x>> \in R
  OBVIOUS
<1> HIDE DEF R
<1>3. PICK x \in T : \A y \in T : ~(<<y, x>> \in R)
  BY <1>1, WFMin
<1>4. ASSUME NEW y \in T PROVE x <= y
  <2>1. x \in Nat /\ y \in Nat
    OBVIOUS
  <2>2. ~(y < x)
    BY <1>2, <1>3, <2>1
  <2> QED
    BY <2>1, <2>2
<1> QED
  BY <1>4

(* A set of numbers that is closed under the next one has them all. *)
LEMMA Induction ==
  ASSUME NEW B, B \subseteq Nat, 0 \in B, \A k \in B : k + 1 \in B
  PROVE  \A k \in Nat : k \in B
<1> DEFINE T == Nat \ B
<1> SUFFICES ASSUME T # {} PROVE FALSE
  OBVIOUS
<1>1. PICK m \in T : \A k \in T : m <= k
  BY LeastNat
<1>2. m \in Nat /\ m # 0
  OBVIOUS
<1>3. m - 1 \in Nat /\ m - 1 \notin T
  BY <1>1, <1>2
<1>4. m \in B
  BY <1>2, <1>3
<1> QED
  BY <1>4

ControlBlocks ==
  [buffer : Addresses \cup {Null}, size : 0 .. SizeMax, capacity : 0 .. SizeMax,
   elem_size : 0 .. SizeMax, order : {"MIN", "MAX"}, on_move : BOOLEAN, align : Nat,
   initial_capacity : 0 .. SizeMax, max_capacity : 0 .. SizeMax, allocator : Hooks,
   growable : BOOLEAN]

Elements == [key : Keys, at : Nat \cup {Garbage}]

Worlds == World(ControlBlocks, Elements \cup {Garbage})

(* What dv_heap_init settles and nothing changes. *)
Prepared(cb) ==
  IF cb.elem_size = 0
  THEN cb.capacity = 0 /\ cb.initial_capacity = 0 /\ ~cb.growable
  ELSE IsPow2(cb.align) /\ cb.allocator.alloc /\ cb.allocator.free

(* Block b is what the capacity of the control block stands for, and a slot
   more for the element that a sift carries.                                *)
Fits(cb, b) ==
  /\ b.bytes = (cb.capacity + 1) * cb.elem_size
  /\ b.bytes <= SizeMax
  /\ 2 * cb.capacity + 2 <= SizeMax
  /\ b.align = cb.align
  /\ Len(b.slots) = cb.capacity + 1
  /\ \A i \in 1 .. cb.size : b.slots[i] \in Elements

(* The memory half of the inductive invariant, of the state a call works on. *)
Sound(w) ==
  /\ w \in Worlds
  /\ w.contract
  /\ w.cb.size <= w.cb.capacity
  /\ DOMAIN w.blocks = {w.cb.buffer} \ {Null}
  /\ w.cb.buffer = Null <=> w.cb.capacity = 0
  /\ w.cb.buffer # Null => Fits(w.cb, w.blocks[w.cb.buffer])
  /\ Prepared(w.cb)

(***************************************************************************)
(* Resizing.                                                               *)
(***************************************************************************)
LEMMA HeapHooks == HasHooks(ControlBlocks)
  BY MemoryAssumption DEF HasHooks, ControlBlocks

LEMMA CbFacts ==
  ASSUME NEW w, Sound(w)
  PROVE  /\ w.cb \in ControlBlocks /\ w.blocks \in Memory(Elements \cup {Garbage})
         /\ w.cb.buffer \in Addresses \cup {Null}
         /\ w.cb.size \in Nat /\ w.cb.capacity \in 0 .. SizeMax /\ w.cb.capacity \in Nat
         /\ w.cb.elem_size \in Nat
         /\ w.cb.initial_capacity \in 0 .. SizeMax /\ w.cb.max_capacity \in 0 .. SizeMax
         /\ w.cb.allocator \in Hooks /\ w.cb.size <= w.cb.capacity
         /\ w.cb.order \in {"MIN", "MAX"} /\ w.cb.on_move \in BOOLEAN
<1>1. w.cb \in ControlBlocks /\ w.blocks \in Memory(Elements \cup {Garbage}) /\ w.cb.size <= w.cb.capacity
  BY DEF Sound, Worlds, World
<1> QED
  BY <1>1, MemoryAssumption DEF ControlBlocks

(* The block that the heap has, and what the hooks are told of it. *)
LEMMA OwnBlock ==
  ASSUME NEW w, Sound(w), w.cb.buffer # Null
  PROVE  /\ w.cb.buffer \in Addresses /\ DOMAIN w.blocks = {w.cb.buffer}
         /\ Owns(w, w.cb.buffer, (w.cb.capacity + 1) * w.cb.elem_size)
         /\ w.blocks[w.cb.buffer] \in Block(Elements \cup {Garbage})
         /\ w.blocks[w.cb.buffer].slots \in Seq(Elements \cup {Garbage})
         /\ Len(w.blocks[w.cb.buffer].slots) = w.cb.capacity + 1
         /\ DOMAIN w.blocks[w.cb.buffer].slots = 1 .. w.cb.capacity + 1
         /\ w.cb.size \in Nat /\ w.cb.capacity \in Nat \ {0} /\ w.cb.size <= w.cb.capacity
         /\ w.cb.elem_size # 0 /\ IsPow2(w.cb.align) /\ w.cb.allocator.alloc /\ w.cb.allocator.free
<1>1. w.cb.buffer \in Addresses /\ DOMAIN w.blocks = {w.cb.buffer}
  BY CbFacts DEF Sound
<1>2. Owns(w, w.cb.buffer, (w.cb.capacity + 1) * w.cb.elem_size)
  BY <1>1 DEF Sound, Fits, Owns
<1>3. w.blocks[w.cb.buffer] \in Block(Elements \cup {Garbage})
  BY <1>1, CbFacts, MemoryFacts
<1>4. w.blocks[w.cb.buffer].slots \in Seq(Elements \cup {Garbage})
  BY <1>3 DEF Block
<1>5. /\ Len(w.blocks[w.cb.buffer].slots) = w.cb.capacity + 1
      /\ w.cb.size \in Nat /\ w.cb.capacity \in Nat \ {0} /\ w.cb.size <= w.cb.capacity
  BY CbFacts DEF Sound, Fits
<1>6. w.cb.elem_size # 0 /\ IsPow2(w.cb.align) /\ w.cb.allocator.alloc /\ w.cb.allocator.free
  BY <1>5 DEF Sound, Prepared
<1> QED
  BY <1>1, <1>2, <1>3, <1>4, <1>5, <1>6

(* What a call for the block of n elements ends in. *)
BlockEnds(w, n, r) ==
  NewBlockEnds(ControlBlocks, Elements \cup {Garbage}, w, w.cb.size, n + 1, r)

LEMMA BlockFacts ==
  ASSUME NEW w, Sound(w), w.cb.elem_size # 0, NEW n \in 1 .. SizeMax, w.cb.size <= n,
         NEW r \in NewBlock(w, w.cb.size, BytesFor(w.cb.capacity, w.cb.elem_size),
                            BytesFor(n, w.cb.elem_size))
  PROVE  BlockEnds(w, n, r)
<1> DEFINE C == ControlBlocks
           V == Elements \cup {Garbage}
           old == BytesFor(w.cb.capacity, w.cb.elem_size)
           m == n + 1
<1>1. HasHooks(C) /\ Garbage \in V /\ m \in Nat \ {0} /\ w.cb.size <= m
  BY HeapHooks, CbFacts, MemoryAssumption
<1>2. /\ w \in World(C, V) /\ w.contract /\ DOMAIN w.blocks = {w.cb.buffer} \ {Null}
      /\ IsPow2(w.cb.align) /\ w.cb.allocator.alloc /\ w.cb.allocator.free
  BY DEF Sound, Prepared, Worlds
<1>3. /\ w.cb.buffer \in Addresses \cup {Null} /\ w.cb.size \in Nat
      /\ w.cb.buffer = Null => w.cb.size = 0
  BY CbFacts DEF Sound
<1>4. w.cb.buffer # Null =>
        Owns(w, w.cb.buffer, old) /\ w.cb.size <= Len(w.blocks[w.cb.buffer].slots)
  BY OwnBlock DEF BytesFor
<1>5. Ready(C, V, w, w.cb.size, old)
  BY <1>2, <1>3, <1>4 DEF Ready
<1>6. r \in NewBlock(w, w.cb.size, old, m * w.cb.elem_size)
  BY MemoryAssumption DEF BytesFor
<1> HIDE DEF C, V, old, m
<1>7. NewBlockEnds(C, V, w, w.cb.size, m, r)
  BY <1>1, <1>5, <1>6, NewBlockFacts
<1> QED
  BY <1>7 DEF BlockEnds, C, V, m

(* A capacity fits when its bytes do, and its child indices. *)
LEMMA BytesFitFacts ==
  ASSUME NEW n \in Nat \ {0}, NEW size \in Nat
  PROVE  BytesFit(n, size) <=> (n + 1) * size <= SizeMax /\ 2 * n + 2 <= SizeMax
<1> DEFINE m == n + 1
           q == SizeMax \div m
           d == SizeMax % m
<1>0. m \in Nat \ {0} /\ SizeMax \in Nat
  BY MemoryAssumption
<1> HIDE DEF m
<1>1. q \in Nat /\ d \in Nat /\ SizeMax = m * q + d /\ d < m
  BY <1>0
<1> HIDE DEF q, d
<1>2. size <= q => m * size <= m * q
  BY <1>0, <1>1
<1>3. size > q => m * size >= m * q + m
  <2>1. size > q => size >= q + 1
    BY <1>1
  <2>2. size >= q + 1 => m * size >= m * (q + 1)
    BY <1>0, <1>1
  <2>3. m * (q + 1) = m * q + m
    BY <1>0, <1>1
  <2> QED
    BY <2>1, <2>2, <2>3
<1>4. size <= q <=> m * size <= SizeMax
  <2>1. m * size \in Nat /\ m * q \in Nat
    BY <1>0, <1>1
  <2> QED
    BY <1>0, <1>1, <1>2, <1>3, <2>1
<1>5. n <= (SizeMax - 2) \div 2 <=> 2 * n + 2 <= SizeMax
  BY <1>0
<1> QED
  BY <1>4, <1>5 DEF BytesFit, q, m

(* The settings of a control block are those of another. *)
SameSettings(a, b) ==
  /\ a.elem_size = b.elem_size /\ a.align = b.align /\ a.allocator = b.allocator
  /\ a.initial_capacity = b.initial_capacity /\ a.max_capacity = b.max_capacity
  /\ a.growable = b.growable /\ a.order = b.order /\ a.on_move = b.on_move

(* The contents of the heap that a call works on. *)
Live(w) == [i \in 0 .. w.cb.size - 1 |-> Slot(w, i)]

(* What a resize to n elements ends in. *)
SetCapacityEnds(w, n, r) ==
  /\ Sound(r.w) /\ SameSettings(r.w.cb, w.cb) /\ r.w.cb.size = w.cb.size
  /\ Live(r.w) = Live(w)
  /\ r.status \in {"OK", "INVALID", "OVERFLOW", "NOMEM"}
  /\ r.status = "OK" => r.w.cb.capacity = n
  /\ r.status # "OK" => r.w.cb = w.cb /\ r.w.blocks = w.blocks
  /\ r.status = "INVALID" => n < w.cb.size

LEMMA UnchangedSound ==
  ASSUME NEW w, Sound(w), NEW u \in Worlds, u.cb = w.cb, u.blocks = w.blocks, u.contract
  PROVE  Sound(u) /\ Live(u) = Live(w)
  BY DEF Sound, Live, Slot
(* A heap with a new block or without a block has its contents. *)
LEMMA ResizedSound ==
  ASSUME NEW w, Sound(w), w.cb.elem_size # 0, NEW u \in Worlds, u.contract,
         NEW n \in 0 .. SizeMax, w.cb.size <= n,
         SameSettings(u.cb, w.cb), u.cb.size = w.cb.size, u.cb.capacity = n,
         DOMAIN u.blocks = {u.cb.buffer} \ {Null},
         u.cb.buffer = Null <=> n = 0,
         u.cb.buffer # Null =>
           /\ u.blocks[u.cb.buffer].bytes = (n + 1) * w.cb.elem_size
           /\ (n + 1) * w.cb.elem_size <= SizeMax
           /\ 2 * n + 2 <= SizeMax
           /\ u.blocks[u.cb.buffer].align = w.cb.align
           /\ Len(u.blocks[u.cb.buffer].slots) = n + 1
           /\ \A i \in 1 .. w.cb.size : u.blocks[u.cb.buffer].slots[i] = w.blocks[w.cb.buffer].slots[i]
  PROVE  Sound(u) /\ Live(u) = Live(w)
<1>1. Prepared(u.cb)
  BY DEF Sound, Prepared, SameSettings
<1>2. ASSUME u.cb.buffer # Null PROVE Fits(u.cb, u.blocks[u.cb.buffer])
  <2>1. \A i \in 1 .. w.cb.size : u.blocks[u.cb.buffer].slots[i] \in Elements
    <3>1. CASE w.cb.buffer = Null
      BY <3>1, CbFacts DEF Sound
    <3>2. CASE w.cb.buffer # Null
      BY <1>2, <3>2 DEF Sound, Fits
    <3> QED
      BY <3>1, <3>2
  <2> QED
    BY <1>2, <2>1 DEF Fits, SameSettings
<1>3. Sound(u)
  BY <1>1, <1>2 DEF Sound
<1>4. \A i \in 0 .. w.cb.size - 1 : Slot(u, i) = Slot(w, i)
  <2> SUFFICES ASSUME NEW i \in 0 .. w.cb.size - 1 PROVE Slot(u, i) = Slot(w, i)
    OBVIOUS
  <2>1. i + 1 \in 1 .. w.cb.size /\ n # 0
    BY CbFacts
  <2> QED
    BY <2>1 DEF Slot
<1> QED
  BY <1>3, <1>4 DEF Live

LEMMA InstallFacts ==
  ASSUME NEW w, Sound(w), w.cb.elem_size # 0, NEW n \in 1 .. SizeMax, w.cb.size <= n,
         (n + 1) * w.cb.elem_size <= SizeMax, 2 * n + 2 <= SizeMax, NEW b, BlockEnds(w, n, b)
  PROVE  SetCapacityEnds(w, n, Install(b, n))
<1>1. CASE b.ptr = Null
  <2>1. Install(b, n).w = b.w /\ Install(b, n).status = "NOMEM"
    BY <1>1 DEF Install, Ends
  <2>2. Sound(b.w) /\ Live(b.w) = Live(w)
    BY <1>1, UnchangedSound DEF BlockEnds, NewBlockEnds, Worlds
  <2>3. SameSettings(b.w.cb, w.cb)
    BY DEF BlockEnds, NewBlockEnds, SameSettings
  <2> QED
    BY <1>1, <2>1, <2>2, <2>3 DEF SetCapacityEnds, BlockEnds, NewBlockEnds
<1>2. CASE b.ptr # Null
  <2> DEFINE cb == [[w.cb EXCEPT !.buffer = b.ptr] EXCEPT !.capacity = n]
             u == [b.w EXCEPT !.cb = cb]
  <2>1. b.w \in Worlds /\ b.w.cb = w.cb /\ b.w.cb \in ControlBlocks /\ b.ptr \in Addresses
    BY <1>2 DEF BlockEnds, NewBlockEnds, Worlds, World
  <2>2. Install(b, n).w = u /\ Install(b, n).status = "OK"
    BY <1>2, <2>1 DEF Install, Ends, Worlds, World
  <2>3. /\ cb \in ControlBlocks /\ cb.buffer = b.ptr /\ cb.capacity = n /\ cb.size = w.cb.size
        /\ SameSettings(cb, w.cb)
    <3>1. n \in 0 .. SizeMax
      BY MemoryAssumption
    <3>2. cb \in ControlBlocks /\ cb.buffer = b.ptr /\ cb.capacity = n /\ cb.size = w.cb.size
      BY <2>1, <3>1 DEF ControlBlocks
    <3>3. SameSettings(cb, w.cb)
      BY <2>1 DEF ControlBlocks, SameSettings
    <3> QED
      BY <3>2, <3>3
  <2> HIDE DEF cb
  <2>4. u \in Worlds /\ u.cb = cb /\ u.blocks = b.w.blocks /\ u.contract = b.w.contract
    BY <2>1, <2>3 DEF Worlds, World
  <2> HIDE DEF u
  <2>5. Sound(u) /\ Live(u) = Live(w)
    <3>1. u.contract
      BY <2>4 DEF BlockEnds, NewBlockEnds
    <3>2. DOMAIN u.blocks = {u.cb.buffer} \ {Null} /\ u.cb.buffer # Null
      BY <1>2, <2>3, <2>4 DEF BlockEnds, NewBlockEnds
    <3>3. /\ u.blocks[u.cb.buffer].bytes = (n + 1) * w.cb.elem_size
          /\ u.blocks[u.cb.buffer].align = w.cb.align
          /\ Len(u.blocks[u.cb.buffer].slots) = n + 1
          /\ \A i \in 1 .. w.cb.size : u.blocks[u.cb.buffer].slots[i] = w.blocks[w.cb.buffer].slots[i]
      BY <1>2, <2>3, <2>4 DEF BlockEnds, NewBlockEnds
    <3>4. n \in 0 .. SizeMax /\ n # 0
      OBVIOUS
    <3> QED
      BY <2>3, <2>4, <3>1, <3>2, <3>3, <3>4, ResizedSound
  <2> QED
    BY <2>2, <2>3, <2>4, <2>5 DEF SetCapacityEnds
<1> QED
  BY <1>1, <1>2

(* The block goes back when nothing is to be kept. *)
LEMMA DroppedFacts ==
  ASSUME NEW w, Sound(w), w.cb.elem_size # 0, w.cb.size = 0, w.cb.capacity # 0,
         NEW f, f = Free(w, w.cb.buffer, (w.cb.capacity + 1) * w.cb.elem_size),
         NEW u, u = [f EXCEPT !.cb.buffer = Null, !.cb.capacity = 0]
  PROVE  SetCapacityEnds(w, 0, Ends(u, "OK"))
<1> DEFINE C == ControlBlocks
           V == Elements \cup {Garbage}
           p == w.cb.buffer
           bytes == (w.cb.capacity + 1) * w.cb.elem_size
           cb == [[w.cb EXCEPT !.buffer = Null] EXCEPT !.capacity = 0]
<1>1. w \in World(C, V) /\ w.contract /\ w.cb \in ControlBlocks /\ p # Null
  BY CbFacts DEF Sound, Worlds
<1>2. DOMAIN w.blocks = {p} /\ Owns(w, p, bytes) /\ w.cb.allocator.free
  BY <1>1, OwnBlock
<1>3. FreeEnds(C, V, w, p, bytes, f)
  BY <1>1, FreeFacts
<1>4. f \in Worlds /\ f.cb = w.cb /\ f.contract /\ DOMAIN f.blocks = {}
  BY <1>1, <1>2, <1>3 DEF FreeEnds, Without, Worlds
<1>5. cb \in ControlBlocks /\ cb.buffer = Null /\ cb.capacity = 0 /\ cb.size = w.cb.size
  BY <1>1, MemoryAssumption DEF ControlBlocks
<1>6. SameSettings(cb, w.cb)
  BY <1>1 DEF ControlBlocks, SameSettings
<1>7. u = [f EXCEPT !.cb = cb]
  BY <1>4 DEF Worlds, World
<1> HIDE DEF cb
<1>8. u \in Worlds /\ u.cb = cb /\ u.blocks = f.blocks /\ u.contract = f.contract
  BY <1>4, <1>5, <1>7 DEF Worlds, World
<1>9. Sound(u) /\ Live(u) = Live(w)
  <2>1. 0 \in 0 .. SizeMax /\ w.cb.size <= 0
    BY CbFacts, MemoryAssumption
  <2>2. u.contract /\ SameSettings(u.cb, w.cb) /\ u.cb.size = w.cb.size /\ u.cb.capacity = 0
    BY <1>4, <1>5, <1>6, <1>8
  <2>3. u.cb.buffer = Null /\ DOMAIN u.blocks = {u.cb.buffer} \ {Null}
    BY <1>4, <1>5, <1>8
  <2> QED
    BY <1>8, <2>1, <2>2, <2>3, ResizedSound
<1> QED
  BY <1>4, <1>5, <1>6, <1>8, <1>9 DEF SetCapacityEnds, Ends

(* Every path of dv_heap_set_capacity leaves a sound heap with the contents it
   had, and a failure leaves it as it was.                                  *)
LEMMA SetCapacityFacts ==
  ASSUME NEW w, Sound(w), NEW n \in 0 .. SizeMax, w.cb.elem_size # 0 \/ n = w.cb.capacity,
         NEW r \in SetCapacity(w, n)
  PROVE  SetCapacityEnds(w, n, r)
<1> DEFINE h == w.cb
           old_bytes == BytesFor(h.capacity, h.elem_size)
           new_bytes == BytesFor(n, h.elem_size)
<1>1. /\ h.size \in Nat /\ h.capacity \in 0 .. SizeMax /\ h.elem_size \in Nat /\ n \in Nat
      /\ h.size <= h.capacity /\ h.capacity \in Nat
  BY CbFacts, MemoryAssumption DEF Sound
<1>2. SameSettings(w.cb, w.cb)
  BY DEF SameSettings
<1>3. CASE n = h.capacity
  BY <1>2, <1>3 DEF SetCapacity, SetCapacityEnds, Ends
<1>4. CASE n # h.capacity /\ n < h.size
  BY <1>2, <1>4 DEF SetCapacity, SetCapacityEnds, Ends
<1>5. BytesFit(h.capacity, h.elem_size)
  <2>1. CASE h.capacity = 0
    BY <2>1 DEF BytesFit
  <2>2. CASE h.capacity # 0
    <3>1. (h.capacity + 1) * h.elem_size <= SizeMax /\ 2 * h.capacity + 2 <= SizeMax
      BY <2>2 DEF Sound, Fits
    <3> QED
      BY <1>1, <2>2, <3>1, BytesFitFacts
  <2> QED
    BY <2>1, <2>2
<1>6. CASE n # h.capacity /\ ~(n < h.size) /\ ~BytesFit(n, h.elem_size)
  BY <1>2, <1>6 DEF SetCapacity, SetCapacityEnds, Ends
<1>7. CASE n # h.capacity /\ ~(n < h.size) /\ BytesFit(n, h.elem_size)
  <2>1. h.elem_size # 0 /\ h.size <= n
    BY <1>1, <1>7
  <2>2. CASE n = 0
    <3>1. new_bytes = 0 /\ h.buffer # Null /\ h.size = 0 /\ h.capacity # 0
      BY <1>1, <1>7, <2>2 DEF Sound, BytesFor
    <3>2. r = Ends([Free(w, h.buffer, old_bytes) EXCEPT !.cb.buffer = Null, !.cb.capacity = 0], "OK")
      BY <1>5, <1>7, <2>2, <3>1 DEF SetCapacity
    <3>3. old_bytes = (h.capacity + 1) * h.elem_size
      BY <3>1 DEF BytesFor
    <3> QED
      BY <2>1, <2>2, <3>1, <3>2, <3>3, DroppedFacts
  <2>3. CASE n # 0
    <3>1. new_bytes # 0 /\ n \in 1 .. SizeMax
      BY <1>1, <2>1, <2>3 DEF BytesFor
    <3>2. PICK b \in NewBlock(w, h.size, old_bytes, new_bytes) : r = Install(b, n)
      BY <1>5, <1>7, <3>1 DEF SetCapacity
    <3>3. BlockEnds(w, n, b)
      BY <2>1, <3>1, <3>2, BlockFacts
    <3>4. (n + 1) * h.elem_size <= SizeMax /\ 2 * n + 2 <= SizeMax
      BY <1>1, <1>7, <2>3, BytesFitFacts
    <3> QED
      BY <2>1, <3>1, <3>2, <3>3, <3>4, InstallFacts
  <2> QED
    BY <2>2, <2>3
<1> QED
  BY <1>3, <1>4, <1>6, <1>7

(***************************************************************************)
(* Growth.                                                                 *)
(***************************************************************************)
LEMMA NextCapacityFacts ==
  ASSUME NEW c \in 0 .. SizeMax
  PROVE  NextCapacity(c) \in 0 .. SizeMax
<1>1. SizeMax \in Nat /\ MinCapacity \in 2 .. SizeMax
  BY MemoryAssumption, HeapAssumption
<1> DEFINE half == c \div 2
<1>2. half \in Nat
  BY <1>1
<1> HIDE DEF half
<1>3. NextCapacity(c) = IF c < MinCapacity THEN MinCapacity
                        ELSE IF c > SizeMax - half THEN SizeMax ELSE c + half
  BY DEF NextCapacity, half
<1> QED
  BY <1>1, <1>2, <1>3

LEMMA ClampFacts ==
  ASSUME NEW cb \in ControlBlocks, NEW c \in 0 .. SizeMax
  PROVE  ClampCapacity(cb, c) \in 0 .. SizeMax
  BY MemoryAssumption DEF ClampCapacity, ControlBlocks

(* What growing ends in, whether or not there is more room. *)
GrowEnds(w, r) ==
  /\ Sound(r.w) /\ SameSettings(r.w.cb, w.cb) /\ r.w.cb.size = w.cb.size
  /\ Live(r.w) = Live(w)

LEMMA UngrownFacts ==
  ASSUME NEW w, Sound(w), NEW status
  PROVE  GrowEnds(w, Ends(w, status))
  BY DEF GrowEnds, Ends, SameSettings

LEMMA GrownFacts ==
  ASSUME NEW w, NEW n, NEW r, SetCapacityEnds(w, n, r)
  PROVE  GrowEnds(w, r)
  BY DEF SetCapacityEnds, GrowEnds

LEMMA GrowForPushFacts ==
  ASSUME NEW w, Sound(w), NEW r \in GrowForPush(w)
  PROVE  GrowEnds(w, r) /\ (r.status = "OK" => w.cb.size < r.w.cb.capacity)
<1> DEFINE h == w.cb
           next == ClampCapacity(h, NextCapacity(h.capacity))
<1>1. h \in ControlBlocks /\ h.capacity \in 0 .. SizeMax /\ h.size \in Nat /\ SizeMax \in Nat
      /\ h.size <= h.capacity
  BY CbFacts, MemoryAssumption
<1>2. next \in 0 .. SizeMax
  BY <1>1, NextCapacityFacts, ClampFacts
<1> HIDE DEF next
<1>3. CASE h.size < h.capacity
  BY <1>3, UngrownFacts DEF GrowForPush, Ends
<1>4. CASE ~(h.size < h.capacity) /\ (~h.growable \/ next <= h.capacity)
  BY <1>4, UngrownFacts DEF GrowForPush, Ends, next
<1>5. CASE ~(h.size < h.capacity) /\ ~(~h.growable \/ next <= h.capacity)
  <2>1. r \in SetCapacity(w, next)
    BY <1>5 DEF GrowForPush, next
  <2>2. h.elem_size # 0
    BY <1>5 DEF Sound, Prepared
  <2>3. SetCapacityEnds(w, next, r)
    BY <1>2, <2>1, <2>2, SetCapacityFacts
  <2>4. r.status = "OK" => r.w.cb.capacity = next
    BY <2>3 DEF SetCapacityEnds
  <2> QED
    BY <1>1, <1>2, <1>5, <2>3, <2>4, GrownFacts
<1> QED
  BY <1>3, <1>4, <1>5

(* The two attempts of the bulk push. *)
LEMMA GrowForBulkFacts ==
  ASSUME NEW w, Sound(w), w.cb.growable, NEW needed \in 0 .. SizeMax, NEW r \in GrowForBulk(w, needed)
  PROVE  GrowEnds(w, r)
<1> DEFINE h == w.cb
           curve == NextCapacity(h.capacity)
           aim == IF needed > curve THEN needed ELSE curve
           target == ClampCapacity(h, aim)
           exact == ClampCapacity(h, needed)
           first == IF target > h.capacity THEN SetCapacity(w, target) ELSE {Ends(w, "FULL")}
<1>1. h \in ControlBlocks /\ h.capacity \in 0 .. SizeMax /\ h.elem_size # 0
  BY CbFacts DEF Sound, Prepared
<1>2. curve \in 0 .. SizeMax
  BY <1>1, NextCapacityFacts
<1>3. aim \in 0 .. SizeMax
  BY <1>2
<1> HIDE DEF aim, curve
<1>4. target \in 0 .. SizeMax /\ exact \in 0 .. SizeMax
  BY <1>1, <1>3, ClampFacts
<1> HIDE DEF target, exact
<1>5. PICK f \in first : r \in IF f.status # "OK" /\ exact > f.w.cb.capacity /\ exact < target
                               THEN SetCapacity(f.w, exact) ELSE {f}
  BY DEF GrowForBulk, target, exact, curve, aim
<1>6. GrowEnds(w, f)
  <2>1. CASE target > h.capacity
    BY <1>1, <1>4, <1>5, <2>1, SetCapacityFacts, GrownFacts
  <2>2. CASE ~(target > h.capacity)
    BY <1>5, <2>2, UngrownFacts
  <2> QED
    BY <2>1, <2>2
<1>7. CASE r = f
  BY <1>6, <1>7
<1>8. CASE r \in SetCapacity(f.w, exact)
  <2>1. Sound(f.w) /\ f.w.cb.elem_size # 0
    BY <1>1, <1>6 DEF GrowEnds, SameSettings
  <2>2. GrowEnds(f.w, r)
    BY <1>4, <1>8, <2>1, SetCapacityFacts, GrownFacts
  <2> QED
    BY <1>6, <2>2 DEF GrowEnds, SameSettings
<1> QED
  BY <1>5, <1>7, <1>8

LEMMA ReservedFacts ==
  ASSUME NEW w, Sound(w), NEW n \in 0 .. SizeMax, NEW r \in Reserved(w, n)
  PROVE  GrowEnds(w, r) /\ (r.status = "OK" => n <= r.w.cb.capacity)
<1> DEFINE pinned == ~w.cb.growable \/ (w.cb.max_capacity # 0 /\ n > w.cb.max_capacity)
<1>1. CASE n <= w.cb.capacity
  BY <1>1, UngrownFacts DEF Reserved, Ends
<1>2. CASE ~(n <= w.cb.capacity) /\ pinned
  BY <1>2, UngrownFacts DEF Reserved, Ends
<1>3. CASE ~(n <= w.cb.capacity) /\ ~pinned
  <2>1. r \in SetCapacity(w, n) /\ w.cb.elem_size # 0
    BY <1>3 DEF Reserved, Sound, Prepared
  <2>2. SetCapacityEnds(w, n, r)
    BY <2>1, SetCapacityFacts
  <2>3. r.status = "OK" => n <= r.w.cb.capacity
    BY <2>2, MemoryAssumption DEF SetCapacityEnds
  <2> QED
    BY <2>2, <2>3, GrownFacts
<1> QED
  BY <1>1, <1>2, <1>3
(***************************************************************************)
(* The path of a hole.                                                     *)
(***************************************************************************)
(* Steps from index to index, each to a lower rank, and where to stop. *)
Steps(D, rank, m, go, next) ==
  /\ rank \in [D -> 0 .. m] /\ m \in Nat
  /\ \A i \in D : go[i] => next[i] \in D /\ rank[next[i]] < rank[i]

(* f[i] is where the steps from i lead. *)
Follows(f, D, go, next) == f = [i \in D |-> IF go[i] THEN {i} \cup f[next[i]] ELSE {i}]

LEMMA PathExists ==
  ASSUME NEW D, NEW rank, NEW m, NEW go, NEW next, Steps(D, rank, m, go, next)
  PROVE  \E f : Follows(f, D, go, next)
<1> DEFINE Low(k) == {i \in D : rank[i] < k}
           B == {k \in Nat : \E f : Follows(f, Low(k), go, next)}
<1>1. 0 \in B
  <2>1. Low(0) = {}
    BY DEF Steps
  <2>2. Follows([i \in {} |-> {}], {}, go, next)
    BY DEF Follows
  <2> QED
    BY <2>1, <2>2
<1>2. ASSUME NEW k \in B PROVE k + 1 \in B
  <2>1. PICK f : Follows(f, Low(k), go, next)
    BY <1>2
  <2> DEFINE h == [i \in Low(k + 1) |-> IF go[i] THEN {i} \cup f[next[i]] ELSE {i}]
  <2>2. \A i \in Low(k) : h[i] = f[i]
    <3> SUFFICES ASSUME NEW i \in Low(k) PROVE h[i] = f[i]
      OBVIOUS
    <3>1. i \in Low(k + 1)
      BY DEF Steps
    <3>2. f[i] = IF go[i] THEN {i} \cup f[next[i]] ELSE {i}
      BY <2>1 DEF Follows
    <3> QED
      BY <3>1, <3>2
  <2>3. \A i \in Low(k + 1) : go[i] => next[i] \in Low(k)
    BY DEF Steps
  <2> HIDE DEF Low
  <2>4. h = [i \in Low(k + 1) |-> IF go[i] THEN {i} \cup h[next[i]] ELSE {i}]
    BY <2>2, <2>3
  <2>5. Follows(h, Low(k + 1), go, next)
    BY <2>4 DEF Follows
  <2> QED
    BY <2>5
<1>3. m + 1 \in B
  <2> HIDE DEF B
  <2>1. B \subseteq Nat
    BY DEF B
  <2> QED
    BY <1>1, <1>2, <2>1, Induction DEF Steps
<1>4. Low(m + 1) = D
  BY DEF Steps
<1> QED
  BY <1>3, <1>4

(* The path S from i has one end, and each of its other indices goes on. *)
PathOf(S, i, D, rank, go, next) ==
  /\ i \in S /\ S \subseteq D
  /\ \A j \in S : rank[j] <= rank[i]
  /\ \A j \in S : go[j] => next[j] \in S
  /\ \A j \in S : j # i => \E k \in S : go[k] /\ next[k] = j
  /\ \E e \in S : ~go[e] /\ \A j \in S : j # e => go[j] /\ rank[e] < rank[j]

LEMMA PathExtended ==
  ASSUME NEW D, NEW rank, NEW m, NEW go, NEW next, Steps(D, rank, m, go, next),
         NEW i \in D, go[i], NEW T, PathOf(T, next[i], D, rank, go, next)
  PROVE  PathOf({i} \cup T, i, D, rank, go, next)
<1> DEFINE S == {i} \cup T
           n == next[i]
<1>1. n \in D /\ rank[n] < rank[i] /\ rank \in [D -> Nat]
  BY DEF Steps
<1>2. /\ n \in T /\ T \subseteq D /\ \A j \in T : rank[j] <= rank[n]
      /\ \A j \in T : go[j] => next[j] \in T
      /\ \A j \in T : j # n => \E k \in T : go[k] /\ next[k] = j
  BY DEF PathOf
<1>3. PICK e \in T : ~go[e] /\ \A j \in T : j # e => go[j] /\ rank[e] < rank[j]
  BY DEF PathOf
<1>4. \A j \in S : rank[j] <= rank[i]
  BY <1>1, <1>2
<1>5. rank[e] < rank[i]
  BY <1>1, <1>2
<1>6. i \in S /\ S \subseteq D
  BY <1>2
<1>7. \A j \in S : go[j] => next[j] \in S
  BY <1>2
<1>8. \A j \in S : j # i => \E k \in S : go[k] /\ next[k] = j
  BY <1>2
<1>9. e \in S /\ ~go[e] /\ \A j \in S : j # e => go[j] /\ rank[e] < rank[j]
  BY <1>3, <1>5
<1> QED
  BY <1>4, <1>6, <1>7, <1>8, <1>9 DEF PathOf

LEMMA PathFacts ==
  ASSUME NEW D, NEW rank, NEW m, NEW go, NEW next, Steps(D, rank, m, go, next),
         NEW f, Follows(f, D, go, next), NEW i \in D
  PROVE  PathOf(f[i], i, D, rank, go, next)
<1> DEFINE P(j) == PathOf(f[j], j, D, rank, go, next)
           B == {k \in Nat : \A j \in D : rank[j] < k => P(j)}
<1>1. 0 \in B
  BY DEF Steps
<1>2. ASSUME NEW k \in B PROVE k + 1 \in B
  <2> SUFFICES ASSUME NEW j \in D, rank[j] < k + 1 PROVE P(j)
    OBVIOUS
  <2>1. CASE ~go[j]
    <3>1. f[j] = {j}
      BY <2>1 DEF Follows
    <3>2. rank[j] \in Nat
      BY DEF Steps
    <3> QED
      BY <2>1, <3>1, <3>2 DEF PathOf
  <2>2. CASE go[j]
    <3>1. f[j] = {j} \cup f[next[j]]
      BY <2>2 DEF Follows
    <3>2. next[j] \in D /\ rank[next[j]] < k
      BY <2>2 DEF Steps
    <3>3. P(next[j])
      BY <3>2
    <3> QED
      BY <2>2, <3>1, <3>3, PathExtended
  <2> QED
    BY <2>1, <2>2
<1>3. m + 1 \in B
  <2> HIDE DEF B
  <2>1. B \subseteq Nat
    BY DEF B
  <2> QED
    BY <1>1, <1>2, <2>1, Induction DEF Steps
<1>4. rank[i] < m + 1
  BY DEF Steps
<1> QED
  BY <1>3, <1>4
(***************************************************************************)
(* Slots.                                                                  *)
(***************************************************************************)
LEMMA SlotFacts ==
  ASSUME NEW w, Sound(w), NEW i \in 0 .. w.cb.size - 1
  PROVE  Slot(w, i) \in Elements
<1>1. w.cb.buffer # Null /\ i + 1 \in 1 .. w.cb.size
  BY CbFacts DEF Sound
<1> QED
  BY <1>1 DEF Sound, Fits, Slot

LEMMA NotifiedFacts ==
  ASSUME NEW w, NEW e \in Elements, NEW i \in Nat
  PROVE  /\ Notified(w, e, i) \in Elements
         /\ Notified(w, e, i).key = e.key
  BY DEF Notified, Elements

LEMMA NotifiedAt ==
  ASSUME NEW w, w.cb.on_move, NEW e \in Elements, NEW i \in Nat
  PROVE  Notified(w, e, i).at = i
  BY DEF Notified, Elements

(* The heap with other elements in its slots. *)
FilledEnds(w, slots, u) ==
  /\ Sound(u) /\ u.cb = w.cb /\ u.calls = w.calls
  /\ \A i \in 0 .. w.cb.capacity : Slot(u, i) = slots[i + 1]

LEMMA FilledFacts ==
  ASSUME NEW w, Sound(w), w.cb.buffer # Null,
         NEW slots \in Seq(Elements \cup {Garbage}), Len(slots) = w.cb.capacity + 1,
         \A i \in 1 .. w.cb.size : slots[i] \in Elements,
         NEW u, u = [w EXCEPT !.blocks[w.cb.buffer].slots = slots]
  PROVE  FilledEnds(w, slots, u)
<1> DEFINE V == Elements \cup {Garbage}
           p == w.cb.buffer
           b == w.blocks[p]
           c == [b EXCEPT !.slots = slots]
           bs == [w.blocks EXCEPT ![p] = c]
<1>1. /\ p \in Addresses /\ DOMAIN w.blocks = {p} /\ b \in Block(V) /\ w.blocks \in Memory(V)
      /\ w.cb.capacity \in Nat
  BY OwnBlock, CbFacts
<1>2. /\ c \in Block(V) /\ c.bytes = b.bytes /\ c.align = b.align /\ c.slots = slots
  BY <1>1 DEF Block
<1>3. u = [w EXCEPT !.blocks = bs]
  OBVIOUS
<1> HIDE DEF c, b
<1>4. w.blocks \in [{p} -> Block(V)] /\ {p} \subseteq Addresses
  BY <1>1, MemoryFacts
<1>5. bs \in [{p} -> Block(V)]
  BY <1>2, <1>4
<1>6. bs \in Memory(V) /\ DOMAIN bs = {p}
  BY <1>4, <1>5, MemoryIntro
<1>7. bs[p] = c
  BY <1>4
<1> HIDE DEF bs
<1>8. u \in Worlds /\ u.cb = w.cb /\ u.blocks = bs /\ u.contract = w.contract /\ u.calls = w.calls
  BY <1>3, <1>6 DEF Sound, Worlds, World
<1>9. Fits(u.cb, u.blocks[u.cb.buffer])
  BY <1>2, <1>7, <1>8 DEF Sound, Fits, b
<1>10. Sound(u)
  BY <1>1, <1>6, <1>8, <1>9 DEF Sound
<1>11. \A i \in 0 .. w.cb.capacity : Slot(u, i) = slots[i + 1]
  BY <1>2, <1>7, <1>8 DEF Slot
<1> QED
  BY <1>8, <1>10, <1>11 DEF FilledEnds

(* The elements that moved are where they came to rest, their owners know it,
   and the others are where they were.                                      *)
SettleEnds(w, moved, u) ==
  /\ Sound(u) /\ u.cb = w.cb /\ u.calls = w.calls
  /\ \A i \in 0 .. w.cb.capacity :
       Slot(u, i) = IF i \in DOMAIN moved THEN Notified(w, moved[i], i) ELSE Slot(w, i)

LEMMA SettleFacts ==
  ASSUME NEW w, Sound(w), w.cb.buffer # Null, NEW D, D \subseteq 0 .. w.cb.capacity,
         NEW moved \in [D -> Elements]
  PROVE  SettleEnds(w, moved, Settle(w, moved))
<1> DEFINE V == Elements \cup {Garbage}
           old == w.blocks[w.cb.buffer].slots
           cap == w.cb.capacity
           slots == [i \in DOMAIN old |->
                       IF i - 1 \in DOMAIN moved THEN Notified(w, moved[i - 1], i - 1) ELSE old[i]]
           u == Settle(w, moved)
<1>1. /\ old \in Seq(V) /\ Len(old) = cap + 1 /\ DOMAIN old = 1 .. cap + 1 /\ cap \in Nat
      /\ w.cb.size \in Nat /\ w.cb.size <= cap
  BY OwnBlock
<1>2. \A i \in 1 .. w.cb.size : old[i] \in Elements
  BY DEF Sound, Fits
<1>3. \A i \in 1 .. cap + 1 : old[i] \in V
  BY <1>1
<1>4. u = [w EXCEPT !.blocks[w.cb.buffer].slots = slots]
  BY DEF Settle
<1>5. \A i \in 1 .. cap + 1 : i - 1 \in D => Notified(w, moved[i - 1], i - 1) \in Elements
  <2> SUFFICES ASSUME NEW i \in 1 .. cap + 1, i - 1 \in D PROVE Notified(w, moved[i - 1], i - 1) \in Elements
    OBVIOUS
  <2>1. i - 1 \in Nat /\ moved[i - 1] \in Elements
    BY <1>1
  <2> QED
    BY <2>1, NotifiedFacts
<1>6. \A i \in 1 .. cap + 1 : slots[i] = IF i - 1 \in D THEN Notified(w, moved[i - 1], i - 1) ELSE old[i]
  BY <1>1
<1> HIDE DEF old, u, cap
<1>7. slots \in Seq(V) /\ Len(slots) = cap + 1
  <2>1. slots \in [1 .. cap + 1 -> V]
    BY <1>1, <1>3, <1>5
  <2> HIDE DEF slots
  <2> QED
    BY <1>1, <2>1
<1> HIDE DEF slots
<1>8. \A i \in 1 .. w.cb.size : slots[i] \in Elements
  BY <1>1, <1>2, <1>5, <1>6
<1>9. FilledEnds(w, slots, u)
  BY <1>4, <1>7, <1>8, FilledFacts DEF cap
<1>10. ASSUME NEW i \in 0 .. cap
       PROVE  Slot(u, i) = IF i \in D THEN Notified(w, moved[i], i) ELSE Slot(w, i)
  <2>1. i + 1 \in 1 .. cap + 1 /\ (i + 1) - 1 = i
    BY <1>1
  <2>2. Slot(u, i) = slots[i + 1]
    BY <1>9 DEF FilledEnds, cap
  <2>3. slots[i + 1] = IF i \in D THEN Notified(w, moved[i], i) ELSE old[i + 1]
    BY <1>6, <2>1
  <2> QED
    BY <2>2, <2>3 DEF Slot, old
<1> QED
  BY <1>9, <1>10 DEF SettleEnds, FilledEnds, u, cap

(* The heap with another size. *)
SizeEnds(w, n, u) ==
  /\ Sound(u) /\ SameSettings(u.cb, w.cb) /\ u.cb.size = n /\ u.cb.capacity = w.cb.capacity
  /\ u.cb.buffer = w.cb.buffer /\ u.blocks = w.blocks
  /\ \A i \in 0 .. w.cb.capacity : Slot(u, i) = Slot(w, i)

LEMMA SizeFacts ==
  ASSUME NEW w, Sound(w), NEW n \in Nat, n <= w.cb.capacity,
         \A i \in 0 .. n - 1 : Slot(w, i) \in Elements,
         NEW u, u = [w EXCEPT !.cb.size = n]
  PROVE  SizeEnds(w, n, u)
<1> DEFINE cb == [w.cb EXCEPT !.size = n]
<1>1. w.cb \in ControlBlocks /\ w.cb.capacity \in 0 .. SizeMax /\ w.cb.capacity \in Nat
  BY CbFacts
<1>2. n \in 0 .. SizeMax
  BY <1>1, MemoryAssumption
<1>3. cb \in ControlBlocks /\ cb.size = n /\ cb.capacity = w.cb.capacity /\ cb.buffer = w.cb.buffer
  BY <1>1, <1>2 DEF ControlBlocks
<1>4. SameSettings(cb, w.cb)
  BY <1>1 DEF ControlBlocks, SameSettings
<1>5. u = [w EXCEPT !.cb = cb]
  OBVIOUS
<1> HIDE DEF cb
<1>6. u \in Worlds /\ u.cb = cb /\ u.blocks = w.blocks /\ u.contract = w.contract
  BY <1>3, <1>5 DEF Sound, Worlds, World
<1>7. ASSUME u.cb.buffer # Null PROVE Fits(u.cb, u.blocks[u.cb.buffer])
  <2>1. \A i \in 1 .. n : w.blocks[w.cb.buffer].slots[i] \in Elements
    <3> SUFFICES ASSUME NEW i \in 1 .. n PROVE w.blocks[w.cb.buffer].slots[i] \in Elements
      OBVIOUS
    <3>1. i - 1 \in 0 .. n - 1 /\ (i - 1) + 1 = i
      OBVIOUS
    <3>2. Slot(w, i - 1) \in Elements
      BY <3>1
    <3> QED
      BY <3>1, <3>2 DEF Slot
  <2>2. Fits(w.cb, w.blocks[w.cb.buffer])
    BY <1>3, <1>6, <1>7 DEF Sound
  <2> QED
    BY <1>3, <1>4, <1>6, <2>1, <2>2 DEF Fits, SameSettings
<1>8. Prepared(u.cb)
  BY <1>3, <1>4, <1>6 DEF Sound, Prepared, SameSettings
<1>9. Sound(u)
  BY <1>3, <1>6, <1>7, <1>8 DEF Sound
<1> QED
  BY <1>3, <1>4, <1>6, <1>9 DEF SizeEnds, Slot

(***************************************************************************)
(* Order.                                                                  *)
(***************************************************************************)
LEMMA ParentFacts ==
  ASSUME NEW i \in Nat, i > 0
  PROVE  Parent(i) \in Nat /\ Parent(i) < i /\ Parent(i) \in 0 .. i - 1
         /\ (i = 2 * Parent(i) + 1 \/ i = 2 * Parent(i) + 2)
  BY DEF Parent

KeyAt(w, i) == Slot(w, i).key

(* Without NaN the keys are in a total order. *)
LEMMA OrderFacts ==
  ASSUME NaN \notin Keys, NEW order, NEW a \in Keys, NEW b \in Keys, NEW c \in Keys
  PROVE  /\ Before(order, a, b) => ~Before(order, b, a)
         /\ ~Before(order, a, b) /\ ~Before(order, b, c) => ~Before(order, a, c)
         /\ ~Before(order, a, b) /\ Before(order, c, b) => ~Before(order, a, c)
         /\ Before(order, a, b) /\ ~Before(order, c, b) => ~Before(order, c, a)
<1>1. a \in Int /\ b \in Int /\ c \in Int /\ a # NaN /\ b # NaN /\ c # NaN
  BY HeapAssumption
<1> QED
  BY <1>1 DEF Before, KeyLess

(* Of the first n elements, none belongs above its parent, where the parent
   is not above lo.                                                         *)
InOrder(w, lo, n) ==
  \A i \in 1 .. n - 1 : Parent(i) >= lo => ~Before(w.cb.order, KeyAt(w, i), KeyAt(w, Parent(i)))

(* The same but for the element at an index, which counts as taken out. *)
OrderedBut(w, lo, n, index) ==
  \A i \in 1 .. n - 1 :
    /\ i # index /\ Parent(i) # index /\ Parent(i) >= lo =>
         ~Before(w.cb.order, KeyAt(w, i), KeyAt(w, Parent(i)))
    /\ Parent(i) = index /\ index > 0 /\ Parent(index) >= lo =>
         ~Before(w.cb.order, KeyAt(w, i), KeyAt(w, Parent(index)))

LEMMA OrderedButFacts ==
  ASSUME NaN \notin Keys, NEW w, NEW lo \in Nat, NEW n \in Nat, NEW index \in Nat, index < n,
         InOrder(w, lo, n), \A i \in 0 .. n - 1 : Slot(w, i) \in Elements
  PROVE  OrderedBut(w, lo, n, index)
<1>1. \A i \in 0 .. n - 1 : KeyAt(w, i) \in Keys
  BY DEF KeyAt, Elements
<1>2. ASSUME NEW i \in 1 .. n - 1, Parent(i) = index, index > 0, Parent(index) >= lo
      PROVE  ~Before(w.cb.order, KeyAt(w, i), KeyAt(w, Parent(index)))
  <2>1. i \in Nat /\ i > 0 /\ index \in 1 .. n - 1 /\ index \in 0 .. n - 1 /\ i \in 0 .. n - 1
    BY <1>2
  <2>2. Parent(index) \in 0 .. n - 1 /\ Parent(index) < index
    BY <1>2, <2>1, ParentFacts
  <2>3. ~Before(w.cb.order, KeyAt(w, i), KeyAt(w, index))
    BY <1>2, <2>1, <2>2 DEF InOrder
  <2>4. ~Before(w.cb.order, KeyAt(w, index), KeyAt(w, Parent(index)))
    BY <1>2, <2>1 DEF InOrder
  <2> QED
    BY <1>1, <2>1, <2>2, <2>3, <2>4, OrderFacts
<1> QED
  BY <1>2 DEF InOrder, OrderedBut

(***************************************************************************)
(* Sifting up.                                                             *)
(***************************************************************************)
(* The hole rises from index along S to e. *)
Rise(w, index, item, S, e) ==
  /\ index \in S /\ S \subseteq 0 .. index /\ e \in S /\ e = Min(S)
  /\ \A j \in S : e <= j
  /\ \A j \in S : j # e => j > 0 /\ Parent(j) \in S /\ ElemBefore(w, item, Slot(w, Parent(j)))
  /\ e > 0 => ~ElemBefore(w, item, Slot(w, Parent(e)))
  /\ \A j \in S : j # index => \E k \in S : k # e /\ Parent(k) = j

LEMMA RisesFacts ==
  ASSUME NEW w, NEW index \in Nat, NEW item
  PROVE  \E e : Rise(w, index, item, Rises(w, index, item)[index], e)
<1> DEFINE D == 0 .. index
           rank == [i \in D |-> i]
           go == [i \in D |-> i > 0 /\ ElemBefore(w, item, Slot(w, Parent(i)))]
           next == [i \in D |-> Parent(i)]
           f == Rises(w, index, item)
           S == f[index]
<1>1. Steps(D, rank, index, go, next)
  <2>1. \A i \in D : i > 0 => Parent(i) \in D /\ Parent(i) < i
    BY ParentFacts
  <2> QED
    BY <2>1 DEF Steps
<1>2. PICK g : Follows(g, D, go, next)
  BY <1>1, PathExists
<1>3. g = [i \in D |-> IF i > 0 /\ ElemBefore(w, item, Slot(w, Parent(i))) THEN {i} \cup g[Parent(i)] ELSE {i}]
  BY <1>2 DEF Follows
<1>4. f = [i \in D |-> IF i > 0 /\ ElemBefore(w, item, Slot(w, Parent(i))) THEN {i} \cup f[Parent(i)] ELSE {i}]
  BY <1>3 DEF Rises
<1> HIDE DEF f
<1>5. Follows(f, D, go, next)
  BY <1>4 DEF Follows
<1>6. index \in D
  OBVIOUS
<1>7. PathOf(S, index, D, rank, go, next)
  BY <1>1, <1>5, <1>6, PathFacts
<1> HIDE DEF S
<1>8. PICK e \in S : ~go[e] /\ \A j \in S : j # e => go[j] /\ rank[e] < rank[j]
  BY <1>7 DEF PathOf
<1>9. index \in S /\ S \subseteq D
  BY <1>7 DEF PathOf
<1>10. \A j \in S : j # e => e < j
  BY <1>8, <1>9
<1>11. e = Min(S)
  <2>1. \A j \in S : e <= j
    BY <1>8, <1>9, <1>10
  <2> DEFINE m == Min(S)
  <2>2. m \in S /\ \A j \in S : m <= j
    BY <1>8, <2>1 DEF Min
  <2> HIDE DEF m
  <2>3. m <= e /\ e <= m /\ m \in Nat /\ e \in Nat
    BY <1>8, <1>9, <2>1, <2>2
  <2>4. e = m
    BY <2>3
  <2> QED
    BY <2>4 DEF m
<1>12. \A j \in S : j # e => j > 0 /\ Parent(j) \in S /\ ElemBefore(w, item, Slot(w, Parent(j)))
  BY <1>7, <1>8, <1>9 DEF PathOf
<1>13. e > 0 => ~ElemBefore(w, item, Slot(w, Parent(e)))
  BY <1>8, <1>9
<1>14. \A j \in S : j # index => \E k \in S : k # e /\ Parent(k) = j
  BY <1>7, <1>8, <1>9 DEF PathOf
<1>15. Rise(w, index, item, S, e)
  BY <1>8, <1>9, <1>10, <1>11, <1>12, <1>13, <1>14 DEF Rise
<1> QED
  BY <1>15 DEF S, f

(* Each element of the path is one step down, and the item is at its end. *)
RiseEnds(w, index, item, S, e, u) ==
  /\ Rise(w, index, item, S, e)
  /\ Sound(u) /\ u.cb = w.cb /\ u.calls = w.calls
  /\ \A i \in 0 .. w.cb.capacity :
       Slot(u, i) = IF i \in S THEN Notified(w, IF i = e THEN item ELSE Slot(w, Parent(i)), i)
                    ELSE Slot(w, i)

LEMMA SiftUpFacts ==
  ASSUME NEW w, Sound(w), w.cb.buffer # Null, NEW index \in Nat, index <= w.cb.size,
         NEW item \in Elements
  PROVE  \E S, e : RiseEnds(w, index, item, S, e, SiftUp(w, index, item))
<1> DEFINE S == Rises(w, index, item)[index]
           moved == [i \in S |-> IF i = Min(S) THEN item ELSE Slot(w, Parent(i))]
           u == SiftUp(w, index, item)
<1>1. PICK e : Rise(w, index, item, S, e)
  BY RisesFacts
<1>2. u = Settle(w, moved)
  BY DEF SiftUp
<1> HIDE DEF S, u
<1>3. e = Min(S) /\ S \subseteq 0 .. index /\ \A j \in S : j # e => j > 0
  BY <1>1 DEF Rise
<1>4. S \subseteq 0 .. w.cb.capacity
  BY <1>3, CbFacts
<1>5. ASSUME NEW i \in S, i # e PROVE Slot(w, Parent(i)) \in Elements
  <2>1. i \in Nat /\ i > 0 /\ i <= index
    BY <1>3, <1>5
  <2>2. Parent(i) \in 0 .. w.cb.size - 1
    BY <2>1, ParentFacts, CbFacts
  <2> QED
    BY <2>2, SlotFacts
<1>6. moved \in [S -> Elements]
  BY <1>3, <1>5
<1>7. SettleEnds(w, moved, u)
  BY <1>2, <1>4, <1>6, SettleFacts
<1>8. \A i \in S : moved[i] = IF i = e THEN item ELSE Slot(w, Parent(i))
  BY <1>3
<1>9. DOMAIN moved = S
  OBVIOUS
<1> HIDE DEF moved
<1>10. RiseEnds(w, index, item, S, e, u)
  BY <1>1, <1>7, <1>8, <1>9 DEF RiseEnds, SettleEnds
<1> QED
  BY <1>10 DEF u

(* What the keys are after it. *)
LEMMA RiseKeys ==
  ASSUME NEW w, Sound(w), NEW index \in Nat, index <= w.cb.size, index <= w.cb.capacity,
         NEW item \in Elements, NEW S, NEW e, NEW u, RiseEnds(w, index, item, S, e, u),
         NEW i \in 0 .. w.cb.capacity
  PROVE  /\ i \notin S => KeyAt(u, i) = KeyAt(w, i)
         /\ i = e => KeyAt(u, i) = item.key
         /\ i \in S /\ i # e => KeyAt(u, i) = KeyAt(w, Parent(i))
<1>1. i \notin S => KeyAt(u, i) = KeyAt(w, i)
  BY DEF RiseEnds, KeyAt
<1>2. e \in S /\ S \subseteq 0 .. index /\ \A j \in S : j # e => j > 0
  BY DEF RiseEnds, Rise
<1>3. ASSUME i = e PROVE KeyAt(u, i) = item.key
  <2>1. Slot(u, i) = Notified(w, item, i) /\ i \in Nat
    BY <1>2, <1>3 DEF RiseEnds
  <2> QED
    BY <2>1, NotifiedFacts DEF KeyAt
<1>4. ASSUME i \in S, i # e PROVE KeyAt(u, i) = KeyAt(w, Parent(i))
  <2>1. i \in Nat /\ i > 0 /\ i <= index
    BY <1>2, <1>4
  <2>2. Parent(i) \in 0 .. w.cb.size - 1
    BY <2>1, ParentFacts, CbFacts
  <2>3. Slot(w, Parent(i)) \in Elements
    BY <2>2, SlotFacts
  <2>4. Slot(u, i) = Notified(w, Slot(w, Parent(i)), i)
    BY <1>4 DEF RiseEnds
  <2> QED
    BY <2>1, <2>3, <2>4, NotifiedFacts DEF KeyAt
<1> QED
  BY <1>1, <1>3, <1>4
(* A hole that opened in an ordered heap closes in an ordered heap. *)
LEMMA RiseOrder ==
  ASSUME NaN \notin Keys, NEW w, Sound(w), NEW index \in Nat, index <= w.cb.size,
         NEW item \in Elements, NEW S, NEW e, NEW u, RiseEnds(w, index, item, S, e, u),
         NEW n \in Nat, index < n, n <= w.cb.capacity,
         \A i \in 0 .. n - 1 : i # index => Slot(w, i) \in Elements,
         OrderedBut(w, 0, n, index),
         \A i \in 1 .. n - 1 : Parent(i) = index =>
           index > 0 /\ ElemBefore(w, item, Slot(w, Parent(index)))
  PROVE  InOrder(u, 0, n)
<1> DEFINE K(i) == KeyAt(w, i)
           o == w.cb.order
           k == item.key
<1>1. u.cb.order = o /\ w.cb.capacity \in Nat
  BY CbFacts DEF RiseEnds
<1> SUFFICES ASSUME NEW i \in 1 .. n - 1 PROVE ~Before(o, KeyAt(u, i), KeyAt(u, Parent(i)))
  BY <1>1 DEF InOrder
<1> DEFINE p == Parent(i)
<1>2. /\ i \in Nat /\ i > 0 /\ i \in 0 .. w.cb.capacity /\ p \in 0 .. n - 1 /\ p < i
      /\ p \in 0 .. w.cb.capacity /\ p >= 0 /\ i \in 0 .. n - 1 /\ p \in Nat
  BY <1>1, ParentFacts
<1>3. index <= w.cb.capacity
  BY <1>1
<1>4. /\ i \notin S => KeyAt(u, i) = K(i)
      /\ i = e => KeyAt(u, i) = k
      /\ i \in S /\ i # e => KeyAt(u, i) = K(p)
  BY <1>2, <1>3, RiseKeys
<1>5. /\ p \notin S => KeyAt(u, p) = K(p)
      /\ p = e => KeyAt(u, p) = k
      /\ p \in S /\ p # e => KeyAt(u, p) = K(Parent(p))
  BY <1>2, <1>3, RiseKeys
<1>6. /\ index \in S /\ S \subseteq 0 .. index /\ e \in S /\ \A j \in S : e <= j
      /\ \A j \in S : j # e => j > 0 /\ Parent(j) \in S /\ Before(o, k, K(Parent(j)))
      /\ e > 0 => ~Before(o, k, K(Parent(e)))
      /\ \A j \in S : j # index => \E l \in S : l # e /\ Parent(l) = j
  BY DEF RiseEnds, Rise, ElemBefore, KeyAt
<1>7. /\ i # index /\ p # index => ~Before(o, K(i), K(p))
      /\ p = index /\ index > 0 => ~Before(o, K(i), K(Parent(index)))
  <2>1. index > 0 => Parent(index) >= 0
    BY ParentFacts
  <2> QED
    BY <1>2, <2>1 DEF OrderedBut
<1>8. k \in Keys /\ \A j \in 0 .. n - 1 : j # index => K(j) \in Keys
  BY DEF Elements, KeyAt
<1>9. p = index => index > 0 /\ Before(o, k, K(Parent(index)))
  BY DEF ElemBefore, KeyAt
<1> HIDE DEF K, o, k, p
<1>10. CASE i = e
  <2>1. p \notin S /\ ~Before(o, k, K(p))
    BY <1>2, <1>6, <1>10 DEF p
  <2> QED
    BY <1>4, <1>5, <1>10, <2>1 DEF p
<1>11. CASE i \in S /\ i # e
  <2>1. p \in S /\ Before(o, k, K(p)) /\ p < index /\ i <= index
    BY <1>2, <1>6, <1>11 DEF p
  <2>2. p # index /\ K(p) \in Keys
    BY <1>2, <1>8, <2>1
  <2>3. CASE p = e
    BY <1>4, <1>5, <1>8, <1>11, <2>1, <2>2, <2>3, OrderFacts DEF p
  <2>4. CASE p # e
    <3> DEFINE q == Parent(p)
    <3>1. p > 0
      BY <1>6, <2>1, <2>4
    <3>2. q \in Nat /\ q < p /\ q >= 0 /\ p \in 1 .. n - 1
      BY <1>2, <3>1, ParentFacts
    <3>3. q # index
      BY <2>1, <3>2
    <3>4. ~Before(o, K(p), K(q))
      BY <2>2, <3>2, <3>3 DEF OrderedBut, K, o
    <3> QED
      BY <1>4, <1>5, <1>11, <2>1, <2>4, <3>4 DEF p
  <2> QED
    BY <2>3, <2>4
<1>12. CASE i \notin S /\ p \notin S
  <2>1. i # index /\ p # index
    BY <1>6, <1>12
  <2> QED
    BY <1>4, <1>5, <1>7, <1>12, <2>1 DEF p
<1>13. CASE i \notin S /\ p \in S /\ p = index
  <2>1. index > 0 /\ Before(o, k, K(Parent(index)))
    BY <1>9, <1>13
  <2>2. p # e
    BY <1>6, <1>13, <2>1
  <2>3. KeyAt(u, p) = K(Parent(index)) /\ KeyAt(u, i) = K(i)
    BY <1>4, <1>5, <1>13, <2>2
  <2> QED
    BY <1>7, <1>13, <2>1, <2>3 DEF p
<1>14. CASE i \notin S /\ p \in S /\ p # index
  <2>1. i # index /\ K(i) \in Keys /\ K(p) \in Keys /\ ~Before(o, K(i), K(p))
    BY <1>2, <1>6, <1>7, <1>8, <1>14
  <2>2. p < index
    BY <1>2, <1>6, <1>14
  <2>3. CASE p = e
    <3>1. PICK l \in S : l # e /\ Parent(l) = p
      BY <1>6, <1>14
    <3>2. Before(o, k, K(p))
      BY <1>6, <3>1
    <3>3. ~Before(o, K(i), k)
      BY <1>8, <2>1, <3>2, OrderFacts
    <3> QED
      BY <1>4, <1>5, <1>14, <2>3, <3>3 DEF p
  <2>4. CASE p # e
    <3> DEFINE q == Parent(p)
    <3>1. p > 0
      BY <1>6, <1>14, <2>4
    <3>2. q \in Nat /\ q < p /\ q >= 0 /\ p \in 1 .. n - 1 /\ q \in 0 .. n - 1
      BY <1>2, <3>1, ParentFacts
    <3>3. q # index
      BY <2>2, <3>2
    <3>4. ~Before(o, K(p), K(q)) /\ K(q) \in Keys
      BY <1>8, <1>14, <3>2, <3>3 DEF OrderedBut, K, o
    <3>5. ~Before(o, K(i), K(q))
      BY <2>1, <3>4, OrderFacts
    <3> QED
      BY <1>4, <1>5, <1>14, <2>4, <3>5 DEF p
  <2> QED
    BY <2>3, <2>4
<1> QED
  BY <1>10, <1>11, <1>12, <1>13, <1>14 DEF p
(***************************************************************************)
(* Sifting down.                                                           *)
(***************************************************************************)
LEMMA ChildFacts ==
  ASSUME NEW w, NEW i \in Nat, w.cb.size \in Nat
  PROVE  /\ FirstChild(w, i) \in {2 * i + 1, 2 * i + 2} /\ FirstChild(w, i) > i
         /\ FirstChild(w, i) \in Nat /\ FirstChild(w, i) > 0 /\ Parent(FirstChild(w, i)) = i
         /\ 2 * i + 1 < w.cb.size => FirstChild(w, i) < w.cb.size
<1>1. FirstChild(w, i) \in {2 * i + 1, 2 * i + 2}
  BY DEF FirstChild
<1>2. 2 * i + 1 < w.cb.size => FirstChild(w, i) < w.cb.size
  BY DEF FirstChild
<1>3. Parent(2 * i + 1) = i /\ Parent(2 * i + 2) = i
  BY DEF Parent
<1> QED
  BY <1>1, <1>2, <1>3

(* Neither child belongs above the first one. *)
LEMMA SiblingFacts ==
  ASSUME NaN \notin Keys, NEW w, Sound(w), NEW i \in Nat, NEW d \in 1 .. w.cb.size - 1, Parent(d) = i
  PROVE  /\ 2 * i + 1 < w.cb.size
         /\ ~Before(w.cb.order, KeyAt(w, d), KeyAt(w, FirstChild(w, i)))
<1> DEFINE left == 2 * i + 1
           right == 2 * i + 2
           o == w.cb.order
           size == w.cb.size
<1>1. size \in Nat /\ d \in Nat /\ d < size /\ d > 0 /\ (d = left \/ d = right)
  BY CbFacts, ParentFacts
<1>2. left < size
  BY <1>1
<1>3. \A j \in 0 .. size - 1 : KeyAt(w, j) \in Keys
  BY SlotFacts DEF KeyAt, Elements
<1>4. FirstChild(w, i) = IF right < size /\ Before(o, KeyAt(w, right), KeyAt(w, left)) THEN right ELSE left
  <2>1. left + 1 = right
    OBVIOUS
  <2> QED
    BY <2>1 DEF FirstChild, ElemBefore, KeyAt
<1>5. left \in 0 .. size - 1 /\ (right < size => right \in 0 .. size - 1)
  BY <1>1, <1>2
<1> HIDE DEF left, right, o, size
<1>6. CASE right < size /\ Before(o, KeyAt(w, right), KeyAt(w, left))
  <2>1. FirstChild(w, i) = right /\ KeyAt(w, right) \in Keys /\ KeyAt(w, left) \in Keys
    BY <1>3, <1>4, <1>5, <1>6
  <2> QED
    BY <1>1, <1>2, <1>6, <2>1, OrderFacts DEF o, left, size
<1>7. CASE ~(right < size /\ Before(o, KeyAt(w, right), KeyAt(w, left)))
  <2>1. FirstChild(w, i) = left /\ KeyAt(w, left) \in Keys
    BY <1>3, <1>4, <1>5, <1>7
  <2>2. ~Before(o, KeyAt(w, left), KeyAt(w, left))
    BY <2>1, OrderFacts
  <2> QED
    BY <1>1, <1>2, <1>7, <2>1, <2>2 DEF o, left, size
<1> QED
  BY <1>6, <1>7

(* The hole sinks from index along S to e. *)
Sink(w, index, item, S, e) ==
  /\ index \in S /\ e \in S /\ e = Max(S)
  /\ \A j \in S : j \in Nat /\ index <= j /\ j < w.cb.size
  /\ \A j \in S : j # e => /\ FirstChild(w, j) \in S
                           /\ ElemBefore(w, Slot(w, FirstChild(w, j)), item)
  /\ 2 * e + 1 < w.cb.size => ~ElemBefore(w, Slot(w, FirstChild(w, e)), item)
  /\ \A j \in S : j # index => \E k \in S : k # e /\ FirstChild(w, k) = j

LEMMA SinksFacts ==
  ASSUME NEW w, NEW index \in Nat, w.cb.size \in Nat, index < w.cb.size, NEW item
  PROVE  \E e : Sink(w, index, item, Sinks(w, index, item)[index], e)
<1> DEFINE size == w.cb.size
           D == index .. size
           rank == [i \in D |-> size - i]
           go == [i \in D |-> 2 * i + 1 < size /\ ElemBefore(w, Slot(w, FirstChild(w, i)), item)]
           next == [i \in D |-> FirstChild(w, i)]
           f == Sinks(w, index, item)
           S == f[index]
<1>1. Steps(D, rank, size, go, next)
  <2>1. \A i \in D : 2 * i + 1 < size => FirstChild(w, i) \in D /\ size - FirstChild(w, i) < size - i
    <3> SUFFICES ASSUME NEW i \in D, 2 * i + 1 < size
                 PROVE  FirstChild(w, i) \in D /\ size - FirstChild(w, i) < size - i
      OBVIOUS
    <3>1. FirstChild(w, i) \in Nat /\ FirstChild(w, i) < size /\ FirstChild(w, i) > i
      BY ChildFacts
    <3> QED
      BY <3>1
  <2>2. rank \in [D -> 0 .. size] /\ size \in Nat
    OBVIOUS
  <2>3. \A i \in D : go[i] => next[i] \in D /\ rank[next[i]] < rank[i]
    BY <2>1
  <2> QED
    BY <2>2, <2>3 DEF Steps
<1>2. PICK g : Follows(g, D, go, next)
  BY <1>1, PathExists
<1>3. g = [i \in D |-> IF 2 * i + 1 < size /\ ElemBefore(w, Slot(w, FirstChild(w, i)), item)
                       THEN {i} \cup g[FirstChild(w, i)] ELSE {i}]
  BY <1>2 DEF Follows
<1>4. f = [i \in D |-> IF 2 * i + 1 < size /\ ElemBefore(w, Slot(w, FirstChild(w, i)), item)
                       THEN {i} \cup f[FirstChild(w, i)] ELSE {i}]
  BY <1>3 DEF Sinks
<1> HIDE DEF f
<1>5. Follows(f, D, go, next)
  BY <1>4 DEF Follows
<1>6. index \in D
  OBVIOUS
<1>7. PathOf(S, index, D, rank, go, next)
  BY <1>1, <1>5, <1>6, PathFacts
<1> HIDE DEF S
<1>8. PICK e \in S : ~go[e] /\ \A j \in S : j # e => go[j] /\ rank[e] < rank[j]
  BY <1>7 DEF PathOf
<1>9. index \in S /\ S \subseteq D /\ \A j \in S : j \in Nat /\ index <= j /\ j <= size
  <2>1. index \in S /\ \A j \in S : j \in D
    BY <1>7 DEF PathOf
  <2>2. \A j \in D : j \in Nat /\ index <= j /\ j <= size
    OBVIOUS
  <2> QED
    BY <2>1, <2>2
<1>10. \A j \in S : j <= e
  <2>1. \A j \in S : rank[j] = size - j
    BY <1>9
  <2>2. \A j \in S : j # e => rank[e] < rank[j]
    BY <1>8
  <2>3. \A j \in S : j # e => size - e < size - j
    BY <1>8, <2>1, <2>2
  <2> QED
    BY <1>8, <1>9, <2>3
<1>11. e = Max(S)
  <2> DEFINE m == Max(S)
  <2>1. m \in S /\ \A j \in S : j <= m
    BY <1>8, <1>10 DEF Max
  <2> HIDE DEF m
  <2>2. m <= e /\ e <= m /\ m \in Nat /\ e \in Nat
    BY <1>8, <1>9, <1>10, <2>1
  <2>3. e = m
    BY <2>2
  <2> QED
    BY <2>3 DEF m
<1>12. \A j \in S : j # e => FirstChild(w, j) \in S /\ ElemBefore(w, Slot(w, FirstChild(w, j)), item)
  BY <1>7, <1>8, <1>9 DEF PathOf
<1>13. 2 * e + 1 < size => ~ElemBefore(w, Slot(w, FirstChild(w, e)), item)
  BY <1>8, <1>9
<1>14. \A j \in S : j # index => \E k \in S : k # e /\ go[k] /\ FirstChild(w, k) = j
  BY <1>7, <1>8, <1>9 DEF PathOf
<1>15. \A j \in S : j < size
  <2> SUFFICES ASSUME NEW j \in S, j # index PROVE j < size
    OBVIOUS
  <2>1. PICK k \in S : go[k] /\ FirstChild(w, k) = j
    BY <1>14
  <2>2. k \in Nat /\ 2 * k + 1 < size
    BY <1>9, <2>1
  <2> QED
    BY <2>1, <2>2, ChildFacts
<1>16. Sink(w, index, item, S, e)
  <2>1. \A j \in S : j \in Nat /\ index <= j /\ j < w.cb.size
    BY <1>9, <1>15
  <2> QED
    BY <1>8, <1>9, <1>11, <1>12, <1>13, <1>14, <2>1 DEF Sink
<1> QED
  BY <1>16 DEF S, f

(* Each element of the path is one step up, and the item is at its end. *)
SinkEnds(w, index, item, S, e, u) ==
  /\ Sink(w, index, item, S, e)
  /\ Sound(u) /\ u.cb = w.cb /\ u.calls = w.calls
  /\ \A i \in 0 .. w.cb.capacity :
       Slot(u, i) = IF i \in S THEN Notified(w, IF i = e THEN item ELSE Slot(w, FirstChild(w, i)), i)
                    ELSE Slot(w, i)

LEMMA SiftDownFacts ==
  ASSUME NEW w, Sound(w), NEW index \in Nat, index < w.cb.size, NEW item \in Elements
  PROVE  \E S, e : SinkEnds(w, index, item, S, e, SiftDown(w, index, item))
<1> DEFINE S == Sinks(w, index, item)[index]
           moved == [i \in S |-> IF i = Max(S) THEN item ELSE Slot(w, FirstChild(w, i))]
           u == SiftDown(w, index, item)
<1>0. w.cb.size \in Nat /\ w.cb.capacity \in Nat /\ w.cb.size <= w.cb.capacity /\ w.cb.buffer # Null
  BY CbFacts DEF Sound
<1>1. PICK e : Sink(w, index, item, S, e)
  BY <1>0, SinksFacts
<1>2. u = Settle(w, moved)
  BY DEF SiftDown
<1> HIDE DEF S, u
<1>3. e = Max(S) /\ (\A j \in S : j \in Nat /\ j < w.cb.size) /\ \A j \in S : j # e => FirstChild(w, j) \in S
  BY <1>1 DEF Sink
<1>4. S \subseteq 0 .. w.cb.capacity
  BY <1>0, <1>3
<1>5. ASSUME NEW i \in S, i # e PROVE Slot(w, FirstChild(w, i)) \in Elements
  <2>1. FirstChild(w, i) \in 0 .. w.cb.size - 1
    BY <1>0, <1>3, <1>5
  <2> QED
    BY <2>1, SlotFacts
<1>6. moved \in [S -> Elements]
  BY <1>3, <1>5
<1>7. SettleEnds(w, moved, u)
  BY <1>0, <1>2, <1>4, <1>6, SettleFacts
<1>8. \A i \in S : moved[i] = IF i = e THEN item ELSE Slot(w, FirstChild(w, i))
  BY <1>3
<1>9. DOMAIN moved = S
  OBVIOUS
<1> HIDE DEF moved
<1>10. SinkEnds(w, index, item, S, e, u)
  BY <1>1, <1>7, <1>8, <1>9 DEF SinkEnds, SettleEnds
<1> QED
  BY <1>10 DEF u

LEMMA SinkKeys ==
  ASSUME NEW w, Sound(w), NEW index \in Nat, NEW item \in Elements,
         NEW S, NEW e, NEW u, SinkEnds(w, index, item, S, e, u), NEW i \in 0 .. w.cb.capacity
  PROVE  /\ i \notin S => KeyAt(u, i) = KeyAt(w, i)
         /\ i = e => KeyAt(u, i) = item.key
         /\ i \in S /\ i # e => KeyAt(u, i) = KeyAt(w, FirstChild(w, i))
<1>1. i \notin S => KeyAt(u, i) = KeyAt(w, i)
  BY DEF SinkEnds, KeyAt
<1>2. /\ e \in S /\ \A j \in S : j \in Nat /\ j < w.cb.size
      /\ \A j \in S : j # e => FirstChild(w, j) \in S
      /\ w.cb.size \in Nat /\ w.cb.capacity \in Nat
  BY CbFacts DEF SinkEnds, Sink
<1>3. ASSUME i = e PROVE KeyAt(u, i) = item.key
  <2>1. Slot(u, i) = Notified(w, item, i) /\ i \in Nat
    BY <1>2, <1>3 DEF SinkEnds
  <2> QED
    BY <2>1, NotifiedFacts DEF KeyAt
<1>4. ASSUME i \in S, i # e PROVE KeyAt(u, i) = KeyAt(w, FirstChild(w, i))
  <2>0. FirstChild(w, i) \in S
    BY <1>2, <1>4
  <2>1. FirstChild(w, i) \in 0 .. w.cb.size - 1 /\ i \in Nat
    <3>1. FirstChild(w, i) \in Nat /\ FirstChild(w, i) < w.cb.size /\ i \in Nat /\ w.cb.size \in Nat
      BY <1>2, <1>4, <2>0
    <3> QED
      BY <3>1
  <2>2. Slot(w, FirstChild(w, i)) \in Elements
    BY <2>1, SlotFacts
  <2>3. Slot(u, i) = Notified(w, Slot(w, FirstChild(w, i)), i)
    BY <1>4 DEF SinkEnds
  <2> QED
    BY <2>1, <2>2, <2>3, NotifiedFacts DEF KeyAt
<1> QED
  BY <1>1, <1>3, <1>4

LEMMA SinkOrder ==
  ASSUME NaN \notin Keys, NEW w, Sound(w), NEW index \in Nat,
         NEW item \in Elements, NEW S, NEW e, NEW u, SinkEnds(w, index, item, S, e, u),
         NEW lo \in Nat, lo <= index, OrderedBut(w, lo, w.cb.size, index),
         index > 0 /\ Parent(index) >= lo => ~ElemBefore(w, item, Slot(w, Parent(index)))
  PROVE  InOrder(u, lo, w.cb.size)
<1> DEFINE K(i) == KeyAt(w, i)
           o == w.cb.order
           k == item.key
           n == w.cb.size
           C(i) == FirstChild(w, i)
<1>1. u.cb.order = o /\ w.cb.capacity \in Nat /\ n \in Nat /\ n <= w.cb.capacity
  BY CbFacts DEF SinkEnds
<1> SUFFICES ASSUME NEW i \in 1 .. n - 1, Parent(i) >= lo
             PROVE  ~Before(o, KeyAt(u, i), KeyAt(u, Parent(i)))
  BY <1>1 DEF InOrder
<1> DEFINE p == Parent(i)
<1>2. /\ i \in Nat /\ i > 0 /\ i \in 0 .. w.cb.capacity /\ p \in 0 .. n - 1 /\ p < i
      /\ p \in 0 .. w.cb.capacity /\ i \in 0 .. n - 1 /\ p \in Nat
  BY <1>1, ParentFacts
<1>3. /\ i \notin S => KeyAt(u, i) = K(i)
      /\ i = e => KeyAt(u, i) = k
      /\ i \in S /\ i # e => KeyAt(u, i) = K(C(i))
  BY <1>2, SinkKeys
<1>4. /\ p \notin S => KeyAt(u, p) = K(p)
      /\ p = e => KeyAt(u, p) = k
      /\ p \in S /\ p # e => KeyAt(u, p) = K(C(p))
  BY <1>2, SinkKeys
<1>5. /\ index \in S /\ e \in S /\ \A j \in S : j \in Nat /\ index <= j /\ j < n
      /\ \A j \in S : j # e => C(j) \in S /\ Before(o, K(C(j)), k)
      /\ 2 * e + 1 < n => ~Before(o, K(C(e)), k)
      /\ \A j \in S : j # index => \E l \in S : l # e /\ C(l) = j
  BY DEF SinkEnds, Sink, ElemBefore, KeyAt
<1>6. \A j \in 1 .. n - 1 :
        /\ j # index /\ Parent(j) # index /\ Parent(j) >= lo => ~Before(o, K(j), K(Parent(j)))
        /\ Parent(j) = index /\ index > 0 /\ Parent(index) >= lo => ~Before(o, K(j), K(Parent(index)))
  BY DEF OrderedBut
<1>7. k \in Keys /\ \A j \in 0 .. n - 1 : K(j) \in Keys
  BY SlotFacts DEF Elements, KeyAt
<1>8. index > 0 /\ Parent(index) >= lo => ~Before(o, k, K(Parent(index)))
  BY DEF ElemBefore, KeyAt
<1>9. \A j \in Nat : Parent(C(j)) = j /\ C(j) > j /\ C(j) \in Nat
  BY <1>1, ChildFacts
<1>10. 2 * p + 1 < n /\ ~Before(o, K(i), K(C(p)))
  BY <1>2, SiblingFacts
<1> HIDE DEF K, o, k, p, n, C
<1>11. \A j \in S : j \in Nat /\ j >= index /\ j <= n - 1
  <2>1. \A j \in S : j \in Nat /\ index <= j /\ j < n
    BY <1>5
  <2> QED
    BY <1>1, <2>1
<1>12. \A j \in S : j # index => Parent(j) \in S /\ Parent(j) # e /\ C(Parent(j)) = j
  BY <1>5, <1>9, <1>11
<1>13. CASE i \notin S /\ p \notin S
  <2>1. i # index /\ p # index
    BY <1>5, <1>13
  <2> QED
    BY <1>3, <1>4, <1>6, <1>13, <2>1 DEF p
<1>14. CASE i \in S /\ p \notin S
  <2>1. i = index /\ index > 0
    BY <1>2, <1>12, <1>14 DEF p
  <2>2. CASE i = e
    BY <1>3, <1>4, <1>8, <1>14, <2>1, <2>2 DEF p
  <2>3. CASE i # e
    <3>1. C(i) \in S /\ Parent(C(i)) = index /\ C(i) \in 1 .. n - 1
      BY <1>1, <1>2, <1>5, <1>9, <1>11, <1>14, <2>1, <2>3
    <3>2. ~Before(o, K(C(i)), K(p))
      BY <1>6, <2>1, <3>1 DEF p
    <3> QED
      BY <1>3, <1>4, <1>14, <2>3, <3>2 DEF p
  <2> QED
    BY <2>2, <2>3
<1>15. CASE i \in S /\ p \in S
  <2>1. i # index /\ p # e /\ C(p) = i
    BY <1>2, <1>11, <1>12, <1>15 DEF p
  <2>2. KeyAt(u, p) = K(i)
    BY <1>4, <1>15, <2>1
  <2>3. CASE i = e
    <3>1. Before(o, K(i), k) /\ K(i) \in Keys
      BY <1>2, <1>5, <1>7, <1>15, <2>1
    <3> QED
      BY <1>3, <1>7, <2>2, <2>3, <3>1, OrderFacts DEF p
  <2>4. CASE i # e
    <3>1. C(i) \in S /\ Parent(C(i)) = i /\ C(i) \in 1 .. n - 1 /\ C(i) # index /\ i >= lo
      BY <1>1, <1>2, <1>5, <1>9, <1>11, <1>15, <2>4
    <3>2. ~Before(o, K(C(i)), K(i))
      BY <1>6, <2>1, <3>1
    <3> QED
      BY <1>3, <1>15, <2>2, <2>4, <3>2 DEF p
  <2> QED
    BY <2>3, <2>4
<1>16. CASE i \notin S /\ p \in S
  <2>1. CASE p = e
    <3>1. ~Before(o, K(C(e)), k) /\ C(e) \in 0 .. n - 1
      <4>1. C(e) < n
        BY <1>1, <1>2, <1>10, <2>1, ChildFacts DEF C, n
      <4> QED
        BY <1>1, <1>2, <1>5, <1>9, <1>10, <2>1, <4>1
    <3>2. K(i) \in Keys /\ K(C(e)) \in Keys
      BY <1>2, <1>7, <3>1
    <3>3. ~Before(o, K(i), k)
      BY <1>7, <1>10, <2>1, <3>1, <3>2, OrderFacts
    <3> QED
      BY <1>3, <1>4, <1>16, <2>1, <3>3 DEF p
  <2>2. CASE p # e
    BY <1>3, <1>4, <1>10, <1>16, <2>2 DEF p
  <2> QED
    BY <2>1, <2>2
<1> QED
  BY <1>13, <1>14, <1>15, <1>16
(***************************************************************************)
(* The inductive invariant of the state a call works on, and what one sift *)
(* does to it.                                                             *)
(***************************************************************************)
(* The owners of the first n elements, but for the one at an index, know
   where they are.                                                          *)
ExactBut(w, n, index) == w.cb.on_move => \A i \in 0 .. n - 1 : i # index => Slot(w, i).at = i

Exact(w, n) == w.cb.on_move => \A i \in 0 .. n - 1 : Slot(w, i).at = i

(* NaN compares false with every key, and no order survives it. *)
Ordered(w, n) == NaN \notin Keys => InOrder(w, 0, n)

Good(w) == Sound(w) /\ Exact(w, w.cb.size) /\ Ordered(w, w.cb.size)

(* All is well but for the element at an index. *)
GoodBut(w, index) ==
  /\ Sound(w) /\ ExactBut(w, w.cb.size, index)
  /\ NaN \notin Keys => OrderedBut(w, 0, w.cb.size, index)

LEMMA RiseExact ==
  ASSUME NEW w, NEW index \in Nat, NEW item \in Elements, NEW S, NEW e, NEW u, Sound(w),
         index <= w.cb.size, RiseEnds(w, index, item, S, e, u),
         NEW n \in Nat, n <= w.cb.capacity, ExactBut(w, n, index)
  PROVE  Exact(u, n)
<1>1. u.cb = w.cb /\ w.cb.capacity \in Nat /\ w.cb.size \in Nat
  BY CbFacts DEF RiseEnds
<1> SUFFICES ASSUME w.cb.on_move, NEW i \in 0 .. n - 1 PROVE Slot(u, i).at = i
  BY <1>1 DEF Exact
<1>2. i \in 0 .. w.cb.capacity /\ i \in Nat
  BY <1>1
<1>3. CASE i \notin S
  <2>1. i # index
    BY <1>3 DEF RiseEnds, Rise
  <2> QED
    BY <1>2, <1>3, <2>1 DEF RiseEnds, ExactBut
<1>4. CASE i \in S
  <2>1. i = e \/ Slot(w, Parent(i)) \in Elements
    <3> SUFFICES ASSUME i # e PROVE Slot(w, Parent(i)) \in Elements
      OBVIOUS
    <3>1. i > 0 /\ i <= index
      BY <1>2, <1>4 DEF RiseEnds, Rise
    <3>2. Parent(i) \in 0 .. w.cb.size - 1
      BY <1>1, <1>2, <3>1, ParentFacts
    <3> QED
      BY <3>2, SlotFacts
  <2> DEFINE x == IF i = e THEN item ELSE Slot(w, Parent(i))
  <2>2. Slot(u, i) = Notified(w, x, i) /\ x \in Elements
    BY <1>2, <1>4, <2>1 DEF RiseEnds
  <2> HIDE DEF x
  <2> QED
    BY <1>2, <2>2, NotifiedAt
<1> QED
  BY <1>3, <1>4

LEMMA SinkExact ==
  ASSUME NEW w, NEW index \in Nat, NEW item \in Elements, NEW S, NEW e, NEW u, Sound(w),
         SinkEnds(w, index, item, S, e, u), ExactBut(w, w.cb.size, index)
  PROVE  Exact(u, w.cb.size)
<1>1. u.cb = w.cb /\ w.cb.capacity \in Nat /\ w.cb.size \in Nat /\ w.cb.size <= w.cb.capacity
  BY CbFacts DEF SinkEnds
<1> SUFFICES ASSUME w.cb.on_move, NEW i \in 0 .. w.cb.size - 1 PROVE Slot(u, i).at = i
  BY <1>1 DEF Exact
<1>2. i \in 0 .. w.cb.capacity /\ i \in Nat
  BY <1>1
<1>3. CASE i \notin S
  <2>1. i # index
    BY <1>3 DEF SinkEnds, Sink
  <2> QED
    BY <1>2, <1>3, <2>1 DEF SinkEnds, ExactBut
<1>4. CASE i \in S
  <2>1. i = e \/ Slot(w, FirstChild(w, i)) \in Elements
    <3> SUFFICES ASSUME i # e PROVE Slot(w, FirstChild(w, i)) \in Elements
      OBVIOUS
    <3> DEFINE c == FirstChild(w, i)
    <3>1. c \in S
      BY <1>4 DEF SinkEnds, Sink
    <3> HIDE DEF c
    <3>2. c \in Nat /\ c < w.cb.size
      BY <3>1 DEF SinkEnds, Sink
    <3>3. c \in 0 .. w.cb.size - 1
      BY <1>1, <3>2
    <3> QED
      BY <3>3, SlotFacts DEF c
  <2> DEFINE x == IF i = e THEN item ELSE Slot(w, FirstChild(w, i))
  <2>2. Slot(u, i) = Notified(w, x, i) /\ x \in Elements
    BY <1>2, <1>4, <2>1 DEF SinkEnds
  <2> HIDE DEF x
  <2> QED
    BY <1>2, <2>2, NotifiedAt
<1> QED
  BY <1>3, <1>4

LEMMA GoodButFacts ==
  ASSUME NEW w, Good(w), NEW index \in Nat, index < w.cb.size
  PROVE  GoodBut(w, index)
<1>1. Sound(w) /\ w.cb.size \in Nat /\ \A i \in 0 .. w.cb.size - 1 : Slot(w, i) \in Elements
  BY CbFacts, SlotFacts DEF Good
<1>2. ASSUME NaN \notin Keys PROVE OrderedBut(w, 0, w.cb.size, index)
  BY <1>1, <1>2, OrderedButFacts DEF Good, Ordered
<1>3. ExactBut(w, w.cb.size, index)
  BY DEF Good, Exact, ExactBut
<1> QED
  BY <1>1, <1>2, <1>3 DEF GoodBut

(* Whichever way the item goes, it ends where it belongs. *)
LEMMA SiftGood ==
  ASSUME NEW w, NEW index \in Nat, GoodBut(w, index), index < w.cb.size, NEW item \in Elements,
         NEW u, u = Sift(w, index, item)
  PROVE  Good(u) /\ u.cb = w.cb
<1> DEFINE up == index > 0 /\ ElemBefore(w, item, Slot(w, Parent(index)))
           n == w.cb.size
<1>1. /\ Sound(w) /\ n \in Nat /\ n <= w.cb.capacity /\ w.cb.buffer # Null /\ index <= n
      /\ w.cb.capacity \in Nat /\ ExactBut(w, n, index)
  BY CbFacts DEF GoodBut, Sound
<1>2. \A i \in 0 .. n - 1 : Slot(w, i) \in Elements
  BY <1>1, SlotFacts
<1> HIDE DEF n
<1>3. CASE up
  <2>1. u = SiftUp(w, index, item)
    BY <1>3 DEF Sift
  <2>2. PICK S, e : RiseEnds(w, index, item, S, e, u)
    BY <1>1, <2>1, SiftUpFacts DEF n
  <2>3. Exact(u, n)
    BY <1>1, <2>2, RiseExact DEF n
  <2>4. ASSUME NaN \notin Keys PROVE InOrder(u, 0, n)
    <3>1. OrderedBut(w, 0, n, index)
      BY <2>4 DEF GoodBut, n
    <3>2. \A i \in 1 .. n - 1 : Parent(i) = index =>
            index > 0 /\ ElemBefore(w, item, Slot(w, Parent(index)))
      BY <1>3
    <3>3. \A i \in 0 .. n - 1 : i # index => Slot(w, i) \in Elements
      BY <1>2
    <3>4. index < n /\ index <= w.cb.size
      BY <1>1 DEF n
    <3> QED
      BY <1>1, <2>2, <2>4, <3>1, <3>2, <3>3, <3>4, RiseOrder
  <2> QED
    BY <2>2, <2>3, <2>4 DEF Good, Ordered, RiseEnds, n
<1>4. CASE ~up
  <2>1. u = SiftDown(w, index, item)
    BY <1>4 DEF Sift
  <2>2. PICK S, e : SinkEnds(w, index, item, S, e, u)
    BY <1>1, <2>1, SiftDownFacts DEF n
  <2>3. Exact(u, n)
    BY <1>1, <2>2, SinkExact DEF n
  <2>4. ASSUME NaN \notin Keys PROVE InOrder(u, 0, n)
    <3>1. OrderedBut(w, 0, w.cb.size, index)
      BY <2>4 DEF GoodBut
    <3>2. index > 0 /\ Parent(index) >= 0 => ~ElemBefore(w, item, Slot(w, Parent(index)))
      BY <1>4
    <3>3. 0 \in Nat /\ 0 <= index
      OBVIOUS
    <3> QED
      BY <1>1, <2>2, <2>4, <3>1, <3>2, <3>3, SinkOrder DEF n
  <2> QED
    BY <2>2, <2>3, <2>4 DEF Good, Ordered, SinkEnds, n
<1> QED
  BY <1>3, <1>4

(* The buffer has the scratch slot. *)
LEMMA CarryFacts ==
  ASSUME NEW w, Sound(w), w.cb.buffer # Null, NEW i
  PROVE  Carry(w, i) = w
<1>1. w.cb.capacity + 1 \in DOMAIN w.blocks[w.cb.buffer].slots
  BY OwnBlock
<1>2. w.contract = TRUE /\ w \in Worlds
  BY DEF Sound, Worlds, World
<1>3. Carry(w, i) = [w EXCEPT !.contract = TRUE]
  BY <1>1, <1>2 DEF Carry
<1> QED
  BY <1>2, <1>3 DEF Worlds, World

(* Two heaps with the same first n elements. *)
LEMMA SamePrefix ==
  ASSUME NEW w, NEW u, SameSettings(u.cb, w.cb), NEW n \in Nat,
         \A i \in 0 .. n - 1 : Slot(u, i) = Slot(w, i), Exact(w, n), Ordered(w, n)
  PROVE  Exact(u, n) /\ Ordered(u, n)
<1>1. u.cb.order = w.cb.order /\ u.cb.on_move = w.cb.on_move
  BY DEF SameSettings
<1>2. Exact(u, n)
  BY <1>1 DEF Exact
<1>3. ASSUME NaN \notin Keys PROVE InOrder(u, 0, n)
  <2> SUFFICES ASSUME NEW i \in 1 .. n - 1, Parent(i) >= 0
               PROVE  ~Before(u.cb.order, KeyAt(u, i), KeyAt(u, Parent(i)))
    BY DEF InOrder
  <2>1. i \in 0 .. n - 1 /\ Parent(i) \in 0 .. n - 1
    BY ParentFacts
  <2>2. KeyAt(u, i) = KeyAt(w, i) /\ KeyAt(u, Parent(i)) = KeyAt(w, Parent(i))
    BY <2>1 DEF KeyAt
  <2> QED
    BY <1>1, <1>3, <2>2 DEF Ordered, InOrder
<1> QED
  BY <1>2, <1>3 DEF Ordered

(* Another size leaves a good heap when that many elements are good. *)
LEMMA SizedGood ==
  ASSUME NEW w, Sound(w), NEW n \in Nat, n <= w.cb.capacity, NEW u, SizeEnds(w, n, u),
         Exact(w, n), Ordered(w, n)
  PROVE  Good(u)
<1>1. w.cb.capacity \in Nat
  BY CbFacts
<1>2. SameSettings(u.cb, w.cb) /\ \A i \in 0 .. n - 1 : Slot(u, i) = Slot(w, i)
  BY <1>1 DEF SizeEnds
<1>3. Exact(u, n) /\ Ordered(u, n)
  BY <1>2, SamePrefix
<1> QED
  BY <1>3 DEF Good, SizeEnds

(* A smaller size leaves a good heap. *)
LEMMA LoweredGood ==
  ASSUME NEW w, Good(w), NEW n \in Nat, n <= w.cb.size, NEW u, u = [w EXCEPT !.cb.size = n]
  PROVE  Good(u) /\ SizeEnds(w, n, u)
<1>1. Sound(w) /\ w.cb.size \in Nat /\ w.cb.capacity \in Nat /\ w.cb.size <= w.cb.capacity
  BY CbFacts DEF Good
<1>2. n <= w.cb.capacity /\ \A i \in 0 .. n - 1 : Slot(w, i) \in Elements
  BY <1>1, SlotFacts
<1>3. SizeEnds(w, n, u)
  BY <1>1, <1>2, SizeFacts
<1>4. Exact(w, n)
  BY <1>1 DEF Good, Exact
<1>5. Ordered(w, n)
  <2>1. \A i \in 1 .. n - 1 : i \in 1 .. w.cb.size - 1
    BY <1>1
  <2> QED
    BY <2>1 DEF Good, Ordered, InOrder
<1>6. Good(u)
  BY <1>1, <1>2, <1>3, <1>4, <1>5, SizedGood
<1> QED
  BY <1>3, <1>6

LEMMA RemovedGood ==
  ASSUME NEW w, Good(w), NEW index \in Nat, index < w.cb.size, NEW u, u = Removed(w, index)
  PROVE  Good(u) /\ SameSettings(u.cb, w.cb) /\ u.cb.size = w.cb.size - 1
<1> DEFINE n == w.cb.size - 1
           v == [w EXCEPT !.cb.size = @ - 1]
           item == Slot(v, n)
<1>1. Sound(w) /\ n \in Nat /\ n < w.cb.size /\ n <= w.cb.size /\ n <= w.cb.capacity
      /\ w.cb.capacity \in Nat /\ w.cb.size \in Nat /\ (index # n => index < n)
  BY CbFacts DEF Good
<1>2. v = [w EXCEPT !.cb.size = n]
  OBVIOUS
<1>3. u = IF index = v.cb.size THEN v ELSE Sift(Carry(v, v.cb.size), index, Slot(v, v.cb.size))
  BY DEF Removed
<1> HIDE DEF v, n
<1>4. /\ Good(v) /\ SameSettings(v.cb, w.cb) /\ v.cb.size = n
      /\ \A i \in 0 .. w.cb.capacity : Slot(v, i) = Slot(w, i)
  BY <1>1, <1>2, LoweredGood DEF SizeEnds
<1>5. item \in Elements
  <2>1. n \in 0 .. w.cb.size - 1 /\ n \in 0 .. w.cb.capacity
    BY <1>1 DEF n
  <2> QED
    BY <1>1, <1>4, <2>1, SlotFacts
<1>6. CASE index = n
  BY <1>3, <1>4, <1>6 DEF n
<1>7. CASE index # n
  <2>1. index < n /\ Sound(v)
    BY <1>1, <1>4, <1>7 DEF Good
  <2>2. v.cb.buffer # Null
    BY <1>4, <2>1, CbFacts DEF Sound
  <2>3. u = Sift(v, index, item)
    BY <1>3, <1>4, <1>7, <2>1, <2>2, CarryFacts
  <2>4. GoodBut(v, index)
    BY <1>4, <2>1, GoodButFacts
  <2> HIDE DEF item
  <2>5. Good(u) /\ u.cb = v.cb
    BY <1>4, <1>5, <2>1, <2>3, <2>4, SiftGood
  <2> QED
    BY <1>4, <2>5 DEF n
<1> QED
  BY <1>6, <1>7

LEMMA RootRemovedGood ==
  ASSUME NEW w, Good(w), w.cb.size > 0, NEW u, u = RootRemoved(w)
  PROVE  Good(u) /\ SameSettings(u.cb, w.cb) /\ u.cb.size = w.cb.size - 1
<1>1. RootRemoved(w) = Removed(w, 0)
  BY DEF RootRemoved, Removed, Sift
<1>2. 0 \in Nat /\ 0 < w.cb.size
  BY CbFacts DEF Good
<1> QED
  BY <1>1, <1>2, RemovedGood
(* The new element rises from the first free slot, and then counts. *)
LEMMA PushedGood ==
  ASSUME NEW w, Good(w), w.cb.size < w.cb.capacity, NEW item \in Elements,
         NEW u, u = [SiftUp(w, w.cb.size, item) EXCEPT !.cb.size = @ + 1]
  PROVE  Good(u)
<1> DEFINE index == w.cb.size
           n == w.cb.size + 1
           v == SiftUp(w, index, item)
<1>1. /\ Sound(w) /\ index \in Nat /\ w.cb.capacity \in Nat /\ n \in Nat /\ n <= w.cb.capacity
      /\ index < n /\ index <= w.cb.size /\ w.cb.buffer # Null
  BY CbFacts DEF Good, Sound
<1>2. PICK S, e : RiseEnds(w, index, item, S, e, v)
  BY <1>1, SiftUpFacts
<1>3. Sound(v) /\ v.cb = w.cb
  BY <1>2 DEF RiseEnds
<1>4. u = [v EXCEPT !.cb.size = n]
  BY <1>3
<1>5. /\ \A i \in 0 .. n - 1 : i # index => i \in 0 .. w.cb.size - 1
      /\ \A i \in 0 .. w.cb.size - 1 : Slot(w, i) \in Elements
  BY <1>1, SlotFacts
<1> HIDE DEF v, n
<1>6. \A i \in 0 .. n - 1 : i # index => Slot(w, i) \in Elements
  BY <1>5
<1>7. Exact(v, n)
  <2>1. ExactBut(w, n, index)
    BY <1>5 DEF Good, Exact, ExactBut
  <2> QED
    BY <1>1, <1>2, <2>1, RiseExact
<1>8. ASSUME NaN \notin Keys PROVE InOrder(v, 0, n)
  <2>1. \A i \in 1 .. n - 1 : Parent(i) # index /\ (i # index => i \in 1 .. w.cb.size - 1)
    <3> SUFFICES ASSUME NEW i \in 1 .. n - 1 PROVE Parent(i) # index /\ (i # index => i \in 1 .. w.cb.size - 1)
      OBVIOUS
    <3>1. i \in Nat /\ i > 0 /\ i <= index
      BY <1>1 DEF n
    <3> QED
      BY <1>1, <3>1, ParentFacts
  <2>2. OrderedBut(w, 0, n, index)
    BY <1>8, <2>1 DEF Good, Ordered, InOrder, OrderedBut
  <2> QED
    BY <1>1, <1>2, <1>6, <1>8, <2>1, <2>2, RiseOrder
<1>9. \A i \in 0 .. n - 1 : Slot(v, i) \in Elements
  <2> SUFFICES ASSUME NEW i \in 0 .. n - 1 PROVE Slot(v, i) \in Elements
    OBVIOUS
  <2>1. i \in Nat /\ i \in 0 .. w.cb.capacity
    BY <1>1
  <2>2. CASE i # index
    <3>1. i \in 0 .. v.cb.size - 1
      BY <1>3, <1>5, <2>2
    <3> QED
      BY <1>3, <3>1, SlotFacts
  <2>3. CASE i = index
    <3> DEFINE x == IF i = e THEN item ELSE Slot(w, Parent(i))
    <3>1. i \in S /\ (i # e => i > 0)
      BY <1>2, <2>3 DEF RiseEnds, Rise
    <3>2. i # e => Parent(i) \in 0 .. w.cb.size - 1
      BY <1>1, <2>1, <2>3, <3>1, ParentFacts
    <3>3. Slot(v, i) = Notified(w, x, i) /\ x \in Elements
      BY <1>2, <1>5, <2>1, <3>1, <3>2 DEF RiseEnds
    <3> HIDE DEF x
    <3> QED
      BY <2>1, <3>3, NotifiedFacts
  <2> QED
    BY <2>2, <2>3
<1>10. SizeEnds(v, n, u)
  BY <1>1, <1>3, <1>4, <1>9, SizeFacts
<1>11. Ordered(v, n) /\ n <= v.cb.capacity
  BY <1>1, <1>3, <1>8 DEF Ordered
<1> QED
  BY <1>1, <1>3, <1>7, <1>10, <1>11, SizedGood
(* The caller changed the key of an element. *)
LEMMA EditedFacts ==
  ASSUME NEW w, Good(w), NEW index \in Nat, index < w.cb.size, NEW key \in Keys,
         NEW u, u = Edited(w, index, key)
  PROVE  GoodBut(u, index) /\ u.cb = w.cb
<1> DEFINE V == Elements \cup {Garbage}
           old == w.blocks[w.cb.buffer].slots
           x == [old[index + 1] EXCEPT !.key = key]
           slots == [old EXCEPT ![index + 1] = x]
           n == w.cb.size
<1>1. /\ Sound(w) /\ n \in Nat /\ n <= w.cb.capacity /\ w.cb.capacity \in Nat /\ w.cb.buffer # Null
      /\ GoodBut(w, index)
  BY CbFacts, GoodButFacts DEF Good, Sound
<1>2. old \in Seq(V) /\ Len(old) = w.cb.capacity + 1 /\ DOMAIN old = 1 .. w.cb.capacity + 1
  BY <1>1, OwnBlock
<1>3. index + 1 \in 1 .. n /\ \A i \in 1 .. n : old[i] \in Elements
  BY <1>1 DEF Sound, Fits
<1>4. x \in Elements
  BY <1>3 DEF Elements
<1>5. u = [w EXCEPT !.blocks[w.cb.buffer].slots = slots]
  BY DEF Edited
<1> HIDE DEF x
<1>6. /\ slots \in Seq(V) /\ Len(slots) = w.cb.capacity + 1
      /\ \A i \in 1 .. w.cb.capacity + 1 : slots[i] = IF i = index + 1 THEN x ELSE old[i]
  <2> DEFINE m == w.cb.capacity + 1
  <2> HIDE DEF old
  <2>0. \A i \in 1 .. Len(old) : old[i] \in V
    BY <1>2
  <2>1. m \in Nat /\ old \in [1 .. m -> V] /\ x \in V
    <3> HIDE DEF V
    <3>1. m \in Nat /\ x \in V
      BY <1>1, <1>4 DEF V
    <3>2. old \in [1 .. Len(old) -> V] /\ Len(old) = m
      BY <1>2, <2>0
    <3> QED
      BY <3>1, <3>2
  <2> HIDE DEF m, V
  <2>2. slots \in [1 .. m -> V] /\ \A i \in 1 .. m : slots[i] = IF i = index + 1 THEN x ELSE old[i]
    BY <2>1
  <2> HIDE DEF slots
  <2>3. slots \in Seq(V) /\ Len(slots) = m
    BY <2>1, <2>2
  <2> QED
    BY <2>2, <2>3 DEF m
<1> HIDE DEF slots
<1>7. \A i \in 1 .. n : slots[i] \in Elements
  <2>1. \A i \in 1 .. n : i \in 1 .. w.cb.capacity + 1
    BY <1>1
  <2> QED
    BY <1>3, <1>4, <1>6, <2>1
<1>8. FilledEnds(w, slots, u)
  BY <1>1, <1>5, <1>6, <1>7, FilledFacts
<1>9. \A i \in 0 .. n - 1 : i # index => Slot(u, i) = Slot(w, i)
  <2> SUFFICES ASSUME NEW i \in 0 .. n - 1, i # index PROVE Slot(u, i) = Slot(w, i)
    OBVIOUS
  <2>1. i + 1 \in 1 .. w.cb.capacity + 1 /\ i \in 0 .. w.cb.capacity /\ i + 1 # index + 1
    BY <1>1
  <2>2. Slot(u, i) = slots[i + 1] /\ slots[i + 1] = old[i + 1]
    BY <1>6, <1>8, <2>1 DEF FilledEnds
  <2> QED
    BY <2>2 DEF Slot
<1>10. Sound(u) /\ u.cb = w.cb
  BY <1>8 DEF FilledEnds
<1> HIDE DEF n
<1>11. ExactBut(u, n, index)
  BY <1>1, <1>9, <1>10 DEF GoodBut, ExactBut, n
<1>12. ASSUME NaN \notin Keys PROVE OrderedBut(u, 0, n, index)
  <2> SUFFICES ASSUME NEW i \in 1 .. n - 1
               PROVE  /\ i # index /\ Parent(i) # index /\ Parent(i) >= 0 =>
                           ~Before(u.cb.order, KeyAt(u, i), KeyAt(u, Parent(i)))
                      /\ Parent(i) = index /\ index > 0 /\ Parent(index) >= 0 =>
                           ~Before(u.cb.order, KeyAt(u, i), KeyAt(u, Parent(index)))
    BY DEF OrderedBut
  <2>1. i \in 0 .. n - 1 /\ Parent(i) \in 0 .. n - 1 /\ Parent(i) < i
    BY <1>1, ParentFacts
  <2>2. index > 0 => Parent(index) \in 0 .. n - 1 /\ Parent(index) < index
    BY <1>1, <1>3, ParentFacts
  <2>3. \A j \in 0 .. n - 1 : j # index => KeyAt(u, j) = KeyAt(w, j)
    BY <1>9 DEF KeyAt
  <2>4. OrderedBut(w, 0, n, index)
    BY <1>1, <1>12 DEF GoodBut, n
  <2>5. ASSUME i # index, Parent(i) # index, Parent(i) >= 0
        PROVE  ~Before(u.cb.order, KeyAt(u, i), KeyAt(u, Parent(i)))
    BY <1>10, <2>1, <2>3, <2>4, <2>5 DEF OrderedBut
  <2>6. ASSUME Parent(i) = index, index > 0, Parent(index) >= 0
        PROVE  ~Before(u.cb.order, KeyAt(u, i), KeyAt(u, Parent(index)))
    <3>1. i # index /\ Parent(index) # index
      BY <2>1, <2>2, <2>6
    <3>2. ~Before(w.cb.order, KeyAt(w, i), KeyAt(w, Parent(index)))
      BY <2>4, <2>6 DEF OrderedBut
    <3> QED
      BY <1>10, <2>1, <2>2, <2>3, <2>6, <3>1, <3>2
  <2> QED
    BY <2>5, <2>6
<1> QED
  BY <1>10, <1>11, <1>12 DEF GoodBut, n

LEMMA ElemFacts ==
  ASSUME NEW key \in Keys
  PROVE  Elem(key) \in Elements
  BY DEF Elem, Elements

(* A run of elements is copied in and counts. *)
CopyInEnds(w, index, batch, u) ==
  /\ Sound(u) /\ SameSettings(u.cb, w.cb) /\ u.cb.size = index + Len(batch)
  /\ u.cb.capacity = w.cb.capacity /\ u.cb.buffer = w.cb.buffer
  /\ \A i \in 0 .. index - 1 : Slot(u, i) = Slot(w, i)

LEMMA CopyInFacts ==
  ASSUME NEW w, Sound(w), NEW index \in Nat, index <= w.cb.size, NEW batch \in Seq(Keys),
         Len(batch) > 0, index + Len(batch) <= w.cb.capacity,
         NEW u, u = CopyIn(w, index, batch)
  PROVE  CopyInEnds(w, index, batch, u)
<1> DEFINE V == Elements \cup {Garbage}
           old == w.blocks[w.cb.buffer].slots
           cap == w.cb.capacity
           slots == [i \in DOMAIN old |-> IF i - index \in DOMAIN batch THEN Elem(batch[i - index]) ELSE old[i]]
           n == index + Len(batch)
           v == [w EXCEPT !.blocks[w.cb.buffer].slots = slots]
<1>1. /\ w.cb.size \in Nat /\ w.cb.size <= cap /\ cap \in Nat /\ w.cb.buffer # Null
      /\ Len(batch) \in Nat /\ n \in Nat /\ n <= cap /\ DOMAIN batch = 1 .. Len(batch)
  BY CbFacts DEF Sound
<1>2. old \in Seq(V) /\ Len(old) = cap + 1 /\ DOMAIN old = 1 .. cap + 1
  BY <1>1, OwnBlock
<1>3. \A i \in 1 .. w.cb.size : old[i] \in Elements
  BY <1>1 DEF Sound, Fits
<1>4. u = [v EXCEPT !.cb.size = n]
  BY DEF CopyIn
<1>5. \A i \in 1 .. cap + 1 :
        slots[i] = IF i - index \in 1 .. Len(batch) THEN Elem(batch[i - index]) ELSE old[i]
  BY <1>1, <1>2
<1>6. \A j \in 1 .. Len(batch) : Elem(batch[j]) \in Elements
  BY ElemFacts
<1> HIDE DEF old, cap
<1>7. slots \in Seq(V) /\ Len(slots) = cap + 1
  <2>1. slots \in [1 .. cap + 1 -> V]
    BY <1>1, <1>2, <1>6
  <2> HIDE DEF slots
  <2> QED
    BY <1>1, <2>1
<1> HIDE DEF slots
<1>8. \A i \in 1 .. cap + 1 : i <= n => slots[i] \in Elements
  <2> SUFFICES ASSUME NEW i \in 1 .. cap + 1, i <= n PROVE slots[i] \in Elements
    OBVIOUS
  <2>1. CASE i - index \in 1 .. Len(batch)
    BY <1>5, <1>6, <2>1
  <2>2. CASE i - index \notin 1 .. Len(batch)
    <3>1. i \in 1 .. w.cb.size
      BY <1>1, <2>2
    <3> QED
      BY <1>3, <1>5, <2>2, <3>1
  <2> QED
    BY <2>1, <2>2
<1>9. \A i \in 1 .. w.cb.size : slots[i] \in Elements
  <2> SUFFICES ASSUME NEW i \in 1 .. w.cb.size PROVE slots[i] \in Elements
    OBVIOUS
  <2>1. i \in 1 .. cap + 1
    BY <1>1
  <2> QED
    BY <1>3, <1>5, <1>6, <2>1
<1> HIDE DEF v
<1>10. FilledEnds(w, slots, v)
  BY <1>1, <1>7, <1>9, FilledFacts DEF v, cap
<1>11. Sound(v) /\ v.cb = w.cb /\ \A i \in 0 .. cap : Slot(v, i) = slots[i + 1]
  BY <1>10 DEF FilledEnds, cap
<1>12. \A i \in 0 .. n - 1 : Slot(v, i) \in Elements
  <2> SUFFICES ASSUME NEW i \in 0 .. n - 1 PROVE Slot(v, i) \in Elements
    OBVIOUS
  <2>1. i \in 0 .. cap /\ i + 1 \in 1 .. cap + 1 /\ i + 1 <= n
    BY <1>1
  <2> QED
    BY <1>8, <1>11, <2>1
<1> HIDE DEF n
<1>13. SizeEnds(v, n, u)
  BY <1>1, <1>4, <1>11, <1>12, SizeFacts DEF cap
<1>14. \A i \in 0 .. index - 1 : Slot(u, i) = Slot(w, i)
  <2> SUFFICES ASSUME NEW i \in 0 .. index - 1 PROVE Slot(u, i) = Slot(w, i)
    OBVIOUS
  <2>1. i \in 0 .. cap /\ i + 1 \in 1 .. cap + 1 /\ (i + 1) - index \notin 1 .. Len(batch)
    BY <1>1
  <2>2. Slot(u, i) = Slot(v, i) /\ Slot(v, i) = slots[i + 1]
    BY <1>11, <1>13, <2>1 DEF SizeEnds, cap
  <2>3. slots[i + 1] = old[i + 1]
    BY <1>5, <2>1
  <2> QED
    BY <2>2, <2>3 DEF Slot, old
<1> QED
  BY <1>11, <1>13, <1>14 DEF SizeEnds, CopyInEnds, n
(***************************************************************************)
(* Loops: what the first k rounds make of a state, in the sets A[k].        *)
(***************************************************************************)
Rounds(n, A, a, step) ==
  n \in Nat /\ a \in A[0] /\ \A k \in 1 .. n : step[k] \in [A[k - 1] -> A[k]]

RunsTo(f, n, A, a, step) ==
  /\ f = [k \in 0 .. n |-> IF k = 0 THEN a ELSE step[k][f[k - 1]]]
  /\ \A k \in 0 .. n : f[k] \in A[k]

LEMMA ChainExists ==
  ASSUME NEW n, NEW A, NEW a, NEW step, Rounds(n, A, a, step)
  PROVE  \E f : RunsTo(f, n, A, a, step)
<1>0. n \in Nat /\ a \in A[0] /\ \A k \in 1 .. n : step[k] \in [A[k - 1] -> A[k]]
  BY DEF Rounds
<1> DEFINE Runs(f, m) == /\ f = [k \in 0 .. m |-> IF k = 0 THEN a ELSE step[k][f[k - 1]]]
                         /\ \A k \in 0 .. m : f[k] \in A[k]
           B == {m \in Nat : m <= n => \E f : Runs(f, m)}
<1>1. 0 \in B
  <2> DEFINE f == [k \in 0 .. 0 |-> a]
  <2>1. \A k \in 0 .. 0 : k = 0
    OBVIOUS
  <2>2. f = [k \in 0 .. 0 |-> IF k = 0 THEN a ELSE step[k][f[k - 1]]] /\ \A k \in 0 .. 0 : f[k] \in A[k]
    BY <1>0, <2>1
  <2>3. Runs(f, 0)
    BY <2>2
  <2> QED
    BY <2>3
<1>2. ASSUME NEW m \in B PROVE m + 1 \in B
  <2> SUFFICES ASSUME m + 1 <= n PROVE \E g : Runs(g, m + 1)
    OBVIOUS
  <2>1. PICK f : Runs(f, m)
    BY <1>0, <1>2
  <2> DEFINE x == step[m + 1][f[m]]
             g == [k \in 0 .. m + 1 |-> IF k = m + 1 THEN x ELSE f[k]]
  <2>2. m + 1 \in 1 .. n /\ (m + 1) - 1 = m /\ f[m] \in A[m]
    BY <1>0, <2>1
  <2>3. x \in A[m + 1]
    BY <1>0, <2>2
  <2>4. \A k \in 0 .. m : g[k] = f[k]
    OBVIOUS
  <2>5. g[m + 1] = x
    OBVIOUS
  <2>6. \A k \in 0 .. m + 1 : k = m + 1 \/ (k \in 0 .. m /\ (k # 0 => k - 1 \in 0 .. m))
    OBVIOUS
  <2> HIDE DEF g
  <2>7. ASSUME NEW k \in 0 .. m + 1 PROVE g[k] = IF k = 0 THEN a ELSE step[k][g[k - 1]]
    <3>1. CASE k = m + 1
      BY <2>2, <2>4, <2>5, <3>1
    <3>2. CASE k \in 0 .. m /\ (k # 0 => k - 1 \in 0 .. m)
      <4>1. f[k] = IF k = 0 THEN a ELSE step[k][f[k - 1]]
        BY <2>1, <3>2
      <4> QED
        BY <2>4, <3>2, <4>1
    <3> QED
      BY <2>6, <3>1, <3>2
  <2>8. \A k \in 0 .. m + 1 : g[k] \in A[k]
    <3> SUFFICES ASSUME NEW k \in 0 .. m + 1 PROVE g[k] \in A[k]
      OBVIOUS
    <3>1. CASE k = m + 1
      BY <2>3, <2>5, <3>1
    <3>2. CASE k \in 0 .. m
      BY <2>1, <2>4, <3>2
    <3> QED
      BY <2>6, <3>1, <3>2
  <2>9. g = [k \in 0 .. m + 1 |-> g[k]]
    BY DEF g
  <2>10. g = [k \in 0 .. m + 1 |-> IF k = 0 THEN a ELSE step[k][g[k - 1]]]
    BY <2>7, <2>9
  <2>11. Runs(g, m + 1)
    BY <2>8, <2>10
  <2> QED
    BY <2>11
<1>3. n \in B
  <2> HIDE DEF B
  <2>1. B \subseteq Nat
    BY DEF B
  <2> QED
    BY <1>0, <1>1, <1>2, <2>1, Induction
<1> QED
  BY <1>0, <1>3 DEF RunsTo

LEMMA Chain ==
  ASSUME NEW n \in Nat, NEW A, NEW f, f[0] \in A[0],
         \A k \in 1 .. n : f[k - 1] \in A[k - 1] => f[k] \in A[k]
  PROVE  \A k \in 0 .. n : f[k] \in A[k]
<1> DEFINE B == {k \in Nat : k <= n => f[k] \in A[k]}
<1>1. 0 \in B
  OBVIOUS
<1>2. ASSUME NEW k \in B PROVE k + 1 \in B
  <2> SUFFICES ASSUME k + 1 <= n PROVE f[k + 1] \in A[k + 1]
    OBVIOUS
  <2>1. k + 1 \in 1 .. n /\ (k + 1) - 1 = k /\ f[k] \in A[k]
    OBVIOUS
  <2> QED
    BY <2>1
<1>3. \A k \in Nat : k \in B
  <2> HIDE DEF B
  <2>1. B \subseteq Nat
    BY DEF B
  <2> QED
    BY <1>1, <1>2, <2>1, Induction
<1> QED
  BY <1>3

(* Floyd's pass: after k sifts the heap is in order from that index on. *)
Passing(w, v, k) ==
  /\ Sound(v) /\ v.cb = w.cb
  /\ NaN \notin Keys => InOrder(v, (w.cb.size \div 2) - k, w.cb.size)

LEMMA SunkPassing ==
  ASSUME NEW w, NEW v, NEW k \in 1 .. w.cb.size \div 2, w.cb.size \in Nat, Passing(w, v, k - 1)
  PROVE  Passing(w, Sunk(v, (w.cb.size \div 2) - k), k)
<1> DEFINE n == w.cb.size
           half == n \div 2
           index == half - k
           item == Slot(v, index)
           u == Sunk(v, index)
<1>1. half \in Nat /\ k \in Nat /\ k <= half /\ k >= 1 /\ 2 * half <= n
  OBVIOUS
<1>2. index \in Nat /\ index < n /\ half - (k - 1) = index + 1
  BY <1>1
<1>3. Sound(v) /\ v.cb = w.cb /\ v.cb.size = n /\ (NaN \notin Keys => InOrder(v, index + 1, n))
  BY <1>2 DEF Passing
<1> HIDE DEF index, half, n
<1>4. index \in 0 .. v.cb.size - 1 /\ v.cb.buffer # Null
  <2>1. v.cb.size > 0 /\ index \in 0 .. v.cb.size - 1
    BY <1>2, <1>3 DEF n
  <2> QED
    BY <1>3, <2>1, CbFacts DEF Sound
<1>5. item \in Elements
  BY <1>3, <1>4, SlotFacts
<1>6. u = SiftDown(v, index, item)
  BY <1>3, <1>4, CarryFacts DEF Sunk
<1> HIDE DEF item, u
<1>7. PICK S, e : SinkEnds(v, index, item, S, e, u)
  BY <1>2, <1>3, <1>5, <1>6, SiftDownFacts
<1>8. ASSUME NaN \notin Keys PROVE InOrder(u, index, n)
  <2>1. index > 0 => ~(Parent(index) >= index)
    BY <1>2, ParentFacts
  <2>2. OrderedBut(v, index, n, index)
    <3>1. ASSUME NEW i \in 1 .. n - 1, i # index, Parent(i) # index, Parent(i) >= index
          PROVE  ~Before(v.cb.order, KeyAt(v, i), KeyAt(v, Parent(i)))
      <4>1. n \in Nat
        BY DEF n
      <4>2. Parent(i) \in Nat
        BY <4>1, ParentFacts
      <4>3. Parent(i) >= index + 1
        BY <1>2, <3>1, <4>2
      <4> QED
        BY <1>3, <1>8, <4>3 DEF InOrder
    <3> QED
      BY <2>1, <3>1 DEF OrderedBut
  <2>3. index <= index
    BY <1>2
  <2> QED
    BY <1>2, <1>3, <1>5, <1>7, <1>8, <2>1, <2>2, <2>3, SinkOrder
<1> QED
  BY <1>3, <1>7, <1>8 DEF Passing, SinkEnds, index, half, n, u

LEMMA PassFacts ==
  ASSUME NEW w, Sound(w)
  PROVE  Passing(w, Pass(w)[w.cb.size \div 2], w.cb.size \div 2)
<1> DEFINE n == w.cb.size
           half == n \div 2
           A == [k \in 0 .. half |-> {v \in Worlds : Passing(w, v, k)}]
           step == [k \in 1 .. half |-> [v \in A[k - 1] |-> Sunk(v, half - k)]]
           f == Pass(w)
<1>1. n \in Nat /\ half \in Nat /\ n < 2 * half + 2
  BY CbFacts
<1>2. Passing(w, w, 0)
  <2>1. \A i \in 1 .. n - 1 : ~(Parent(i) >= half)
    <3> SUFFICES ASSUME NEW i \in 1 .. n - 1, Parent(i) >= half PROVE FALSE
      OBVIOUS
    <3>1. i \in Nat /\ i > 0 /\ i < n
      BY <1>1
    <3> HIDE DEF half, n
    <3>2. Parent(i) \in Nat /\ i >= 2 * Parent(i) + 1
      <4>1. Parent(i) \in Nat /\ (i = 2 * Parent(i) + 1 \/ i = 2 * Parent(i) + 2)
        BY <3>1, ParentFacts
      <4> QED
        BY <4>1
    <3>3. i >= 2 * half + 1 /\ n <= 2 * half + 1
      BY <1>1, <3>1, <3>2
    <3> QED
      BY <1>1, <3>1, <3>3
  <2>2. half - 0 = half
    BY <1>1
  <2>3. InOrder(w, half, n)
    BY <2>1 DEF InOrder
  <2> QED
    BY <2>2, <2>3 DEF Passing
<1>3. \A v, k : Passing(w, v, k) => v \in Worlds
  BY DEF Passing, Sound
<1>4. ASSUME NEW k \in 1 .. half, NEW v, Passing(w, v, k - 1) PROVE Passing(w, Sunk(v, half - k), k)
  BY <1>1, <1>4, SunkPassing
<1>5. \A k \in 0 .. half : A[k] = {v \in Worlds : Passing(w, v, k)}
  OBVIOUS
<1>6. \A k \in 1 .. half : k - 1 \in 0 .. half /\ k \in 0 .. half
  BY <1>1
<1> HIDE DEF A, half
<1>7. \A k \in 1 .. half : \A v \in A[k - 1] : Sunk(v, half - k) \in A[k]
  BY <1>3, <1>4, <1>5, <1>6
<1>8. w \in A[0]
  BY <1>1, <1>2, <1>3, <1>5
<1>9. \A k \in 1 .. half : step[k] \in [A[k - 1] -> A[k]]
  BY <1>7
<1>10. PICK g : RunsTo(g, half, A, w, step)
  <2> HIDE DEF step
  <2>1. Rounds(half, A, w, step)
    BY <1>1, <1>8, <1>9 DEF Rounds
  <2> QED
    BY <2>1, ChainExists
<1>11. g = [k \in 0 .. half |-> IF k = 0 THEN w ELSE Sunk(g[k - 1], half - k)]
  <2>1. ASSUME NEW k \in 0 .. half, k # 0 PROVE step[k][g[k - 1]] = Sunk(g[k - 1], half - k)
    <3>1. k \in 1 .. half /\ k - 1 \in 0 .. half
      BY <1>1, <2>1
    <3> QED
      BY <1>10, <3>1 DEF RunsTo
  <2> HIDE DEF step
  <2> QED
    BY <1>10, <2>1 DEF RunsTo
<1>12. f = [k \in 0 .. half |-> IF k = 0 THEN w ELSE Sunk(f[k - 1], half - k)]
  BY <1>11 DEF Pass, half
<1> HIDE DEF f
<1>13. f[0] \in A[0]
  BY <1>1, <1>8, <1>12
<1>14. \A k \in 1 .. half : f[k - 1] \in A[k - 1] => f[k] \in A[k]
  BY <1>6, <1>7, <1>12
<1>15. f[half] \in A[half]
  BY <1>1, <1>13, <1>14, Chain
<1> QED
  BY <1>1, <1>5, <1>15 DEF half, f
(* The appended elements rise one by one into the heap before them. *)
Sifting(w, old, v, k) ==
  Sound(v) /\ v.cb = w.cb /\ Exact(v, old + k) /\ Ordered(v, old + k)

LEMMA RisenSifting ==
  ASSUME NEW w, NEW v, NEW old \in Nat, NEW k \in Nat, k >= 1, old + k <= w.cb.size,
         Sifting(w, old, v, k - 1)
  PROVE  Sifting(w, old, Risen(v, old + k - 1), k)
<1> DEFINE index == old + k - 1
           n == old + k
           item == Slot(v, index)
           u == Risen(v, index)
<1>1. Sound(v) /\ v.cb = w.cb /\ v.cb.size \in Nat /\ v.cb.capacity \in Nat /\ v.cb.size <= v.cb.capacity
  BY CbFacts DEF Sifting
<1>2. /\ index \in Nat /\ n \in Nat /\ n = index + 1 /\ index < v.cb.size /\ old + (k - 1) = index
      /\ index <= v.cb.size /\ n <= v.cb.capacity /\ index < n
  BY <1>1
<1>3. Exact(v, index) /\ Ordered(v, index)
  BY <1>2 DEF Sifting
<1> HIDE DEF index, n
<1>4. index \in 0 .. v.cb.size - 1 /\ v.cb.buffer # Null
  BY <1>1, <1>2 DEF Sound
<1>5. item \in Elements
  BY <1>1, <1>4, SlotFacts
<1>6. u = SiftUp(v, index, item)
  BY <1>1, <1>4, CarryFacts DEF Risen
<1> HIDE DEF item, u
<1>7. PICK S, e : RiseEnds(v, index, item, S, e, u)
  BY <1>1, <1>2, <1>4, <1>5, <1>6, SiftUpFacts
<1>8. Exact(u, n)
  <2>1. \A i \in 0 .. n - 1 : i # index => i \in 0 .. index - 1
    BY <1>2
  <2>2. ExactBut(v, n, index)
    BY <1>3, <2>1 DEF Exact, ExactBut
  <2> QED
    BY <1>1, <1>2, <1>5, <1>7, <2>2, RiseExact
<1>9. ASSUME NaN \notin Keys PROVE InOrder(u, 0, n)
  <2>1. \A i \in 1 .. n - 1 : Parent(i) # index /\ (i # index => i \in 1 .. index - 1)
    <3> SUFFICES ASSUME NEW i \in 1 .. n - 1 PROVE Parent(i) # index /\ (i # index => i \in 1 .. index - 1)
      OBVIOUS
    <3>1. i \in Nat /\ i > 0 /\ i <= index
      BY <1>2
    <3> QED
      BY <1>2, <3>1, ParentFacts
  <2>2. OrderedBut(v, 0, n, index)
    BY <1>3, <1>9, <2>1 DEF Ordered, InOrder, OrderedBut
  <2>3. \A i \in 0 .. n - 1 : i \in 0 .. v.cb.size - 1
    BY <1>1, <1>2
  <2>4. \A i \in 0 .. n - 1 : i # index => Slot(v, i) \in Elements
    BY <1>1, <2>3, SlotFacts
  <2> QED
    BY <1>1, <1>2, <1>5, <1>7, <1>9, <2>1, <2>2, <2>4, RiseOrder
<1> QED
  BY <1>1, <1>7, <1>8, <1>9 DEF Sifting, RiseEnds, Ordered, index, n, u

LEMMA SiftedInGood ==
  ASSUME NEW w, Sound(w), NEW old \in Nat, NEW n \in Nat, w.cb.size = old + n,
         Exact(w, old), Ordered(w, old), NEW u, u = SiftedIn(w, old, n)[n]
  PROVE  Good(u)
<1> DEFINE A == [k \in 0 .. n |-> {v \in Worlds : Sifting(w, old, v, k)}]
           step == [k \in 1 .. n |-> [v \in A[k - 1] |-> Risen(v, old + k - 1)]]
           f == SiftedIn(w, old, n)
<1>1. Sifting(w, old, w, 0)
  <2>1. old + 0 = old
    OBVIOUS
  <2> QED
    BY <2>1 DEF Sifting
<1>2. \A v, k : Sifting(w, old, v, k) => v \in Worlds
  BY DEF Sifting, Sound
<1>3. ASSUME NEW k \in 1 .. n, NEW v, Sifting(w, old, v, k - 1) PROVE Sifting(w, old, Risen(v, old + k - 1), k)
  <2>1. k \in Nat /\ k >= 1 /\ old + k <= w.cb.size
    OBVIOUS
  <2> QED
    BY <1>3, <2>1, RisenSifting
<1>4. \A k \in 0 .. n : A[k] = {v \in Worlds : Sifting(w, old, v, k)}
  OBVIOUS
<1>5. \A k \in 1 .. n : k - 1 \in 0 .. n /\ k \in 0 .. n
  OBVIOUS
<1> HIDE DEF A
<1>6. \A k \in 1 .. n : \A v \in A[k - 1] : Risen(v, old + k - 1) \in A[k]
  BY <1>2, <1>3, <1>4, <1>5
<1>7. w \in A[0]
  BY <1>1, <1>2, <1>4
<1>8. \A k \in 1 .. n : step[k] \in [A[k - 1] -> A[k]]
  BY <1>6
<1>9. PICK g : RunsTo(g, n, A, w, step)
  <2> HIDE DEF step
  <2>1. Rounds(n, A, w, step)
    BY <1>7, <1>8 DEF Rounds
  <2> QED
    BY <2>1, ChainExists
<1>10. g = [k \in 0 .. n |-> IF k = 0 THEN w ELSE Risen(g[k - 1], old + k - 1)]
  <2>1. ASSUME NEW k \in 0 .. n, k # 0 PROVE step[k][g[k - 1]] = Risen(g[k - 1], old + k - 1)
    <3>1. k \in 1 .. n /\ k - 1 \in 0 .. n
      BY <2>1
    <3> QED
      BY <1>9, <3>1 DEF RunsTo
  <2> HIDE DEF step
  <2> QED
    BY <1>9, <2>1 DEF RunsTo
<1>11. f = [k \in 0 .. n |-> IF k = 0 THEN w ELSE Risen(f[k - 1], old + k - 1)]
  BY <1>10 DEF SiftedIn
<1> HIDE DEF f
<1>12. f[0] \in A[0]
  BY <1>7, <1>11
<1>13. \A k \in 1 .. n : f[k - 1] \in A[k - 1] => f[k] \in A[k]
  BY <1>5, <1>6, <1>11
<1>14. f[n] \in A[n]
  BY <1>12, <1>13, Chain
<1>15. Sifting(w, old, u, n)
  BY <1>4, <1>14 DEF f
<1> QED
  BY <1>15 DEF Sifting, Good

(* Each pop takes the root. *)
Popping(w, v, k) == Good(v) /\ SameSettings(v.cb, w.cb) /\ v.cb.size = w.cb.size - k

LEMMA PoppedGood ==
  ASSUME NEW w, Good(w), NEW n \in Nat, n <= w.cb.size, NEW u, u = Popped(w, n)[n]
  PROVE  Good(u)
<1> DEFINE A == [k \in 0 .. n |-> {v \in Worlds : Popping(w, v, k)}]
           step == [k \in 1 .. n |-> [v \in A[k - 1] |-> RootRemoved(v)]]
           f == Popped(w, n)
<1>0. w.cb.size \in Nat
  BY CbFacts DEF Good
<1>1. Popping(w, w, 0)
  BY <1>0 DEF Popping, SameSettings
<1>2. \A v, k : Popping(w, v, k) => v \in Worlds
  BY DEF Popping, Good, Sound
<1>3. ASSUME NEW k \in 1 .. n, NEW v, Popping(w, v, k - 1) PROVE Popping(w, RootRemoved(v), k)
  <2>1. Good(v) /\ v.cb.size > 0 /\ v.cb.size - 1 = w.cb.size - k
    BY <1>0, <1>3 DEF Popping
  <2>2. /\ Good(RootRemoved(v)) /\ SameSettings(RootRemoved(v).cb, v.cb)
        /\ RootRemoved(v).cb.size = v.cb.size - 1
    BY <2>1, RootRemovedGood
  <2> QED
    BY <1>3, <2>1, <2>2 DEF Popping, SameSettings
<1>4. \A k \in 0 .. n : A[k] = {v \in Worlds : Popping(w, v, k)}
  OBVIOUS
<1>5. \A k \in 1 .. n : k - 1 \in 0 .. n /\ k \in 0 .. n
  OBVIOUS
<1> HIDE DEF A
<1>6. \A k \in 1 .. n : \A v \in A[k - 1] : RootRemoved(v) \in A[k]
  BY <1>2, <1>3, <1>4, <1>5
<1>7. w \in A[0]
  BY <1>1, <1>2, <1>4
<1>8. \A k \in 1 .. n : step[k] \in [A[k - 1] -> A[k]]
  BY <1>6
<1>9. PICK g : RunsTo(g, n, A, w, step)
  <2> HIDE DEF step
  <2>1. Rounds(n, A, w, step)
    BY <1>7, <1>8 DEF Rounds
  <2> QED
    BY <2>1, ChainExists
<1>10. g = [k \in 0 .. n |-> IF k = 0 THEN w ELSE RootRemoved(g[k - 1])]
  <2>1. ASSUME NEW k \in 0 .. n, k # 0 PROVE step[k][g[k - 1]] = RootRemoved(g[k - 1])
    <3>1. k \in 1 .. n /\ k - 1 \in 0 .. n
      BY <2>1
    <3> QED
      BY <1>9, <3>1 DEF RunsTo
  <2> HIDE DEF step
  <2> QED
    BY <1>9, <2>1 DEF RunsTo
<1>11. f = [k \in 0 .. n |-> IF k = 0 THEN w ELSE RootRemoved(f[k - 1])]
  BY <1>10 DEF Popped
<1> HIDE DEF f
<1>12. f[0] \in A[0]
  BY <1>7, <1>11
<1>13. \A k \in 1 .. n : f[k - 1] \in A[k - 1] => f[k] \in A[k]
  BY <1>5, <1>6, <1>11
<1>14. f[n] \in A[n]
  BY <1>12, <1>13, Chain
<1>15. Popping(w, u, n)
  BY <1>4, <1>14 DEF f
<1> QED
  BY <1>15 DEF Popping

(* One sweep of the hook tells every owner. *)
LEMMA NotifyAllGood ==
  ASSUME NEW w, Sound(w), Ordered(w, w.cb.size), NEW u, u = NotifyAll(w)
  PROVE  Good(u)
<1>1. w.cb.size \in Nat /\ w.cb.capacity \in Nat /\ w.cb.size <= w.cb.capacity
  BY CbFacts
<1>2. CASE w.cb.size = 0
  <2>1. \A i \in 0 .. w.cb.size - 1 : FALSE
    BY <1>2
  <2> QED
    BY <1>2, <2>1 DEF NotifyAll, Good, Exact
<1>3. CASE w.cb.size # 0
  <2> DEFINE n == w.cb.size
             D == 0 .. n - 1
             moved == [i \in D |-> Slot(w, i)]
  <2>1. u = Settle(w, moved) /\ w.cb.buffer # Null /\ D \subseteq 0 .. w.cb.capacity
    BY <1>1, <1>3 DEF NotifyAll, Sound
  <2>2. \A i \in D : Slot(w, i) \in Elements
    BY SlotFacts
  <2>3. moved \in [D -> Elements] /\ \A i \in D : moved[i] = Slot(w, i)
    BY <2>2
  <2> HIDE DEF moved
  <2>4. SettleEnds(w, moved, u)
    BY <2>1, <2>3, SettleFacts
  <2>5. Sound(u) /\ u.cb = w.cb /\ \A i \in D : Slot(u, i) = Notified(w, Slot(w, i), i)
    BY <1>1, <2>3, <2>4 DEF SettleEnds
  <2>6. Exact(u, n)
    <3> SUFFICES ASSUME w.cb.on_move, NEW i \in D PROVE Slot(u, i).at = i
      BY <2>5 DEF Exact
    <3>1. Slot(w, i) \in Elements /\ i \in Nat
      BY <1>1, <2>2
    <3> QED
      BY <2>5, <3>1, NotifiedAt
  <2>7. ASSUME NaN \notin Keys PROVE InOrder(u, 0, n)
    <3> SUFFICES ASSUME NEW i \in 1 .. n - 1, Parent(i) >= 0
                 PROVE  ~Before(u.cb.order, KeyAt(u, i), KeyAt(u, Parent(i)))
      BY DEF InOrder
    <3>1. i \in D /\ Parent(i) \in D
      BY <1>1, ParentFacts
    <3>2. ASSUME NEW j \in D PROVE KeyAt(u, j) = KeyAt(w, j)
      <4>1. Slot(w, j) \in Elements /\ j \in Nat
        BY <1>1, <2>2
      <4> QED
        BY <2>5, <4>1, NotifiedFacts DEF KeyAt
    <3> QED
      BY <2>5, <2>7, <3>1, <3>2 DEF Ordered, InOrder
  <2> QED
    BY <2>5, <2>6, <2>7 DEF Good, Ordered
<1> QED
  BY <1>2, <1>3

(* The heap with the hook set aside, or back. *)
LEMMA HookFacts ==
  ASSUME NEW w, Sound(w), NEW b \in BOOLEAN, NEW u, u = [w EXCEPT !.cb.on_move = b]
  PROVE  /\ Sound(u) /\ u.cb = [w.cb EXCEPT !.on_move = b] /\ u.cb.size = w.cb.size
         /\ \A lo, n : InOrder(w, lo, n) => InOrder(u, lo, n)
<1> DEFINE cb == [w.cb EXCEPT !.on_move = b]
<1>1. w.cb \in ControlBlocks
  BY CbFacts
<1>2. /\ cb \in ControlBlocks /\ cb.size = w.cb.size /\ cb.capacity = w.cb.capacity
      /\ cb.buffer = w.cb.buffer /\ cb.elem_size = w.cb.elem_size /\ cb.align = w.cb.align
      /\ cb.allocator = w.cb.allocator /\ cb.growable = w.cb.growable /\ cb.order = w.cb.order
      /\ cb.initial_capacity = w.cb.initial_capacity
  BY <1>1 DEF ControlBlocks
<1>3. u = [w EXCEPT !.cb = cb]
  OBVIOUS
<1> HIDE DEF cb
<1>4. u \in Worlds /\ u.cb = cb /\ u.blocks = w.blocks /\ u.contract = w.contract
  BY <1>2, <1>3 DEF Sound, Worlds, World
<1>5. w.cb.buffer # Null => Fits(u.cb, u.blocks[u.cb.buffer])
  BY <1>2, <1>4 DEF Sound, Fits
<1>6. Prepared(u.cb)
  BY <1>2, <1>4 DEF Sound, Prepared
<1>7. Sound(u)
  BY <1>2, <1>4, <1>5, <1>6 DEF Sound
<1>8. \A i : Slot(u, i) = Slot(w, i)
  BY <1>2, <1>4 DEF Slot
<1>9. \A lo, n : InOrder(w, lo, n) => InOrder(u, lo, n)
  BY <1>2, <1>4, <1>8 DEF InOrder, KeyAt
<1> QED
  BY <1>2, <1>4, <1>7, <1>9 DEF cb

(* The pass orders whatever the slots hold, and the sweep tells the owners. *)
LEMMA HeapifiedGood ==
  ASSUME NEW w, Sound(w), NEW u, u = Heapified(w)
  PROVE  Good(u)
<1> DEFINE half == w.cb.size \div 2
           v == [w EXCEPT !.cb.on_move = FALSE]
           passed == Pass(v)[half]
           z == [passed EXCEPT !.cb.on_move = w.cb.on_move]
<1>1. w.cb.on_move \in BOOLEAN /\ w.cb.size \in Nat
  BY CbFacts
<1>2. Sound(v) /\ v.cb.size = w.cb.size
  BY HookFacts
<1>3. u = NotifyAll(z)
  BY DEF Heapified
<1> HIDE DEF v
<1>4. Passing(v, passed, half)
  BY <1>2, PassFacts
<1> HIDE DEF passed
<1>5. Sound(passed) /\ passed.cb.size = w.cb.size /\ (NaN \notin Keys => InOrder(passed, 0, w.cb.size))
  <2>1. half - half = 0
    BY <1>1
  <2> QED
    BY <1>2, <1>4, <2>1 DEF Passing
<1>6. /\ Sound(z) /\ z.cb.size = w.cb.size
      /\ InOrder(passed, 0, w.cb.size) => InOrder(z, 0, w.cb.size)
  BY <1>1, <1>5, HookFacts
<1> HIDE DEF z
<1>7. Ordered(z, z.cb.size)
  BY <1>5, <1>6 DEF Ordered
<1> QED
  BY <1>3, <1>6, <1>7, NotifyAllGood
(***************************************************************************)
(* The calls.                                                              *)
(***************************************************************************)
(* The inductive invariant. *)
Inv == Good(W)

(* The state after a call. *)
Now == [cb |-> heap', blocks |-> blocks', contract |-> contract', calls |-> {}]

LEMMA WFacts ==
  W.cb = heap /\ W.blocks = blocks /\ W.contract = contract
  BY DEF W

(* A heap with the contents of a good one. *)
LEMMA LiveGood ==
  ASSUME NEW w, Good(w), NEW u, Sound(u), SameSettings(u.cb, w.cb), u.cb.size = w.cb.size,
         Live(u) = Live(w)
  PROVE  Good(u)
<1> DEFINE n == w.cb.size
<1>1. n \in Nat
  BY CbFacts DEF Good
<1>2. \A i \in 0 .. n - 1 : Slot(u, i) = Slot(w, i)
  <2> SUFFICES ASSUME NEW i \in 0 .. n - 1 PROVE Slot(u, i) = Slot(w, i)
    OBVIOUS
  <2>1. Live(u)[i] = Slot(u, i) /\ Live(w)[i] = Slot(w, i)
    BY DEF Live
  <2> QED
    BY <2>1
<1>3. Exact(u, n) /\ Ordered(u, n)
  BY <1>1, <1>2, SamePrefix DEF Good
<1> QED
  BY <1>3 DEF Good

LEMMA GrownGood ==
  ASSUME NEW w, Good(w), NEW r, GrowEnds(w, r)
  PROVE  Good(r.w) /\ r.w.cb.size = w.cb.size
  BY LiveGood DEF GrowEnds

(* A block with what is past the first n slots forgotten. *)
Forgotten(b, n) == [b EXCEPT !.slots = [i \in DOMAIN @ |-> IF i <= n THEN @[i] ELSE Garbage]]

LEMMA ForgottenBlock ==
  ASSUME NEW V, Garbage \in V, NEW b \in Block(V), NEW n, NEW c, c = Forgotten(b, n)
  PROVE  /\ c \in Block(V) /\ c.bytes = b.bytes /\ c.align = b.align /\ Len(c.slots) = Len(b.slots)
         /\ \A i \in 1 .. Len(b.slots) : i <= n => c.slots[i] = b.slots[i]
<1> DEFINE s == b.slots
           t == [i \in DOMAIN s |-> IF i <= n THEN s[i] ELSE Garbage]
<1>1. s \in Seq(V) /\ Len(s) \in Nat /\ DOMAIN s = 1 .. Len(s)
  BY DEF Block
<1>2. c = [b EXCEPT !.slots = t]
  BY DEF Forgotten
<1> HIDE DEF s
<1>3. t \in [1 .. Len(s) -> V] /\ \A i \in 1 .. Len(s) : i <= n => t[i] = s[i]
  BY <1>1
<1> HIDE DEF t
<1>4. t \in Seq(V) /\ Len(t) = Len(s)
  BY <1>1, <1>3
<1> QED
  BY <1>2, <1>3, <1>4 DEF Block, s

(* A call commits what it ends in, and what is past the size is forgotten. *)
LEMMA CommitGood ==
  ASSUME NEW w, Good(w), NEW op, NEW status, NEW n, NEW out, Commit(op, w, status, n, out)
  PROVE  Good(Now)
<1> DEFINE V == Elements \cup {Garbage}
           size == w.cb.size
           p == w.cb.buffer
           forget(b) == Forgotten(b, size)
<1>1. /\ heap' = w.cb /\ contract' = w.contract
      /\ blocks' = [a \in DOMAIN w.blocks |-> forget(w.blocks[a])]
  BY DEF Commit, Forgotten
<1>2. Sound(w) /\ w \in Worlds /\ w.cb \in ControlBlocks /\ w.blocks \in Memory(V) /\ w.contract
      /\ size \in Nat /\ w.cb.capacity \in Nat /\ size <= w.cb.capacity /\ DOMAIN w.blocks = {p} \ {Null}
  BY CbFacts DEF Good, Sound
<1>3. \A a \in DOMAIN w.blocks : w.blocks[a] \in Block(V)
  BY <1>2, MemoryFacts
<1>4. ASSUME NEW b \in Block(V)
      PROVE  /\ forget(b) \in Block(V) /\ forget(b).bytes = b.bytes /\ forget(b).align = b.align
             /\ Len(forget(b).slots) = Len(b.slots)
             /\ \A i \in 1 .. Len(b.slots) : i <= size => forget(b).slots[i] = b.slots[i]
  <2>1. Garbage \in V
    OBVIOUS
  <2> HIDE DEF V, size
  <2> QED
    BY <1>4, <2>1, ForgottenBlock
<1> HIDE DEF forget
<1>5. blocks' \in [DOMAIN w.blocks -> Block(V)]
  BY <1>1, <1>3, <1>4
<1>6. blocks' \in Memory(V) /\ DOMAIN blocks' = DOMAIN w.blocks
  BY <1>2, <1>5, MemoryFacts, MemoryIntro
<1>7. Now \in Worlds /\ Now.cb = w.cb /\ Now.blocks = blocks' /\ Now.contract
  <2>1. {} \in SUBSET HookNames /\ w.contract \in BOOLEAN
    BY <1>2 DEF Worlds, World
  <2> QED
    BY <1>1, <1>2, <1>6, <2>1 DEF Now, Worlds, World
<1> HIDE DEF Now
<1>8. ASSUME p # Null
      PROVE  /\ Fits(w.cb, blocks'[p])
             /\ \A i \in 1 .. size : blocks'[p].slots[i] = w.blocks[p].slots[i]
  <2> DEFINE b == w.blocks[p]
  <2>1. blocks'[p] = forget(b) /\ b \in Block(V)
    BY <1>1, <1>2, <1>3, <1>8
  <2>2. Fits(w.cb, b) /\ Len(b.slots) = w.cb.capacity + 1
    BY <1>2, <1>8, OwnBlock DEF Sound
  <2> HIDE DEF b
  <2>3. /\ forget(b).bytes = b.bytes /\ forget(b).align = b.align
        /\ Len(forget(b).slots) = Len(b.slots)
        /\ \A i \in 1 .. Len(b.slots) : i <= size => forget(b).slots[i] = b.slots[i]
    BY <1>4, <2>1
  <2>4. \A i \in 1 .. size : forget(b).slots[i] = b.slots[i]
    <3> SUFFICES ASSUME NEW i \in 1 .. size PROVE forget(b).slots[i] = b.slots[i]
      OBVIOUS
    <3>1. i \in 1 .. Len(b.slots) /\ i <= size
      BY <1>2, <2>2
    <3> QED
      BY <2>3, <3>1
  <2>5. Fits(w.cb, forget(b))
    BY <2>2, <2>3, <2>4 DEF Fits
  <2> QED
    BY <2>1, <2>4, <2>5 DEF b
<1>9. Sound(Now)
  BY <1>2, <1>6, <1>7, <1>8 DEF Sound
<1>10. Live(Now) = Live(w)
  <2>1. ASSUME NEW i \in 0 .. size - 1 PROVE Slot(Now, i) = Slot(w, i)
    <3>1. i + 1 \in 1 .. size /\ p # Null
      BY <1>2 DEF Sound
    <3> QED
      BY <1>7, <1>8, <3>1 DEF Slot
  <2> QED
    BY <1>7, <2>1 DEF Live
<1>11. SameSettings(Now.cb, w.cb) /\ Now.cb.size = w.cb.size
  BY <1>7 DEF SameSettings
<1> QED
  BY <1>9, <1>10, <1>11, LiveGood

LEMMA ClearSteps ==
  ASSUME Inv, Clear
  PROVE  Good(Now)
<1> DEFINE w == [W EXCEPT !.cb.size = 0]
<1>1. Good(W) /\ W.cb.size \in Nat
  BY CbFacts DEF Inv, Good
<1>2. Good(w)
  BY <1>1, LoweredGood
<1>3. Commit("clear", w, "OK", 0, <<>>)
  BY DEF Clear
<1> HIDE DEF w
<1> QED
  BY <1>2, <1>3, CommitGood

LEMMA ResetSteps ==
  ASSUME Inv, Reset
  PROVE  Good(Now)
<1> DEFINE w == [W EXCEPT !.cb.size = 0]
           n == heap.initial_capacity
<1>1. Good(W) /\ W.cb = heap /\ W.cb.size \in Nat /\ n \in 0 .. SizeMax
  BY CbFacts, WFacts DEF Inv, Good
<1>2. Good(w) /\ SizeEnds(W, 0, w)
  BY <1>1, LoweredGood
<1>3. PICK r \in SetCapacity(w, n) : Commit("reset", r.w, r.status, 0, <<>>)
  BY DEF Reset
<1> HIDE DEF w
<1>4. w.cb.elem_size # 0 \/ n = w.cb.capacity
  BY <1>1, <1>2 DEF Good, Sound, Prepared, SizeEnds, SameSettings
<1>5. SetCapacityEnds(w, n, r)
  BY <1>1, <1>2, <1>3, <1>4, SetCapacityFacts DEF Good
<1>6. Good(r.w)
  BY <1>2, <1>5, GrownFacts, GrownGood
<1> QED
  BY <1>3, <1>6, CommitGood

LEMMA ReserveSteps ==
  ASSUME Inv, NEW capacity \in 0 .. SizeMax, Reserve(capacity)
  PROVE  Good(Now)
<1>1. PICK r \in Reserved(W, capacity) : Commit("reserve", r.w, r.status, 0, <<>>)
  BY DEF Reserve
<1>2. Good(r.w)
  BY <1>1, ReservedFacts, GrownGood DEF Inv, Good
<1> QED
  BY <1>1, <1>2, CommitGood

LEMMA ShrinkSteps ==
  ASSUME Inv, ShrinkToFit
  PROVE  Good(Now)
<1> DEFINE keeps == ~heap.growable \/ heap.capacity = heap.size
<1>1. PICK r \in IF keeps THEN {Ends(W, "OK")} ELSE SetCapacity(W, heap.size) :
        Commit("shrink", r.w, r.status, 0, <<>>)
  BY DEF ShrinkToFit
<1>2. Sound(W) /\ Good(W) /\ W.cb = heap
  BY WFacts DEF Inv, Good
<1>3. Good(r.w)
  <2>1. CASE keeps
    BY <1>1, <1>2, <2>1 DEF Ends
  <2>2. CASE ~keeps
    <3>1. heap.elem_size # 0 /\ heap.size \in 0 .. SizeMax
      <4>1. heap \in ControlBlocks
        BY <1>2, CbFacts
      <4> QED
        BY <1>2, <2>2, <4>1 DEF Sound, Prepared, ControlBlocks
    <3>2. r \in SetCapacity(W, heap.size)
      BY <1>1, <2>2
    <3>3. SetCapacityEnds(W, heap.size, r)
      BY <1>2, <3>1, <3>2, SetCapacityFacts
    <3> QED
      BY <1>2, <3>3, GrownFacts, GrownGood
  <2> QED
    BY <2>1, <2>2
<1> QED
  BY <1>1, <1>3, CommitGood
LEMMA PushSteps ==
  ASSUME Inv, NEW key \in Keys, Push(key)
  PROVE  Good(Now)
<1>1. Good(W) /\ Sound(W) /\ W.cb = heap /\ heap.size <= heap.capacity /\ heap.size \in Nat /\ heap.capacity \in Nat
  BY WFacts, CbFacts DEF Inv, Good
<1>2. PICK r \in IF NeedsRoom THEN GrowForPush(W) ELSE {Ends(W, "OK")} :
        IF r.status = "OK"
        THEN Commit("push", [SiftUp(r.w, heap.size, Elem(key)) EXCEPT !.cb.size = @ + 1], "OK", 1, <<>>)
        ELSE Commit("push", r.w, r.status, 0, <<>>)
  BY DEF Push
<1>3. /\ Good(r.w) /\ r.w.cb.size = heap.size
      /\ r.status = "OK" => heap.size < r.w.cb.capacity
  <2>1. CASE NeedsRoom
    <3>1. GrowEnds(W, r) /\ (r.status = "OK" => W.cb.size < r.w.cb.capacity)
      BY <1>1, <1>2, <2>1, GrowForPushFacts
    <3> QED
      BY <1>1, <3>1, GrownGood
  <2>2. CASE ~NeedsRoom
    <3>1. r = Ends(W, "OK")
      BY <1>2, <2>2
    <3>2. r.w = W
      BY <3>1 DEF Ends
    <3> QED
      BY <1>1, <2>2, <3>2 DEF NeedsRoom
  <2> QED
    BY <2>1, <2>2
<1>4. CASE r.status = "OK"
  <2> DEFINE item == Elem(key)
             u == [SiftUp(r.w, r.w.cb.size, item) EXCEPT !.cb.size = @ + 1]
  <2>1. item \in Elements
    BY ElemFacts
  <2>2. Commit("push", u, "OK", 1, <<>>)
    BY <1>2, <1>3, <1>4
  <2> HIDE DEF item
  <2>3. Good(u)
    BY <1>3, <1>4, <2>1, PushedGood
  <2> HIDE DEF u
  <2> QED
    BY <2>2, <2>3, CommitGood
<1>5. CASE r.status # "OK"
  BY <1>2, <1>3, <1>5, CommitGood
<1> QED
  BY <1>4, <1>5

LEMMA MinOfTwo ==
  ASSUME NEW a \in Nat, NEW b \in Nat
  PROVE  Min({a, b}) \in Nat /\ Min({a, b}) <= a /\ Min({a, b}) <= b
<1> DEFINE S == {a, b}
           m == IF a <= b THEN a ELSE b
<1>1. m \in S /\ \A j \in S : m <= j
  OBVIOUS
<1>2. \A x \in S : x \in Nat
  OBVIOUS
<1> HIDE DEF S, m
<1>3. Min(S) \in S /\ \A j \in S : Min(S) <= j
  BY <1>1 DEF Min
<1>4. a \in S /\ b \in S
  BY DEF S
<1> QED
  BY <1>2, <1>3, <1>4 DEF S

LEMMA PopSteps ==
  ASSUME Inv
  PROVE  /\ \A wanted : Pop(wanted) => Good(Now)
         /\ Peek => Good(Now)
         /\ \A wanted : \A count \in Nat : PopBulk(count, wanted) => Good(Now)
<1>1. Good(W) /\ Sound(W) /\ W.cb = heap /\ heap.size \in Nat
  BY WFacts, CbFacts DEF Inv, Good
<1>2. ASSUME NEW wanted, Pop(wanted) PROVE Good(Now)
  <2>1. CASE heap.size = 0
    BY <1>1, <1>2, <2>1, CommitGood DEF Pop
  <2>2. CASE heap.size # 0
    <3> DEFINE u == RootRemoved(W)
               out == IF wanted THEN <<Slot(W, 0).key>> ELSE <<>>
    <3>1. Good(u)
      BY <1>1, <2>2, RootRemovedGood
    <3>2. Commit("pop", u, "OK", 1, out)
      BY <1>2, <2>2 DEF Pop
    <3> HIDE DEF u, out
    <3> QED
      BY <3>1, <3>2, CommitGood
  <2> QED
    BY <2>1, <2>2
<1>3. ASSUME Peek PROVE Good(Now)
  <2>1. PICK status, out : Commit("peek", W, status, 0, out)
    BY <1>3 DEF Peek
  <2> QED
    BY <1>1, <2>1, CommitGood
<1>4. ASSUME NEW wanted, NEW count \in Nat, PopBulk(count, wanted) PROVE Good(Now)
  <2> DEFINE n == Min({count, heap.size})
             u == Popped(W, n)[n]
             out == IF wanted THEN [i \in 1 .. n |-> Slot(Popped(W, n)[i - 1], 0).key] ELSE <<>>
  <2>1. n \in Nat /\ n <= heap.size
    BY <1>1, MinOfTwo
  <2>2. Commit("pop_bulk", u, "OK", n, out)
    BY <1>4 DEF PopBulk
  <2> HIDE DEF n
  <2>3. Good(u)
    BY <1>1, <2>1, PoppedGood
  <2> HIDE DEF u, out
  <2> QED
    BY <2>2, <2>3, CommitGood
<1> QED
  BY <1>2, <1>3, <1>4

LEMMA SiftSteps ==
  ASSUME Inv
  PROVE  /\ \A key \in Keys : \A wanted : ReplaceTop(key, wanted) => Good(Now)
         /\ \A index \in Nat : \A wanted : RemoveAt(index, wanted) => Good(Now)
         /\ \A index \in Nat : \A key \in Keys :
              /\ \A indirect : UpdateAt(index, key, indirect) => Good(Now)
              /\ Heapify(index, key) => Good(Now)
<1>1. Good(W) /\ Sound(W) /\ W.cb = heap /\ heap.size \in Nat
  BY WFacts, CbFacts DEF Inv, Good
<1>2. ASSUME NEW key \in Keys, NEW wanted, ReplaceTop(key, wanted) PROVE Good(Now)
  <2>1. CASE heap.size = 0
    BY <1>1, <1>2, <2>1, CommitGood DEF ReplaceTop
  <2>2. CASE heap.size # 0
    <3> DEFINE item == Elem(key)
               u == SiftDown(W, 0, item)
               out == IF wanted THEN <<Slot(W, 0).key>> ELSE <<>>
    <3>1. u = Sift(W, 0, item) /\ item \in Elements /\ 0 \in Nat /\ 0 < W.cb.size
      BY <1>1, <2>2, ElemFacts DEF Sift
    <3>2. Commit("replace_top", u, "OK", 0, out)
      BY <1>2, <2>2 DEF ReplaceTop
    <3> HIDE DEF u, out, item
    <3>3. GoodBut(W, 0)
      BY <1>1, <3>1, GoodButFacts
    <3>4. Good(u)
      BY <3>1, <3>3, SiftGood
    <3> QED
      BY <3>2, <3>4, CommitGood
  <2> QED
    BY <2>1, <2>2
<1>3. ASSUME NEW index \in Nat, NEW wanted, RemoveAt(index, wanted) PROVE Good(Now)
  <2>1. CASE index >= heap.size
    BY <1>1, <1>3, <2>1, CommitGood DEF RemoveAt
  <2>2. CASE index < heap.size
    <3> DEFINE u == Removed(W, index)
               out == IF wanted THEN <<Slot(W, index).key>> ELSE <<>>
    <3>1. Good(u)
      BY <1>1, <2>2, RemovedGood
    <3>2. Commit("remove_at", u, "OK", 1, out)
      BY <1>1, <1>3, <2>2 DEF RemoveAt
    <3> HIDE DEF u, out
    <3> QED
      BY <3>1, <3>2, CommitGood
  <2> QED
    BY <1>1, <2>1, <2>2
<1>4. ASSUME NEW index \in Nat, NEW key \in Keys, NEW indirect, UpdateAt(index, key, indirect) PROVE Good(Now)
  <2>1. CASE index >= heap.size
    BY <1>1, <1>4, <2>1, CommitGood DEF UpdateAt
  <2>2. CASE index < heap.size
    <3> DEFINE w == IF indirect THEN Edited(W, index, key) ELSE W
               item == IF indirect THEN Slot(w, index) ELSE Elem(key)
               u == Sift(w, index, item)
    <3>1. Commit("update_at", u, "OK", 0, <<>>)
      BY <1>1, <1>4, <2>2 DEF UpdateAt
    <3>2. GoodBut(w, index) /\ w.cb = heap
      <4>1. GoodBut(Edited(W, index, key), index) /\ Edited(W, index, key).cb = heap
        BY <1>1, <2>2, EditedFacts
      <4>2. GoodBut(W, index)
        BY <1>1, <2>2, GoodButFacts
      <4> QED
        BY <1>1, <4>1, <4>2
    <3> HIDE DEF w
    <3>3. item \in Elements
      <4>1. index \in 0 .. w.cb.size - 1 /\ Sound(w)
        BY <1>1, <2>2, <3>2 DEF GoodBut
      <4>2. Slot(w, index) \in Elements
        BY <4>1, SlotFacts
      <4> QED
        BY <4>2, ElemFacts
    <3> HIDE DEF item
    <3>4. Good(u)
      BY <2>2, <3>2, <3>3, SiftGood
    <3> HIDE DEF u
    <3> QED
      BY <3>1, <3>4, CommitGood
  <2> QED
    BY <1>1, <2>1, <2>2
<1>5. ASSUME NEW index \in Nat, NEW key \in Keys, Heapify(index, key) PROVE Good(Now)
  <2> DEFINE w == IF index >= heap.size THEN W ELSE Edited(W, index, key)
             u == Heapified(w)
  <2>1. Sound(w)
    <3>1. CASE index >= heap.size
      BY <1>1, <3>1
    <3>2. CASE ~(index >= heap.size)
      <4>1. GoodBut(Edited(W, index, key), index)
        BY <1>1, <3>2, EditedFacts
      <4> QED
        BY <3>2, <4>1 DEF GoodBut
    <3> QED
      BY <3>1, <3>2
  <2>2. Commit("heapify", u, "OK", 0, <<>>)
    BY <1>5 DEF Heapify
  <2> HIDE DEF w
  <2>3. Good(u)
    BY <2>1, HeapifiedGood
  <2> HIDE DEF u
  <2> QED
    BY <2>2, <2>3, CommitGood
<1> QED
  BY <1>2, <1>3, <1>4, <1>5
LEMMA BuildSteps ==
  ASSUME Inv, NEW batch \in Batches, Build(batch)
  PROVE  Good(Now)
<1>1. /\ Good(W) /\ Sound(W) /\ W.cb = heap /\ heap.size \in Nat
      /\ batch \in Seq(Keys) /\ Len(batch) \in 0 .. SizeMax
  BY WFacts, CbFacts, HeapAssumption, MemoryAssumption DEF Inv, Good
<1>2. CASE batch = <<>>
  <2> DEFINE w == [W EXCEPT !.cb.size = 0]
  <2>1. Commit("build", w, "OK", 0, <<>>)
    BY <1>2 DEF Build
  <2>2. Good(w)
    BY <1>1, LoweredGood
  <2> HIDE DEF w
  <2> QED
    BY <2>1, <2>2, CommitGood
<1>3. CASE batch # <<>>
  <2>1. PICK r \in Reserved(W, Len(batch)) :
          IF r.status = "OK" THEN Commit("build", Heapified(CopyIn(r.w, 0, batch)), "OK", 0, <<>>)
          ELSE Commit("build", r.w, r.status, 0, <<>>)
    BY <1>3 DEF Build
  <2>2. Good(r.w) /\ Sound(r.w) /\ (r.status = "OK" => Len(batch) <= r.w.cb.capacity)
    BY <1>1, <2>1, ReservedFacts, GrownGood DEF Good
  <2>3. CASE r.status = "OK"
    <3> DEFINE filled == CopyIn(r.w, 0, batch)
               u == Heapified(filled)
    <3>1. /\ 0 \in Nat /\ 0 <= r.w.cb.size /\ Len(batch) > 0 /\ 0 + Len(batch) <= r.w.cb.capacity
      <4>1. Len(batch) # 0
        BY <1>1, <1>3
      <4>2. 0 <= r.w.cb.size
        BY <2>2, CbFacts
      <4> QED
        BY <1>1, <2>2, <2>3, <4>1, <4>2
    <3>2. CopyInEnds(r.w, 0, batch, filled)
      BY <1>1, <2>2, <3>1, CopyInFacts
    <3>3. Commit("build", u, "OK", 0, <<>>)
      BY <2>1, <2>3
    <3> HIDE DEF filled
    <3>4. Good(u)
      BY <3>2, HeapifiedGood DEF CopyInEnds
    <3> HIDE DEF u
    <3> QED
      BY <3>3, <3>4, CommitGood
  <2>4. CASE r.status # "OK"
    BY <2>1, <2>2, <2>4, CommitGood
  <2> QED
    BY <2>3, <2>4
<1> QED
  BY <1>2, <1>3

LEMMA PushBulkSteps ==
  ASSUME Inv, NEW batch \in Batches, PushBulk(batch)
  PROVE  Good(Now)
<1> DEFINE count == Len(batch)
           size == heap.size
           grows == heap.capacity - size < count /\ heap.growable /\ count <= SizeMax - size
           outcomes == IF count > 0 /\ grows THEN GrowForBulk(W, size + count) ELSE {Ends(W, "OK")}
<1>1. /\ Good(W) /\ Sound(W) /\ W.cb = heap /\ size \in Nat /\ SizeMax \in Nat
      /\ batch \in Seq(Keys) /\ count \in Nat
  BY WFacts, CbFacts, HeapAssumption, MemoryAssumption DEF Inv, Good
<1>2. PICK r \in outcomes :
        LET n == Min({count, r.w.cb.capacity - r.w.cb.size})
            filled == CopyIn(r.w, size, SubSeq(batch, 1, n))
        IN IF n = 0 THEN Commit("push_bulk", r.w, "OK", 0, <<>>)
           ELSE IF n >= size THEN Commit("push_bulk", Heapified(filled), "OK", n, <<>>)
           ELSE Commit("push_bulk", SiftedIn(filled, size, n)[n], "OK", n, <<>>)
  BY DEF PushBulk
<1>3. Good(r.w) /\ r.w.cb.size = size
  <2>1. CASE count > 0 /\ grows
    <3>1. r \in GrowForBulk(W, size + count) /\ heap.growable /\ size + count \in 0 .. SizeMax
      BY <1>1, <1>2, <2>1
    <3>2. GrowEnds(W, r)
      BY <1>1, <3>1, GrowForBulkFacts
    <3> QED
      BY <1>1, <3>2, GrownGood
  <2>2. CASE ~(count > 0 /\ grows)
    BY <1>1, <1>2, <2>2 DEF Ends
  <2> QED
    BY <2>1, <2>2
<1> DEFINE room == r.w.cb.capacity - r.w.cb.size
           n == Min({count, room})
           filled == CopyIn(r.w, size, SubSeq(batch, 1, n))
<1>4. /\ n = 0 => Commit("push_bulk", r.w, "OK", 0, <<>>)
      /\ n # 0 /\ n >= size => Commit("push_bulk", Heapified(filled), "OK", n, <<>>)
      /\ n # 0 /\ ~(n >= size) => Commit("push_bulk", SiftedIn(filled, size, n)[n], "OK", n, <<>>)
  BY <1>2
<1>5. room \in Nat /\ r.w.cb.capacity \in Nat /\ size <= r.w.cb.capacity /\ Sound(r.w)
      /\ size + room = r.w.cb.capacity
  BY <1>1, <1>3, CbFacts DEF Good
<1> HIDE DEF room
<1>6. n \in Nat /\ n <= count /\ n <= room
  BY <1>1, <1>5, MinOfTwo
<1> HIDE DEF n, grows, outcomes
<1>7. CASE n = 0
  BY <1>3, <1>4, <1>7, CommitGood
<1>8. CASE n # 0
  <2> DEFINE part == SubSeq(batch, 1, n)
  <2>1. part \in Seq(Keys) /\ Len(part) = n
    BY <1>1, <1>6
  <2> HIDE DEF part
  <2>2. CopyInEnds(r.w, size, part, filled)
    <3>1. filled = CopyIn(r.w, size, part)
      BY DEF part
    <3>2. Len(part) > 0 /\ size + Len(part) <= r.w.cb.capacity /\ size <= r.w.cb.size
      BY <1>1, <1>3, <1>5, <1>6, <1>8, <2>1
    <3> HIDE DEF filled
    <3> QED
      BY <1>1, <1>5, <2>1, <3>1, <3>2, CopyInFacts
  <2> HIDE DEF filled
  <2>3. CASE n >= size
    <3>1. Good(Heapified(filled))
      BY <2>2, HeapifiedGood DEF CopyInEnds
    <3> QED
      BY <1>4, <1>8, <2>3, <3>1, CommitGood
  <2>4. CASE ~(n >= size)
    <3>1. Exact(filled, size) /\ Ordered(filled, size)
      <4>1. /\ SameSettings(filled.cb, r.w.cb) /\ \A i \in 0 .. size - 1 : Slot(filled, i) = Slot(r.w, i)
            /\ Exact(r.w, size) /\ Ordered(r.w, size)
        BY <1>3, <2>2 DEF CopyInEnds, Good
      <4> HIDE DEF size
      <4> QED
        BY <1>1, <4>1, SamePrefix
    <3>2. Good(SiftedIn(filled, size, n)[n])
      <4>1. Sound(filled) /\ filled.cb.size = size + n
        BY <2>1, <2>2 DEF CopyInEnds
      <4> QED
        BY <1>1, <1>6, <3>1, <4>1, SiftedInGood
    <3> QED
      BY <1>4, <1>8, <2>4, <3>2, CommitGood
  <2> QED
    BY <2>3, <2>4
<1> QED
  BY <1>7, <1>8

(* A control block without a block of memory. *)
LEMMA BareGood ==
  ASSUME NEW w \in Worlds, w.contract, DOMAIN w.blocks = {}, Prepared(w.cb),
         w.cb.buffer = Null, w.cb.size = 0, w.cb.capacity = 0
  PROVE  Good(w)
<1>1. Sound(w)
  BY DEF Sound
<1>2. (\A i \in 0 .. w.cb.size - 1 : FALSE) /\ (\A i \in 1 .. w.cb.size - 1 : FALSE)
  OBVIOUS
<1> QED
  BY <1>1, <1>2 DEF Good, Exact, Ordered, InOrder

LEMMA ZeroedFacts ==
  /\ Zeroed \in ControlBlocks /\ Prepared(Zeroed)
  /\ Zeroed.buffer = Null /\ Zeroed.size = 0 /\ Zeroed.capacity = 0 /\ Zeroed.elem_size = 0
<1>1. Zeroed \in ControlBlocks
  BY MemoryAssumption DEF Zeroed, ControlBlocks, NoHooks, Hooks
<1>2. Prepared(Zeroed)
  BY DEF Zeroed, Prepared
<1> QED
  BY <1>1, <1>2 DEF Zeroed

LEMMA ZeroedWorld ==
  ASSUME NEW w \in Worlds, w.contract, DOMAIN w.blocks = {}, NEW z, z = [w EXCEPT !.cb = Zeroed]
  PROVE  Good(z)
<1>1. z \in Worlds /\ z.cb = Zeroed /\ z.blocks = w.blocks /\ z.contract = w.contract
  BY ZeroedFacts DEF Worlds, World
<1>2. z.contract /\ Prepared(z.cb) /\ z.cb.buffer = Null /\ z.cb.size = 0 /\ z.cb.capacity = 0
  BY <1>1, ZeroedFacts
<1> QED
  BY <1>1, <1>2, BareGood

LEMMA DestroySteps ==
  ASSUME Inv, Destroy
  PROVE  Good(Now)
<1> DEFINE p == heap.buffer
           bytes == (heap.capacity + 1) * heap.elem_size
           f == Free(W, p, bytes)
           w == IF heap.buffer # Null /\ heap.allocator.free
                THEN Free(W, heap.buffer, BytesFor(heap.capacity, heap.elem_size)) ELSE W
           z == [w EXCEPT !.cb = Zeroed]
<1>1. Sound(W) /\ W.cb = heap /\ W \in Worlds /\ W.contract
  BY WFacts DEF Inv, Good, Sound
<1>2. w \in Worlds /\ w.contract /\ DOMAIN w.blocks = {}
  <2>1. CASE heap.buffer = Null
    BY <1>1, <2>1 DEF Sound
  <2>2. CASE heap.buffer # Null
    <3>1. DOMAIN W.blocks = {p} /\ Owns(W, p, bytes) /\ heap.allocator.free /\ heap.capacity # 0
      BY <1>1, <2>2, OwnBlock
    <3>2. w = f
      BY <1>1, <2>2, <3>1 DEF BytesFor
    <3>3. FreeEnds(ControlBlocks, Elements \cup {Garbage}, W, p, bytes, f)
      BY <1>1, FreeFacts DEF Worlds
    <3> HIDE DEF w, f, p, bytes
    <3>4. f \in Worlds /\ f.contract /\ DOMAIN f.blocks = {}
      BY <1>1, <3>1, <3>3 DEF FreeEnds, Without, Worlds
    <3> QED
      BY <3>2, <3>4
  <2> QED
    BY <2>1, <2>2
<1>3. Commit("destroy", z, "OK", 0, <<>>)
  BY DEF Destroy
<1> HIDE DEF w
<1>4. Good(z)
  BY <1>2, ZeroedWorld
<1> HIDE DEF z
<1> QED
  BY <1>3, <1>4, CommitGood

(* What dv_heap_init puts in the control block. *)
LEMMA ConfiguredFacts ==
  ASSUME NEW config \in Configs, NEW allocator \in Allocators, ValidConfig(config),
         allocator.alloc, allocator.free, NEW cb, cb = Configured(config, allocator)
  PROVE  /\ cb \in ControlBlocks /\ Prepared(cb)
         /\ cb.buffer = Null /\ cb.size = 0 /\ cb.capacity = 0 /\ cb.elem_size # 0
<1>1. /\ config.elem_size \in 0 .. SizeMax /\ config.elem_align \in 0 .. SizeMax
      /\ config.initial_capacity \in 0 .. SizeMax /\ config.max_capacity \in 0 .. SizeMax
      /\ config.growable \in BOOLEAN /\ SizeMax \in Nat /\ MallocAlign \in Nat /\ CacheLine \in Nat
      /\ config.order \in {"MIN", "MAX"} /\ config.on_move \in BOOLEAN /\ allocator \in Hooks
  BY HeapAssumption, MemoryAssumption DEF Hooks
<1>2. config.elem_size # 0
  BY DEF ValidConfig
<1>3. Align(config) \in Nat /\ IsPow2(Align(config))
  BY <1>1, HeapAssumption DEF Align, ValidConfig
<1> DEFINE align == Align(config)
           max == IF config.growable THEN config.max_capacity ELSE config.initial_capacity
           made == [buffer |-> Null, size |-> 0, capacity |-> 0, elem_size |-> config.elem_size,
                    order |-> config.order, on_move |-> config.on_move, align |-> align,
                    initial_capacity |-> config.initial_capacity, max_capacity |-> max,
                    allocator |-> allocator, growable |-> config.growable]
<1>4. max \in 0 .. SizeMax
  BY <1>1
<1>5. cb = made
  BY DEF Configured, Zeroed
<1> HIDE DEF align, max
<1>6. made \in ControlBlocks
  BY <1>1, <1>3, <1>4 DEF ControlBlocks, align
<1>7. Prepared(made)
  BY <1>2, <1>3 DEF Prepared, align
<1> QED
  BY <1>2, <1>5, <1>6, <1>7

LEMMA InitSteps ==
  ASSUME Inv, NEW config \in Configs, NEW allocator \in Allocators, HeapInit(config, allocator)
  PROVE  Good(Now)
<1>1. /\ Good(W) /\ Sound(W) /\ W.cb = heap /\ W \in Worlds /\ W.contract /\ heap = Zeroed
      /\ heap.buffer = Null
  BY WFacts, ZeroedFacts DEF Inv, Good, Sound, HeapInit
<1>2. DOMAIN W.blocks = {}
  BY <1>1 DEF Sound
<1>3. CASE ValidConfig(config) /\ allocator.alloc /\ allocator.free
  <2> DEFINE cb == Configured(config, allocator)
             w == [W EXCEPT !.cb = cb]
             n == config.initial_capacity
  <2>1. PICK r \in SetCapacity(w, n) :
          IF r.status = "OK" THEN Commit("init", r.w, "OK", 0, <<>>)
          ELSE Commit("init", [r.w EXCEPT !.cb = Zeroed], r.status, 0, <<>>)
    BY <1>3 DEF HeapInit
  <2>2. /\ cb \in ControlBlocks /\ Prepared(cb)
        /\ cb.buffer = Null /\ cb.size = 0 /\ cb.capacity = 0 /\ cb.elem_size # 0
    BY <1>3, ConfiguredFacts
  <2> HIDE DEF cb
  <2>3. w \in Worlds /\ w.cb = cb /\ w.blocks = W.blocks /\ w.contract = W.contract
    BY <1>1, <2>2 DEF Worlds, World
  <2> HIDE DEF w
  <2>4. Good(w) /\ Sound(w)
    <3>1. Good(w)
      BY <1>1, <1>2, <2>2, <2>3, BareGood
    <3> QED
      BY <3>1 DEF Good
  <2>5. n \in 0 .. SizeMax
    BY HeapAssumption
  <2>6. SetCapacityEnds(w, n, r)
    BY <2>1, <2>2, <2>3, <2>4, <2>5, SetCapacityFacts
  <2>7. CASE r.status = "OK"
    <3>1. Good(r.w)
      BY <2>4, <2>6, GrownFacts, GrownGood
    <3> QED
      BY <2>1, <2>7, <3>1, CommitGood
  <2>8. CASE r.status # "OK"
    <3> DEFINE z == [r.w EXCEPT !.cb = Zeroed]
    <3>1. r.w \in Worlds /\ r.w.contract /\ DOMAIN r.w.blocks = {}
      BY <1>2, <2>3, <2>6, <2>8 DEF SetCapacityEnds, Sound
    <3>2. Commit("init", z, r.status, 0, <<>>)
      BY <2>1, <2>8
    <3>3. Good(z)
      BY <3>1, ZeroedWorld
    <3> HIDE DEF z
    <3> QED
      BY <3>2, <3>3, CommitGood
  <2> QED
    BY <2>7, <2>8
<1>4. CASE ~(ValidConfig(config) /\ allocator.alloc /\ allocator.free)
  <2>1. Commit("init", W, "INVALID", 0, <<>>)
    BY <1>4 DEF HeapInit
  <2> QED
    BY <1>1, <2>1, CommitGood
<1> QED
  BY <1>3, <1>4
LEMMA NextSteps ==
  ASSUME Inv, Next
  PROVE  Good(Now)
<1>1. heap.size \in Nat
  BY WFacts, CbFacts DEF Inv, Good
<1>2. \A index \in 0 .. heap.size + 1 : index \in Nat
  BY <1>1
<1>3. \A index \in 0 .. heap.size : index \in Nat
  BY <1>1
<1> QED
  BY <1>2, <1>3, InitSteps, DestroySteps, ResetSteps, ClearSteps, ShrinkSteps, ReserveSteps, PushSteps,
     PopSteps, SiftSteps, BuildSteps, PushBulkSteps DEF Next

(***************************************************************************)
(* The theorems.                                                           *)
(***************************************************************************)
LEMMA InitInv ==
  ASSUME Init
  PROVE  Inv
<1>1. W.cb = Zeroed /\ W.contract /\ DOMAIN W.blocks = {}
  BY DEF Init, W
<1>2. W \in Worlds
  <2>1. blocks \in Memory(Elements \cup {Garbage})
    <3>1. blocks \in [{} -> Block(Elements \cup {Garbage})]
      BY DEF Init
    <3> QED
      BY <3>1, MemoryIntro
  <2>2. heap \in ControlBlocks /\ contract \in BOOLEAN /\ {} \in SUBSET HookNames
    BY ZeroedFacts DEF Init
  <2> QED
    BY <2>1, <2>2 DEF W, Worlds, World
<1> QED
  BY <1>1, <1>2, ZeroedFacts, BareGood DEF Inv

LEMMA Inductive == Inv /\ [Next]_vars => Inv'
<1>1. ASSUME Good(Now) PROVE Inv'
  BY <1>1 DEF Now, Inv, W
<1>2. ASSUME Inv, Next PROVE Inv'
  BY <1>1, <1>2, NextSteps
<1>3. ASSUME Inv, UNCHANGED vars PROVE Inv'
  BY <1>3 DEF vars, Inv, W
<1> QED
  BY <1>2, <1>3

LEMMA InvHolds == Spec => []Inv
  BY InitInv, Inductive, PTL DEF Spec

(* Whatever is refused, on every path of dv_heap_set_capacity, of init, reset
   and destroy, and around every sift, the heap holds exactly the block its
   buffer points to, with the scratch slot; every free and realloc named the
   block by its size and alignment; and no sift left the block.             *)
THEOREM HeapMemory == Spec => []MemoryAccounted
<1>1. Inv => MemoryAccounted
  <2> SUFFICES ASSUME Inv PROVE MemoryAccounted
    OBVIOUS
  <2>1. Sound(W) /\ W.cb = heap /\ W.blocks = blocks /\ W.contract = contract
    BY WFacts DEF Inv, Good
  <2>2. heap \in ControlBlocks /\ contract \in BOOLEAN /\ heap.size \in Nat
    BY <2>1, CbFacts DEF Sound, Worlds, World
  <2>3. \A i \in DOMAIN Elems : Elems[i] \in Elements
    BY <2>1, SlotFacts DEF Elems
  <2>4. TypeOK
    BY <2>1, <2>2, <2>3 DEF TypeOK, ControlBlocks, Hooks, Elements, Sound
  <2>5. heap.buffer # Null => heap.capacity # 0
    BY <2>1 DEF Sound
  <2> QED
    BY <2>1, <2>4, <2>5 DEF MemoryAccounted, Sound, Fits, BytesFor
<1> QED
  BY <1>1, InvHolds, PTL

(* The index map: through every push, pop, replacement, update, removal,
   build, heapify and bulk call, the index that the hook last gave the owner
   of an element is the index of that element.                              *)
THEOREM HeapIndexMap == Spec => []IndexMapExact
<1>1. Inv => IndexMapExact
  <2> SUFFICES ASSUME Inv, heap.on_move, NEW i \in DOMAIN Elems PROVE Elems[i].at = i
    BY DEF IndexMapExact
  <2>1. Exact(W, heap.size) /\ W.cb = heap
    BY WFacts DEF Inv, Good
  <2>2. i \in 0 .. heap.size - 1 /\ Elems[i] = Slot(W, i)
    BY DEF Elems
  <2> QED
    BY <2>1, <2>2 DEF Exact
<1> QED
  BY <1>1, InvHolds, PTL

(* Heap order: with keys that are all comparable, dv_heap_is_valid accepts
   the heap after every call.  With a NaN among the keys it does not hold.  *)
THEOREM HeapInOrder ==
  ASSUME NaN \notin Keys
  PROVE  Spec => []HeapOrder
<1>1. Inv => HeapOrder
  <2> SUFFICES ASSUME Inv PROVE HeapOrder
    OBVIOUS
  <2>1. Sound(W) /\ InOrder(W, 0, heap.size) /\ W.cb = heap
    BY WFacts DEF Inv, Good, Ordered
  <2>2. heap.size \in Nat /\ heap.size <= heap.capacity /\ heap.capacity \in Nat
    BY <2>1, CbFacts
  <2>3. ASSUME NEW i \in 1 .. heap.size - 1 PROVE ~ElemBefore(W, Elems[i], Elems[Parent(i)])
    <3>1. Parent(i) \in Nat /\ Parent(i) < i /\ i \in Nat
      BY <2>2, ParentFacts
    <3>2. Elems[i] = Slot(W, i) /\ Elems[Parent(i)] = Slot(W, Parent(i)) /\ Parent(i) >= 0
      BY <2>2, <3>1 DEF Elems
    <3> QED
      BY <2>1, <3>2 DEF InOrder, ElemBefore, KeyAt
  <2>4. heap.size > 0 => heap.buffer # Null
    BY <2>1, <2>2 DEF Sound
  <2> QED
    BY <2>2, <2>3, <2>4 DEF HeapOrder, IsValid
<1> QED
  BY <1>1, InvHolds, PTL
=============================================================================

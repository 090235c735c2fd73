--------------------------- MODULE DvStackProofs ---------------------------
(* The stack of DvStack keeps account of its memory, stays below its ceiling
   and implements BoundedLifo, for every value of the constants.            *)
EXTENDS DvStack, HookedMemoryProofs

ControlBlocks ==
  [buffer : Addresses \cup {Null}, top : 0 .. SizeMax, capacity : 0 .. SizeMax,
   elem_size : 0 .. SizeMax, align : Nat, initial_capacity : 0 .. SizeMax,
   max_capacity : 0 .. SizeMax, allocator : Hooks, growable : BOOLEAN, ptr_mode : BOOLEAN]

Worlds == World(ControlBlocks, Values \cup {Garbage})

(* What dv_stack_init settles and nothing changes. *)
Settled(cb) ==
  /\ IF cb.elem_size = 0
     THEN cb.capacity = 0 /\ cb.initial_capacity = 0 /\ cb.max_capacity = 0 /\ ~cb.growable
     ELSE IsPow2(cb.align) /\ cb.allocator.alloc /\ cb.allocator.free
  /\ cb.growable => cb.max_capacity = 0 \/ cb.initial_capacity <= cb.max_capacity
  /\ ~cb.growable => cb.max_capacity = cb.initial_capacity

(* Block b is what the capacity of the control block stands for. *)
Fits(cb, b) ==
  /\ b.bytes = cb.capacity * cb.elem_size
  /\ b.bytes <= SizeMax
  /\ b.align = cb.align
  /\ Len(b.slots) = cb.capacity
  /\ \A i \in 1 .. cb.top : b.slots[i] \in Values

(* The contents of the stack that a call works on. *)
Items(w) == IF w.cb.buffer = Null THEN <<>> ELSE SubSeq(w.blocks[w.cb.buffer].slots, 1, w.cb.top)

(* The inductive invariant, of the state that a call works on. *)
Sound(w) ==
  /\ w \in Worlds
  /\ w.contract
  /\ w.cb.top <= w.cb.capacity
  /\ DOMAIN w.blocks = {w.cb.buffer} \ {Null}
  /\ w.cb.buffer = Null <=> w.cb.capacity = 0
  /\ w.cb.buffer # Null => Fits(w.cb, w.blocks[w.cb.buffer])
  /\ Settled(w.cb)

(***************************************************************************)
(* Resizing.                                                               *)
(***************************************************************************)
LEMMA StackHooks == HasHooks(ControlBlocks)
  BY MemoryAssumption DEF HasHooks, ControlBlocks

LEMMA CbFacts ==
  ASSUME NEW w, Sound(w)
  PROVE  /\ w.cb \in ControlBlocks /\ w.blocks \in Memory(Values \cup {Garbage})
         /\ w.cb.buffer \in Addresses \cup {Null}
         /\ w.cb.top \in Nat /\ w.cb.capacity \in 0 .. SizeMax /\ w.cb.elem_size \in Nat
         /\ w.cb.initial_capacity \in 0 .. SizeMax /\ w.cb.max_capacity \in 0 .. SizeMax
         /\ w.cb.allocator \in Hooks
<1>1. w.cb \in ControlBlocks /\ w.blocks \in Memory(Values \cup {Garbage})
  BY DEF Sound, Worlds, World
<1> QED
  BY <1>1, MemoryAssumption DEF ControlBlocks

(* The block that the stack has, and what the hooks are told of it. *)
LEMMA OwnBlock ==
  ASSUME NEW w, Sound(w), w.cb.buffer # Null
  PROVE  /\ w.cb.buffer \in Addresses /\ DOMAIN w.blocks = {w.cb.buffer}
         /\ Owns(w, w.cb.buffer, w.cb.capacity * w.cb.elem_size)
         /\ w.blocks[w.cb.buffer] \in Block(Values \cup {Garbage})
         /\ w.blocks[w.cb.buffer].slots \in Seq(Values \cup {Garbage})
         /\ Len(w.blocks[w.cb.buffer].slots) = w.cb.capacity
         /\ w.cb.top \in Nat /\ w.cb.capacity \in Nat \ {0} /\ w.cb.top <= w.cb.capacity
         /\ w.cb.elem_size # 0 /\ IsPow2(w.cb.align) /\ w.cb.allocator.alloc /\ w.cb.allocator.free
<1>1. w.cb.buffer \in Addresses /\ DOMAIN w.blocks = {w.cb.buffer}
  BY CbFacts DEF Sound
<1>2. Owns(w, w.cb.buffer, w.cb.capacity * w.cb.elem_size)
  BY <1>1 DEF Sound, Fits, Owns
<1>3. w.blocks[w.cb.buffer] \in Block(Values \cup {Garbage})
  BY <1>1, CbFacts, MemoryFacts
<1>4. w.blocks[w.cb.buffer].slots \in Seq(Values \cup {Garbage})
  BY <1>3 DEF Block
<1>5. /\ Len(w.blocks[w.cb.buffer].slots) = w.cb.capacity
      /\ w.cb.top \in Nat /\ w.cb.capacity \in Nat \ {0} /\ w.cb.top <= w.cb.capacity
  BY CbFacts DEF Sound, Fits
<1>6. w.cb.elem_size # 0 /\ IsPow2(w.cb.align) /\ w.cb.allocator.alloc /\ w.cb.allocator.free
  BY <1>5 DEF Sound, Settled
<1> QED
  BY <1>1, <1>2, <1>3, <1>4, <1>5, <1>6

(* What a call for the block of n elements ends in. *)
BlockEnds(w, n, r) == NewBlockEnds(ControlBlocks, Values \cup {Garbage}, w, w.cb.top, n, r)

LEMMA BlockFacts ==
  ASSUME NEW w, Sound(w), w.cb.elem_size # 0, NEW n \in 1 .. SizeMax, w.cb.top <= n,
         NEW r \in NewBlock(w, w.cb.top, w.cb.capacity * w.cb.elem_size, n * w.cb.elem_size)
  PROVE  BlockEnds(w, n, r)
<1> DEFINE C == ControlBlocks
           V == Values \cup {Garbage}
           old == w.cb.capacity * w.cb.elem_size
<1>1. HasHooks(C) /\ Garbage \in V /\ n \in Nat \ {0}
  BY StackHooks, MemoryAssumption
<1>2. /\ w \in World(C, V) /\ w.contract /\ DOMAIN w.blocks = {w.cb.buffer} \ {Null}
      /\ IsPow2(w.cb.align) /\ w.cb.allocator.alloc /\ w.cb.allocator.free
  BY DEF Sound, Settled, Worlds
<1>3. /\ w.cb.buffer \in Addresses \cup {Null} /\ w.cb.top \in Nat
      /\ w.cb.buffer = Null => w.cb.top = 0
  BY CbFacts DEF Sound
<1>4. w.cb.buffer # Null =>
        Owns(w, w.cb.buffer, old) /\ w.cb.top <= Len(w.blocks[w.cb.buffer].slots)
  BY OwnBlock
<1>5. Ready(C, V, w, w.cb.top, old)
  BY <1>2, <1>3, <1>4 DEF Ready
<1> HIDE DEF C, V, old
<1>6. r \in NewBlock(w, w.cb.top, old, n * w.cb.elem_size)
  BY DEF old
<1>7. NewBlockEnds(C, V, w, w.cb.top, n, r)
  BY <1>1, <1>5, <1>6, NewBlockFacts
<1> QED
  BY <1>7 DEF BlockEnds, C, V

LEMMA BytesFitFacts ==
  ASSUME NEW n \in Nat, NEW size \in Nat
  PROVE  BytesFit(n, size) <=> n * size <= SizeMax
<1>1. CASE n = 0
  BY <1>1, MemoryAssumption DEF BytesFit
<1>2. CASE n # 0
  <2> DEFINE q == SizeMax \div n
             m == SizeMax % n
  <2>1. q \in Nat /\ m \in Nat /\ SizeMax = n * q + m /\ m < n
    BY <1>2, MemoryAssumption
  <2> HIDE DEF q, m
  <2>2. size <= q => n * size <= n * q
    BY <2>1
  <2>3. size > q => n * size >= n * q + n
    <3>1. size > q => size >= q + 1
      BY <2>1
    <3>2. size >= q + 1 => n * size >= n * (q + 1)
      BY <2>1
    <3>3. n * (q + 1) = n * q + n
      BY <2>1
    <3> QED
      BY <3>1, <3>2, <3>3
  <2>4. size <= q <=> n * size <= SizeMax
    <3>1. n * size \in Nat /\ n * q \in Nat
      BY <2>1
    <3> QED
      BY <2>1, <2>2, <2>3, <3>1, MemoryAssumption
  <2> QED
    BY <1>2, <2>4 DEF BytesFit, q
<1> QED
  BY <1>1, <1>2

LEMMA SameSeq ==
  ASSUME NEW S, NEW s \in Seq(S), NEW t \in Seq(S), Len(s) = Len(t),
         \A i \in 1 .. Len(s) : s[i] = t[i]
  PROVE  s = t
  OBVIOUS

LEMMA ConcatFacts ==
  ASSUME NEW S, NEW s \in Seq(S), NEW t \in Seq(S)
  PROVE  /\ s \o t \in Seq(S) /\ Len(s \o t) = Len(s) + Len(t)
         /\ \A i \in 1 .. Len(s) : (s \o t)[i] = s[i]
         /\ \A i \in 1 .. Len(t) : (s \o t)[Len(s) + i] = t[i]
<1>1. s \o t \in Seq(S) /\ Len(s \o t) = Len(s) + Len(t)
  OBVIOUS
<1>2. \A i \in 1 .. Len(s) : (s \o t)[i] = s[i]
  OBVIOUS
<1>3. \A i \in 1 .. Len(t) : (s \o t)[Len(s) + i] = t[i]
  OBVIOUS
<1> QED
  BY <1>1, <1>2, <1>3

LEMMA SuffixFacts ==
  ASSUME NEW S, NEW s \in Seq(S), NEW k \in Nat, NEW n \in Nat, NEW m, m = k + n, m = Len(s)
  PROVE  SubSeq(s, k + 1, m) \in Seq(S) /\ Len(SubSeq(s, k + 1, m)) = n
  OBVIOUS

LEMMA SuffixAt ==
  ASSUME NEW S, NEW s \in Seq(S), NEW k \in Nat, NEW n \in Nat, NEW m, m = k + n, m = Len(s),
         NEW i \in 1 .. n, NEW t, t = SubSeq(s, k + 1, m)
  PROVE  t[i] = s[k + i]
  OBVIOUS

LEMMA ItemsFacts ==
  ASSUME NEW w, Sound(w)
  PROVE  /\ Items(w) \in Seq(Values)
         /\ Len(Items(w)) = w.cb.top
         /\ \A i \in 1 .. w.cb.top : Items(w)[i] = w.blocks[w.cb.buffer].slots[i]
<1>1. CASE w.cb.buffer = Null
  <2>1. w.cb.top = 0 /\ Items(w) = <<>>
    BY <1>1, CbFacts DEF Sound, Items
  <2> QED
    BY <2>1
<1>2. CASE w.cb.buffer # Null
  <2> DEFINE s == w.blocks[w.cb.buffer].slots
             V == Values \cup {Garbage}
  <2>1. s \in Seq(V) /\ w.cb.top \in Nat /\ w.cb.top <= Len(s)
    BY <1>2, OwnBlock
  <2>2. \A i \in 1 .. w.cb.top : s[i] \in Values
    BY <1>2 DEF Sound, Fits
  <2>3. Items(w) = SubSeq(s, 1, w.cb.top)
    BY <1>2 DEF Items
  <2> HIDE DEF s
  <2>4. /\ SubSeq(s, 1, w.cb.top) \in Seq(V)
        /\ Len(SubSeq(s, 1, w.cb.top)) = w.cb.top
        /\ \A i \in 1 .. w.cb.top : SubSeq(s, 1, w.cb.top)[i] = s[i]
    BY <2>1
  <2>5. SubSeq(s, 1, w.cb.top) \in Seq(Values)
    BY <2>1, <2>2, <2>4
  <2> QED
    BY <2>3, <2>4, <2>5 DEF s
<1> QED
  BY <1>1, <1>2

(* The settings of a control block are those of another. *)
SameSettings(a, b) ==
  /\ a.elem_size = b.elem_size /\ a.align = b.align /\ a.allocator = b.allocator
  /\ a.initial_capacity = b.initial_capacity /\ a.max_capacity = b.max_capacity
  /\ a.growable = b.growable /\ a.ptr_mode = b.ptr_mode

(* What a resize to n elements ends in. *)
SetCapacityEnds(w, n, r) ==
  /\ Sound(r.w) /\ w.calls \subseteq r.w.calls
  /\ SameSettings(r.w.cb, w.cb) /\ r.w.cb.top = w.cb.top
  /\ Items(r.w) = Items(w)
  /\ r.status \in {"OK", "INVALID", "OVERFLOW", "NOMEM"}
  /\ r.status = "OK" => r.w.cb.capacity = n
  /\ r.status # "OK" => r.w.cb = w.cb /\ r.w.blocks = w.blocks
  /\ r.status = "INVALID" => n < w.cb.top
  /\ r.status = "OVERFLOW" => ~BytesFit(n, w.cb.elem_size)
  /\ r.status = "NOMEM" => "refused" \in r.w.calls

LEMMA UnchangedSound ==
  ASSUME NEW w, Sound(w), NEW u \in Worlds, u.cb = w.cb, u.blocks = w.blocks, u.contract
  PROVE  Sound(u) /\ Items(u) = Items(w)
  BY DEF Sound, Items

(* A stack with a new block or without a block has its contents. *)
LEMMA ResizedSound ==
  ASSUME NEW w, Sound(w), w.cb.elem_size # 0, NEW u \in Worlds, u.contract,
         NEW n \in 0 .. SizeMax, w.cb.top <= n, n * w.cb.elem_size <= SizeMax,
         SameSettings(u.cb, w.cb), u.cb.top = w.cb.top, u.cb.capacity = n,
         DOMAIN u.blocks = {u.cb.buffer} \ {Null},
         u.cb.buffer = Null <=> n = 0,
         u.cb.buffer # Null =>
           /\ u.blocks[u.cb.buffer].bytes = n * w.cb.elem_size
           /\ u.blocks[u.cb.buffer].align = w.cb.align
           /\ Len(u.blocks[u.cb.buffer].slots) = n
           /\ \A i \in 1 .. w.cb.top : u.blocks[u.cb.buffer].slots[i] = w.blocks[w.cb.buffer].slots[i]
  PROVE  Sound(u) /\ Items(u) = Items(w)
<1>1. Settled(u.cb)
  BY DEF Sound, Settled, SameSettings
<1>2. ASSUME u.cb.buffer # Null PROVE Fits(u.cb, u.blocks[u.cb.buffer])
  <2>1. \A i \in 1 .. w.cb.top : u.blocks[u.cb.buffer].slots[i] \in Values
    <3>1. CASE w.cb.buffer = Null
      BY <3>1, CbFacts DEF Sound
    <3>2. CASE w.cb.buffer # Null
      BY <1>2, <3>2 DEF Sound, Fits
    <3> QED
      BY <3>1, <3>2
  <2> QED
    BY <1>2, <2>1 DEF Fits, SameSettings
<1>3. u.cb.top <= u.cb.capacity
  OBVIOUS
<1>4. Sound(u)
  BY <1>1, <1>2, <1>3 DEF Sound
<1>5. \A i \in 1 .. w.cb.top : Items(u)[i] = Items(w)[i]
  <2>1. CASE w.cb.top = 0
    BY <2>1
  <2>2. CASE w.cb.top # 0
    <3>1. n # 0
      BY <2>2, CbFacts
    <3>2. \A i \in 1 .. w.cb.top : Items(w)[i] = w.blocks[w.cb.buffer].slots[i]
      BY ItemsFacts
    <3>3. \A i \in 1 .. u.cb.top : Items(u)[i] = u.blocks[u.cb.buffer].slots[i]
      BY <1>4, ItemsFacts
    <3> QED
      BY <3>1, <3>2, <3>3
  <2> QED
    BY <2>1, <2>2
<1>6. Items(u) \in Seq(Values) /\ Items(w) \in Seq(Values) /\ Len(Items(u)) = w.cb.top /\ Len(Items(w)) = w.cb.top
  BY <1>4, ItemsFacts
<1>7. Items(u) = Items(w)
  BY <1>5, <1>6, SameSeq
<1> QED
  BY <1>4, <1>7

LEMMA InstallFacts ==
  ASSUME NEW w, Sound(w), w.cb.elem_size # 0, NEW n \in 1 .. SizeMax, w.cb.top <= n,
         n * w.cb.elem_size <= SizeMax, NEW b, BlockEnds(w, n, b)
  PROVE  SetCapacityEnds(w, n, Install(b, n))
<1>1. CASE b.ptr = Null
  <2>1. Install(b, n).w = b.w /\ Install(b, n).status = "NOMEM"
    BY <1>1 DEF Install, Ends
  <2>2. Sound(b.w) /\ Items(b.w) = Items(w)
    BY <1>1, UnchangedSound DEF BlockEnds, NewBlockEnds, Worlds
  <2>3. SameSettings(b.w.cb, w.cb)
    BY DEF BlockEnds, NewBlockEnds, SameSettings, Worlds
  <2> QED
    BY <1>1, <2>1, <2>2, <2>3 DEF SetCapacityEnds, BlockEnds, NewBlockEnds, Worlds
<1>2. CASE b.ptr # Null
  <2> DEFINE cb == [[w.cb EXCEPT !.buffer = b.ptr] EXCEPT !.capacity = n]
             u == [b.w EXCEPT !.cb = cb]
  <2>1. b.w \in Worlds /\ b.w.cb = w.cb /\ b.w.cb \in ControlBlocks /\ b.ptr \in Addresses
    BY <1>2 DEF BlockEnds, NewBlockEnds, Worlds, World
  <2>2. Install(b, n).w = u /\ Install(b, n).status = "OK"
    BY <1>2, <2>1 DEF Install, Ends, Worlds, World
  <2>3. /\ cb \in ControlBlocks /\ cb.buffer = b.ptr /\ cb.capacity = n /\ cb.top = w.cb.top
        /\ SameSettings(cb, w.cb)
    <3>1. n \in 0 .. SizeMax
      BY MemoryAssumption
    <3>2. cb \in ControlBlocks /\ cb.buffer = b.ptr /\ cb.capacity = n /\ cb.top = w.cb.top
      BY <2>1, <3>1 DEF ControlBlocks
    <3>3. SameSettings(cb, w.cb)
      BY <2>1 DEF ControlBlocks, SameSettings
    <3> QED
      BY <3>2, <3>3
  <2> HIDE DEF cb
  <2>4. /\ u \in Worlds /\ u.cb = cb /\ u.blocks = b.w.blocks /\ u.contract = b.w.contract
        /\ u.calls = b.w.calls
    BY <2>1, <2>3 DEF Worlds, World
  <2> HIDE DEF u
  <2>5. Sound(u) /\ Items(u) = Items(w)
    <3>1. u.contract
      BY <2>4 DEF BlockEnds, NewBlockEnds, Worlds
    <3>2. DOMAIN u.blocks = {u.cb.buffer} \ {Null} /\ u.cb.buffer # Null
      BY <1>2, <2>3, <2>4 DEF BlockEnds, NewBlockEnds, Worlds
    <3>3. /\ u.blocks[u.cb.buffer].bytes = n * w.cb.elem_size
          /\ u.blocks[u.cb.buffer].align = w.cb.align
          /\ Len(u.blocks[u.cb.buffer].slots) = n
          /\ \A i \in 1 .. w.cb.top : u.blocks[u.cb.buffer].slots[i] = w.blocks[w.cb.buffer].slots[i]
      BY <1>2, <2>3, <2>4 DEF BlockEnds, NewBlockEnds, Worlds
    <3>4. n \in 0 .. SizeMax /\ n # 0
      OBVIOUS
    <3> QED
      BY <2>3, <2>4, <3>1, <3>2, <3>3, <3>4, ResizedSound
  <2> QED
    BY <2>2, <2>3, <2>4, <2>5 DEF SetCapacityEnds, BlockEnds, NewBlockEnds, Worlds
<1> QED
  BY <1>1, <1>2

(* The block goes back when nothing is to be kept. *)
LEMMA DroppedFacts ==
  ASSUME NEW w, Sound(w), w.cb.elem_size # 0, w.cb.top = 0, w.cb.capacity # 0,
         NEW f, f = Free(w, w.cb.buffer, w.cb.capacity * w.cb.elem_size),
         NEW u, u = [f EXCEPT !.cb.buffer = Null, !.cb.capacity = 0]
  PROVE  SetCapacityEnds(w, 0, Ends(u, "OK"))
<1> DEFINE C == ControlBlocks
           V == Values \cup {Garbage}
           p == w.cb.buffer
           cb == [[w.cb EXCEPT !.buffer = Null] EXCEPT !.capacity = 0]
<1>1. w \in World(C, V) /\ w.contract /\ w.cb \in ControlBlocks /\ p # Null
  BY CbFacts DEF Sound, Worlds
<1>2. /\ DOMAIN w.blocks = {p} /\ Owns(w, p, w.cb.capacity * w.cb.elem_size) /\ w.cb.allocator.free
  BY <1>1, OwnBlock
<1>3. FreeEnds(C, V, w, p, w.cb.capacity * w.cb.elem_size, f)
  BY <1>1, FreeFacts
<1>4. f \in Worlds /\ f.cb = w.cb /\ f.contract /\ w.calls \subseteq f.calls /\ DOMAIN f.blocks = {}
  BY <1>1, <1>2, <1>3 DEF FreeEnds, Without, Worlds
<1>5. cb \in ControlBlocks /\ cb.buffer = Null /\ cb.capacity = 0 /\ cb.top = w.cb.top
  BY <1>1, MemoryAssumption DEF ControlBlocks
<1>6. SameSettings(cb, w.cb)
  BY <1>1 DEF ControlBlocks, SameSettings
<1>7. u = [f EXCEPT !.cb = cb]
  BY <1>4 DEF Worlds, World
<1> HIDE DEF cb
<1>8. u \in Worlds /\ u.cb = cb /\ u.blocks = f.blocks /\ u.contract = f.contract /\ u.calls = f.calls
  BY <1>4, <1>5, <1>7 DEF Worlds, World
<1>9. Sound(u) /\ Items(u) = Items(w)
  <2>1. 0 \in 0 .. SizeMax /\ w.cb.top <= 0 /\ 0 * w.cb.elem_size <= SizeMax
    BY CbFacts, MemoryAssumption
  <2>2. u.contract /\ SameSettings(u.cb, w.cb) /\ u.cb.top = w.cb.top /\ u.cb.capacity = 0
    BY <1>4, <1>5, <1>6, <1>8
  <2>3. u.cb.buffer = Null /\ DOMAIN u.blocks = {u.cb.buffer} \ {Null}
    BY <1>4, <1>5, <1>8
  <2> QED
    BY <1>8, <2>1, <2>2, <2>3, ResizedSound
<1> QED
  BY <1>4, <1>5, <1>6, <1>8, <1>9 DEF SetCapacityEnds, Ends

(* Every path of dv_stack_set_capacity leaves a sound stack with the contents
   it had, and a failure leaves it as it was.                               *)
LEMMA SetCapacityFacts ==
  ASSUME NEW w, Sound(w), NEW n \in 0 .. SizeMax, w.cb.elem_size # 0 \/ n = w.cb.capacity,
         NEW r \in SetCapacity(w, n)
  PROVE  SetCapacityEnds(w, n, r)
<1> DEFINE s == w.cb
           old_bytes == s.capacity * s.elem_size
           new_bytes == n * s.elem_size
<1>1. /\ s.top \in Nat /\ s.capacity \in 0 .. SizeMax /\ s.elem_size \in Nat /\ n \in Nat
      /\ s.top <= s.capacity /\ s.capacity \in Nat
  BY CbFacts, MemoryAssumption DEF Sound
<1>2. SameSettings(w.cb, w.cb) /\ w.calls \subseteq w.calls
  BY DEF SameSettings
<1>3. CASE n = s.capacity
  BY <1>2, <1>3 DEF SetCapacity, SetCapacityEnds, Ends
<1>4. CASE n # s.capacity /\ n < s.top
  BY <1>2, <1>4 DEF SetCapacity, SetCapacityEnds, Ends
<1>5. BytesFit(s.capacity, s.elem_size)
  <2>1. s.capacity * s.elem_size <= SizeMax
    BY <1>1, MemoryAssumption DEF Sound, Fits
  <2> QED
    BY <1>1, <2>1, BytesFitFacts
<1>6. CASE n # s.capacity /\ ~(n < s.top) /\ ~BytesFit(n, s.elem_size)
  BY <1>2, <1>6 DEF SetCapacity, SetCapacityEnds, Ends
<1>7. CASE n # s.capacity /\ ~(n < s.top) /\ BytesFit(n, s.elem_size)
  <2>0. n * s.elem_size <= SizeMax
    BY <1>1, <1>7, BytesFitFacts
  <2>1. n * s.elem_size <= SizeMax /\ s.elem_size # 0 /\ s.top <= n
    BY <1>1, <1>7, <2>0
  <2>2. CASE n = 0
    <3>1. new_bytes = 0 /\ s.buffer # Null /\ s.top = 0 /\ s.capacity # 0
      BY <1>1, <1>7, <2>2 DEF Sound
    <3>2. r = Ends([Free(w, s.buffer, old_bytes) EXCEPT !.cb.buffer = Null, !.cb.capacity = 0], "OK")
      BY <1>5, <1>7, <2>2, <3>1 DEF SetCapacity
    <3> QED
      BY <2>1, <2>2, <3>1, <3>2, DroppedFacts
  <2>3. CASE n # 0
    <3>1. new_bytes # 0 /\ n \in 1 .. SizeMax
      BY <1>1, <2>1, <2>3
    <3>2. PICK b \in NewBlock(w, s.top, old_bytes, new_bytes) : r = Install(b, n)
      BY <1>5, <1>7, <3>1 DEF SetCapacity
    <3>3. BlockEnds(w, n, b)
      BY <2>1, <3>1, <3>2, BlockFacts
    <3> QED
      BY <2>1, <3>1, <3>2, <3>3, InstallFacts
  <2> QED
    BY <2>2, <2>3
<1> QED
  BY <1>3, <1>4, <1>6, <1>7

(***************************************************************************)
(* Growth.                                                                 *)
(***************************************************************************)
(* The most elements a stack with this control block may hold. *)
Ceil(cb) ==
  IF ~cb.growable THEN cb.initial_capacity
  ELSE IF cb.max_capacity = 0 THEN SizeMax
  ELSE cb.max_capacity

Capped(cb) ==
  /\ cb.max_capacity # 0 => cb.capacity <= cb.max_capacity
  /\ ~cb.growable => cb.capacity = cb.initial_capacity

(* Growth never stops below the largest size. *)
LEMMA NextCapacityFacts ==
  ASSUME NEW c \in 0 .. SizeMax
  PROVE  /\ NextCapacity(c) \in 0 .. SizeMax
         /\ NextCapacity(c) > c \/ c = SizeMax
         /\ NextCapacity(c) >= c
<1>1. SizeMax \in Nat /\ MinCapacity \in 2 .. SizeMax
  BY MemoryAssumption, StackAssumption
<1> DEFINE half == c \div 2
<1>2. half \in Nat /\ half <= c /\ (c >= 2 => half >= 1)
  BY <1>1
<1> HIDE DEF half
<1>3. NextCapacity(c) = IF c < MinCapacity THEN MinCapacity
                        ELSE IF c > SizeMax - half THEN SizeMax ELSE c + half
  BY DEF NextCapacity, half
<1> QED
  BY <1>1, <1>2, <1>3

LEMMA ClampFacts ==
  ASSUME NEW cb \in ControlBlocks, cb.growable, NEW c \in 0 .. SizeMax
  PROVE  /\ ClampCapacity(cb, c) \in 0 .. SizeMax
         /\ ClampCapacity(cb, c) <= c /\ ClampCapacity(cb, c) <= Ceil(cb)
         /\ ClampCapacity(cb, c) = c \/ ClampCapacity(cb, c) = Ceil(cb)
         /\ cb.max_capacity # 0 => ClampCapacity(cb, c) <= cb.max_capacity
  BY MemoryAssumption DEF ClampCapacity, Ceil, ControlBlocks

LEMMA CeilFacts ==
  ASSUME NEW w, Sound(w), Capped(w.cb)
  PROVE  Ceil(w.cb) \in 0 .. SizeMax /\ w.cb.capacity <= Ceil(w.cb)
  BY CbFacts, MemoryAssumption DEF Ceil, Capped

LEMMA SameCeil ==
  ASSUME NEW a, NEW b, SameSettings(a, b)
  PROVE  Ceil(a) = Ceil(b)
  BY DEF SameSettings, Ceil

(* What growing ends in, whether or not there is more room. *)
GrowEnds(w, r) ==
  /\ Sound(r.w) /\ Capped(r.w.cb) /\ w.calls \subseteq r.w.calls
  /\ SameSettings(r.w.cb, w.cb) /\ r.w.cb.top = w.cb.top
  /\ Items(r.w) = Items(w)

LEMMA UngrownFacts ==
  ASSUME NEW w, Sound(w), Capped(w.cb), NEW status
  PROVE  GrowEnds(w, Ends(w, status))
  BY DEF GrowEnds, Ends, SameSettings

LEMMA GrownFacts ==
  ASSUME NEW w, Sound(w), Capped(w.cb), w.cb.growable, NEW n \in 0 .. SizeMax, n <= Ceil(w.cb),
         NEW r, SetCapacityEnds(w, n, r)
  PROVE  GrowEnds(w, r)
<1>1. /\ Sound(r.w) /\ w.calls \subseteq r.w.calls /\ SameSettings(r.w.cb, w.cb)
      /\ r.w.cb.top = w.cb.top /\ Items(r.w) = Items(w)
  BY DEF SetCapacityEnds
<1>2. Capped(r.w.cb)
  <2>1. CASE r.status = "OK"
    <3>1. r.w.cb.capacity = n
      BY <2>1 DEF SetCapacityEnds
    <3> QED
      BY <1>1, <3>1 DEF Capped, Ceil, SameSettings
  <2>2. CASE r.status # "OK"
    BY <2>2 DEF SetCapacityEnds
  <2> QED
    BY <2>1, <2>2
<1> QED
  BY <1>1, <1>2 DEF GrowEnds

PushGrowEnds(w, r) ==
  /\ GrowEnds(w, r)
  /\ r.status = "OK" => w.cb.top < r.w.cb.capacity
  /\ r.status # "OK" => r.w.cb = w.cb /\ r.w.blocks = w.blocks
  /\ \/ r.status \in {"OK", "NOMEM", "OVERFLOW"} /\ w.cb.top < Ceil(w.cb)
     \/ r.status = "FULL" /\ w.cb.top = Ceil(w.cb)

LEMMA GrowForPushFacts ==
  ASSUME NEW w, Sound(w), Capped(w.cb), w.cb.top = w.cb.capacity, NEW r \in GrowForPush(w)
  PROVE  PushGrowEnds(w, r)
<1> DEFINE s == w.cb
           next == ClampCapacity(s, NextCapacity(s.capacity))
<1>1. /\ s \in ControlBlocks /\ s.capacity \in 0 .. SizeMax /\ s.top \in Nat
      /\ SizeMax \in Nat /\ s.max_capacity \in 0 .. SizeMax
      /\ Ceil(s) \in 0 .. SizeMax /\ s.capacity <= Ceil(s)
  BY CbFacts, CeilFacts, MemoryAssumption
<1>2. ~(s.top < s.capacity)
  BY <1>1
<1>3. CASE ~s.growable
  <2>1. r = Ends(w, "FULL")
    BY <1>2, <1>3 DEF GrowForPush
  <2>2. s.top = Ceil(s)
    BY <1>3 DEF Capped, Ceil
  <2>3. GrowEnds(w, r)
    BY <2>1, UngrownFacts
  <2> QED
    BY <2>1, <2>2, <2>3 DEF PushGrowEnds, Ends
<1>4. CASE s.growable
  <2>1. /\ NextCapacity(s.capacity) \in 0 .. SizeMax
        /\ NextCapacity(s.capacity) > s.capacity \/ s.capacity = SizeMax
    BY <1>1, NextCapacityFacts
  <2>2. /\ next \in 0 .. SizeMax /\ next <= Ceil(s)
        /\ next = NextCapacity(s.capacity) \/ next = Ceil(s)
    BY <1>1, <1>4, <2>1, ClampFacts
  <2> HIDE DEF next
  <2>3. CASE next <= s.capacity
    <3>1. r = Ends(w, "FULL")
      BY <1>2, <2>3 DEF GrowForPush, next
    <3>2. s.top = Ceil(s)
      BY <1>1, <2>1, <2>2, <2>3
    <3>3. GrowEnds(w, r)
      BY <3>1, UngrownFacts
    <3> QED
      BY <3>1, <3>2, <3>3 DEF PushGrowEnds, Ends
  <2>4. CASE ~(next <= s.capacity)
    <3>1. r \in SetCapacity(w, next)
      BY <1>2, <1>4, <2>4 DEF GrowForPush, next
    <3>2. s.elem_size # 0
      BY <1>4 DEF Sound, Settled
    <3>3. SetCapacityEnds(w, next, r)
      BY <2>2, <3>1, <3>2, SetCapacityFacts
    <3>4. GrowEnds(w, r)
      BY <1>4, <2>2, <3>3, GrownFacts
    <3>5. next > s.top /\ s.top < Ceil(s)
      BY <1>1, <2>2, <2>4
    <3>6. r.status \in {"OK", "NOMEM", "OVERFLOW"}
      BY <1>1, <2>2, <3>3, <3>5 DEF SetCapacityEnds
    <3> QED
      BY <3>3, <3>4, <3>5, <3>6 DEF PushGrowEnds, SetCapacityEnds
  <2> QED
    BY <2>3, <2>4
<1> QED
  BY <1>3, <1>4

(* A shortfall has one of three causes. *)
Enough(w, needed, r) ==
  \/ r.w.cb.capacity >= needed
  \/ r.w.cb.capacity = Ceil(w.cb)
  \/ "refused" \in r.w.calls
  \/ ~BytesFit(needed, w.cb.elem_size)

LEMMA BytesFitMonotone ==
  ASSUME NEW a \in Nat, NEW b \in Nat, a <= b, NEW size \in Nat, ~BytesFit(a, size)
  PROVE  ~BytesFit(b, size)
<1>1. a * size <= b * size /\ a * size \in Nat /\ b * size \in Nat
  <2>1. b = a + (b - a) /\ b - a \in Nat
    OBVIOUS
  <2>2. b * size = a * size + (b - a) * size /\ (b - a) * size \in Nat
    BY <2>1
  <2> QED
    BY <2>2
<1>2. ~(a * size <= SizeMax)
  BY BytesFitFacts
<1>3. ~(b * size <= SizeMax)
  BY <1>1, <1>2, MemoryAssumption
<1> QED
  BY <1>3, BytesFitFacts

LEMMA ResizeShort ==
  ASSUME NEW w, Sound(w), NEW n \in Nat, NEW needed \in Nat, w.cb.top <= n, n <= needed,
         n = needed \/ n = Ceil(w.cb),
         NEW r, SetCapacityEnds(w, n, r)
  PROVE  Enough(w, needed, r)
<1>1. CASE r.status = "OK"
  <2>1. r.w.cb.capacity = n
    BY <1>1 DEF SetCapacityEnds
  <2> QED
    BY <2>1 DEF Enough
<1>2. CASE r.status = "OVERFLOW"
  <2>1. ~BytesFit(n, w.cb.elem_size) /\ w.cb.elem_size \in Nat
    BY <1>2, CbFacts DEF SetCapacityEnds
  <2>2. ~BytesFit(needed, w.cb.elem_size)
    BY <2>1, BytesFitMonotone
  <2> QED
    BY <2>2 DEF Enough
<1>3. CASE r.status = "NOMEM"
  BY <1>3 DEF SetCapacityEnds, Enough
<1> QED
  BY <1>1, <1>2, <1>3, CbFacts DEF SetCapacityEnds

(* The two attempts of the bulk push. *)
LEMMA GrowForBulkFacts ==
  ASSUME NEW w, Sound(w), Capped(w.cb), w.cb.growable, NEW needed \in 0 .. SizeMax,
         w.cb.capacity < needed, NEW r \in GrowForBulk(w, needed)
  PROVE  GrowEnds(w, r) /\ Enough(w, needed, r)
<1> DEFINE s == w.cb
           curve == NextCapacity(s.capacity)
           aim == IF needed > curve THEN needed ELSE curve
           target == ClampCapacity(s, aim)
           exact == ClampCapacity(s, needed)
           first == IF target > s.capacity THEN SetCapacity(w, target) ELSE {Ends(w, "FULL")}
<1>1. /\ s \in ControlBlocks /\ s.capacity \in 0 .. SizeMax /\ s.top \in Nat /\ s.top <= s.capacity
      /\ SizeMax \in Nat /\ Ceil(s) \in 0 .. SizeMax /\ s.capacity <= Ceil(s) /\ needed \in Nat
      /\ s.elem_size # 0
  BY CbFacts, CeilFacts, MemoryAssumption DEF Sound, Settled
<1>2. curve \in 0 .. SizeMax
  BY <1>1, NextCapacityFacts
<1>3. aim \in 0 .. SizeMax /\ aim >= needed
  BY <1>2
<1> HIDE DEF aim, curve
<1>4. target \in 0 .. SizeMax /\ target <= Ceil(s) /\ (target = aim \/ target = Ceil(s))
  BY <1>1, <1>3, ClampFacts
<1>5. exact \in 0 .. SizeMax /\ exact <= Ceil(s) /\ exact <= needed /\ (exact = needed \/ exact = Ceil(s))
  BY <1>1, ClampFacts
<1>6. exact <= target
  BY <1>1, <1>3 DEF ClampCapacity, ControlBlocks
<1> HIDE DEF target, exact
<1>7. PICK f \in first : r \in IF f.status # "OK" /\ exact > f.w.cb.capacity /\ exact < target
                               THEN SetCapacity(f.w, exact) ELSE {f}
  BY DEF GrowForBulk, target, exact, curve, aim
<1>8. CASE ~(target > s.capacity)
  <2>1. f = Ends(w, "FULL") /\ f.w = w
    BY <1>7, <1>8 DEF Ends
  <2>2. r = f
    BY <1>1, <1>4, <1>5, <1>6, <1>7, <1>8, <2>1
  <2>3. s.capacity = Ceil(s)
    BY <1>1, <1>3, <1>4, <1>8
  <2> QED
    BY <2>1, <2>2, <2>3, UngrownFacts DEF Enough
<1>9. CASE target > s.capacity
  <2>1. f \in SetCapacity(w, target)
    BY <1>7, <1>9
  <2>2. SetCapacityEnds(w, target, f)
    BY <1>1, <1>4, <2>1, SetCapacityFacts
  <2>3. GrowEnds(w, f)
    BY <1>4, <2>2, GrownFacts
  <2>4. CASE f.status = "OK"
    <3>1. r = f
      BY <1>7, <2>4
    <3>2. f.w.cb.capacity = target
      BY <2>2, <2>4 DEF SetCapacityEnds
    <3>3. target >= needed \/ target = Ceil(s)
      BY <1>3, <1>4
    <3> QED
      BY <2>3, <3>1, <3>2, <3>3 DEF Enough
  <2>5. CASE f.status # "OK"
    <3>1. f.w.cb = w.cb /\ Sound(f.w)
      BY <2>2, <2>5 DEF SetCapacityEnds
    <3>2. CASE exact > s.capacity /\ exact < target
      <4>1. r \in SetCapacity(f.w, exact)
        BY <1>7, <2>5, <3>1, <3>2
      <4>2. SetCapacityEnds(f.w, exact, r)
        BY <1>1, <1>5, <3>1, <4>1, SetCapacityFacts
      <4>3. GrowEnds(f.w, r)
        BY <1>5, <3>1, <4>2, GrownFacts
      <4>4. GrowEnds(w, r)
        BY <2>3, <3>1, <4>3 DEF GrowEnds
      <4>5. Enough(f.w, needed, r)
        <5>1. exact \in Nat /\ f.w.cb.top <= exact /\ (exact = needed \/ exact = Ceil(f.w.cb))
          BY <1>1, <1>5, <3>1, <3>2
        <5> QED
          BY <1>1, <1>5, <3>1, <4>2, <5>1, ResizeShort
      <4> QED
        BY <3>1, <4>4, <4>5 DEF Enough
    <3>3. CASE ~(exact > s.capacity)
      <4>1. r = f /\ s.capacity = Ceil(s)
        BY <1>1, <1>5, <1>7, <3>1, <3>3
      <4> QED
        BY <2>3, <3>1, <4>1 DEF Enough
    <3>4. CASE exact > s.capacity /\ ~(exact < target)
      <4>1. r = f /\ exact = target
        BY <1>4, <1>5, <1>6, <1>7, <3>1, <3>4
      <4>2. exact \in Nat /\ w.cb.top <= exact
        BY <1>1, <1>5, <3>4
      <4>3. Enough(w, needed, f)
        BY <1>1, <1>5, <2>2, <4>1, <4>2, ResizeShort
      <4> QED
        BY <2>3, <4>1, <4>3
    <3> QED
      BY <3>2, <3>3, <3>4
  <2> QED
    BY <2>4, <2>5
<1> QED
  BY <1>8, <1>9

(***************************************************************************)
(* Elements.                                                               *)
(***************************************************************************)
StoreEnds(w, batch, u) ==
  /\ Sound(u) /\ SameSettings(u.cb, w.cb) /\ u.cb.capacity = w.cb.capacity
  /\ u.cb.top = w.cb.top + Len(batch)
  /\ Items(u) = Items(w) \o batch
  /\ u.calls = w.calls

LEMMA StoreFacts ==
  ASSUME NEW w, Sound(w), NEW batch \in Seq(Values), batch # <<>>,
         w.cb.top + Len(batch) <= w.cb.capacity
  PROVE  StoreEnds(w, batch, Store(w, batch))
<1> DEFINE V == Values \cup {Garbage}
           p == w.cb.buffer
           b == w.blocks[p]
           top == w.cb.top
           n == Len(batch)
           slots == [i \in DOMAIN b.slots |-> IF i \in top + 1 .. top + n THEN batch[i - top] ELSE b.slots[i]]
           new == [b EXCEPT !.slots = slots]
           bs == [w.blocks EXCEPT ![p] = new]
           cb == [w.cb EXCEPT !.top = top + n]
           u == Store(w, batch)
<1>1. /\ w \in Worlds /\ w.contract /\ w.cb \in ControlBlocks /\ w.blocks \in Memory(V) /\ top \in Nat
      /\ w.cb.capacity \in 0 .. SizeMax /\ SizeMax \in Nat
  BY CbFacts, MemoryAssumption DEF Sound
<1>2. n \in Nat \ {0}
  OBVIOUS
<1>3. p # Null
  BY <1>1, <1>2 DEF Sound
<1>4. /\ p \in Addresses /\ DOMAIN w.blocks = {p} /\ b \in Block(V) /\ b.slots \in Seq(V)
      /\ Len(b.slots) = w.cb.capacity
  BY <1>3, OwnBlock
<1>5. slots \in Seq(V) /\ Len(slots) = w.cb.capacity
  <2>1. \A i \in top + 1 .. top + n : batch[i - top] \in Values
    BY <1>1, <1>2
  <2>2. DOMAIN b.slots = 1 .. w.cb.capacity /\ \A i \in 1 .. w.cb.capacity : b.slots[i] \in V
    BY <1>1, <1>4
  <2>3. slots \in [1 .. w.cb.capacity -> V]
    BY <2>1, <2>2
  <2>4. w.cb.capacity \in Nat
    BY <1>1
  <2> HIDE DEF slots
  <2> QED
    BY <2>3, <2>4
<1>6. \A i \in 1 .. top : slots[i] = b.slots[i]
  BY <1>1, <1>2, <1>4
<1>7. ASSUME NEW i \in 1 .. n PROVE slots[top + i] = batch[i]
  <2>1. DOMAIN b.slots = 1 .. w.cb.capacity
    BY <1>1, <1>4
  <2>2. top + i \in 1 .. w.cb.capacity /\ top + i \in top + 1 .. top + n /\ (top + i) - top = i
    <3>1. top \in Nat /\ n \in Nat /\ top + n <= w.cb.capacity /\ w.cb.capacity \in Nat
      BY <1>1, <1>2
    <3> HIDE DEF top, n
    <3> QED
      BY <3>1
  <2> QED
    BY <2>1, <2>2
<1> HIDE DEF slots
<1>8. new \in Block(V) /\ new.bytes = b.bytes /\ new.align = b.align /\ new.slots = slots
  BY <1>4, <1>5 DEF Block
<1>9. w.blocks \in [{p} -> Block(V)]
  BY <1>1, <1>4, MemoryFacts
<1> HIDE DEF new
<1>10. bs \in [{p} -> Block(V)] /\ bs[p] = new
  BY <1>8, <1>9
<1>11. bs \in Memory(V) /\ DOMAIN bs = {p}
  <2>1. {p} \subseteq Addresses
    BY <1>4
  <2> HIDE DEF bs
  <2> QED
    BY <1>10, <2>1, MemoryIntro
<1>12. cb \in ControlBlocks /\ cb.buffer = p /\ cb.capacity = w.cb.capacity /\ cb.top = top + n
  <2>1. top + n \in 0 .. SizeMax
    BY <1>1, <1>2
  <2> HIDE DEF n, top
  <2> QED
    BY <1>1, <2>1 DEF ControlBlocks
<1>13. SameSettings(cb, w.cb)
  BY <1>1 DEF ControlBlocks, SameSettings
<1>14. u = [[w EXCEPT !.blocks = bs] EXCEPT !.cb = cb]
  BY <1>1 DEF Store, Worlds, World, slots, new
<1> HIDE DEF bs, cb, u
<1>15. u \in Worlds /\ u.cb = cb /\ u.blocks = bs /\ u.contract = w.contract /\ u.calls = w.calls
  BY <1>1, <1>11, <1>12, <1>14 DEF Worlds, World
<1>16. Fits(u.cb, u.blocks[u.cb.buffer])
  <2>1. Fits(w.cb, b)
    BY <1>3 DEF Sound
  <2>2. \A i \in 1 .. top + n : slots[i] \in Values
    <3> SUFFICES ASSUME NEW i \in 1 .. top + n PROVE slots[i] \in Values
      OBVIOUS
    <3>1. CASE i <= top
      <4>1. i \in 1 .. top
        BY <1>1, <1>2, <3>1
      <4>2. b.slots[i] \in Values
        BY <2>1, <4>1 DEF Fits
      <4> QED
        BY <1>6, <4>1, <4>2
    <3>2. CASE ~(i <= top)
      <4>1. i - top \in 1 .. n /\ i = top + (i - top)
        BY <1>1, <1>2, <3>2
      <4>2. slots[i] = batch[i - top]
        BY <1>7, <4>1
      <4> QED
        BY <4>1, <4>2
    <3> QED
      BY <3>1, <3>2
  <2> QED
    BY <1>5, <1>8, <1>10, <1>12, <1>13, <1>15, <2>1, <2>2 DEF Fits, SameSettings
<1>17. Sound(u)
  <2>1. Settled(u.cb)
    BY <1>12, <1>13, <1>15 DEF Sound, Settled, SameSettings
  <2> QED
    BY <1>1, <1>2, <1>3, <1>11, <1>12, <1>15, <1>16, <2>1 DEF Sound
<1>18. Items(u) = Items(w) \o batch
  <2>1. /\ Items(u) \in Seq(Values) /\ Len(Items(u)) = top + n
        /\ \A i \in 1 .. top + n : Items(u)[i] = slots[i]
    BY <1>8, <1>10, <1>12, <1>15, <1>17, ItemsFacts
  <2>2. /\ Items(w) \in Seq(Values) /\ Len(Items(w)) = top
        /\ \A i \in 1 .. top : Items(w)[i] = b.slots[i]
    BY ItemsFacts
  <2> DEFINE t == Items(w) \o batch
  <2>3. /\ t \in Seq(Values) /\ Len(t) = top + n
        /\ \A i \in 1 .. top : t[i] = Items(w)[i]
        /\ \A i \in 1 .. n : t[top + i] = batch[i]
    <3> DEFINE s == Items(w)
    <3>0. s \in Seq(Values)
      BY <2>2
    <3> HIDE DEF s
    <3>1. /\ t \in Seq(Values) /\ Len(t) = Len(s) + n
          /\ \A i \in 1 .. Len(s) : t[i] = s[i]
          /\ \A i \in 1 .. n : t[Len(s) + i] = batch[i]
      BY <3>0, ConcatFacts DEF s
    <3> HIDE DEF t, n, top
    <3> QED
      BY <2>2, <3>1 DEF s
  <2> HIDE DEF t
  <2>4. ASSUME NEW i \in 1 .. top + n PROVE Items(u)[i] = t[i]
    <3>1. CASE i <= top
      BY <1>1, <1>6, <2>1, <2>2, <2>3, <3>1
    <3>2. CASE ~(i <= top)
      <4>1. i - top \in 1 .. n /\ i = top + (i - top)
        BY <1>1, <1>2, <3>2
      <4>2. slots[i] = batch[i - top] /\ t[i] = batch[i - top]
        BY <1>7, <2>3, <4>1
      <4> QED
        BY <2>1, <4>2
    <3> QED
      BY <3>1, <3>2
  <2> QED
    BY <2>1, <2>3, <2>4, SameSeq DEF t
<1> QED
  BY <1>12, <1>13, <1>15, <1>17, <1>18 DEF StoreEnds, u

(* The top t elements stay, for t up to the height of the stack. *)
LoweredEnds(w, t, u) ==
  /\ Sound(u) /\ u.cb = [w.cb EXCEPT !.top = t] /\ u.blocks = w.blocks /\ u.calls = w.calls
  /\ SameSettings(u.cb, w.cb) /\ u.cb.capacity = w.cb.capacity /\ u.cb.top = t
  /\ Items(u) = SubSeq(Items(w), 1, t)

LEMMA LowerFacts ==
  ASSUME NEW w, Sound(w), NEW t \in Nat, t <= w.cb.top
  PROVE  LoweredEnds(w, t, [w EXCEPT !.cb.top = t])
<1> DEFINE cb == [w.cb EXCEPT !.top = t]
           u == [w EXCEPT !.cb = cb]
<1>1. /\ w \in Worlds /\ w.contract /\ w.cb \in ControlBlocks /\ w.cb.top \in Nat
      /\ w.cb.capacity \in 0 .. SizeMax /\ SizeMax \in Nat /\ w.cb.top <= w.cb.capacity
  BY CbFacts, MemoryAssumption DEF Sound
<1>2. cb \in ControlBlocks /\ cb.buffer = w.cb.buffer /\ cb.capacity = w.cb.capacity /\ cb.top = t
  BY <1>1 DEF ControlBlocks
<1>3. SameSettings(cb, w.cb)
  BY <1>1 DEF ControlBlocks, SameSettings
<1>4. [w EXCEPT !.cb.top = t] = u
  BY <1>1
<1> HIDE DEF cb
<1>5. u \in Worlds /\ u.cb = cb /\ u.blocks = w.blocks /\ u.contract = w.contract /\ u.calls = w.calls
  BY <1>1, <1>2 DEF Worlds, World
<1> HIDE DEF u
<1>6. Sound(u)
  <2>1. Settled(u.cb)
    BY <1>2, <1>3, <1>5 DEF Sound, Settled, SameSettings
  <2>2. u.cb.buffer # Null => Fits(u.cb, u.blocks[u.cb.buffer])
    BY <1>1, <1>2, <1>3, <1>5 DEF Sound, Fits, SameSettings
  <2> QED
    BY <1>1, <1>2, <1>5, <2>1, <2>2 DEF Sound
<1>7. Items(u) = SubSeq(Items(w), 1, t)
  <2>1. /\ Items(u) \in Seq(Values) /\ Len(Items(u)) = t
        /\ \A i \in 1 .. t : Items(u)[i] = w.blocks[w.cb.buffer].slots[i]
    BY <1>2, <1>5, <1>6, ItemsFacts
  <2>2. /\ Items(w) \in Seq(Values) /\ Len(Items(w)) = w.cb.top
        /\ \A i \in 1 .. w.cb.top : Items(w)[i] = w.blocks[w.cb.buffer].slots[i]
    BY ItemsFacts
  <2> DEFINE s == SubSeq(Items(w), 1, t)
  <2>3. s \in Seq(Values) /\ Len(s) = t /\ \A i \in 1 .. t : s[i] = Items(w)[i]
    BY <1>1, <2>2
  <2> HIDE DEF s
  <2>4. \A i \in 1 .. t : Items(u)[i] = s[i]
    BY <1>1, <2>1, <2>2, <2>3
  <2> QED
    BY <2>1, <2>3, <2>4, SameSeq DEF s
<1> QED
  BY <1>2, <1>3, <1>4, <1>5, <1>6, <1>7 DEF LoweredEnds, cb

(***************************************************************************)
(* The calls.                                                              *)
(***************************************************************************)
(* The inductive invariant. *)
Inv == Sound(W) /\ Capped(stack)

(* The state after a call. *)
Now == [cb |-> stack', blocks |-> blocks', contract |-> contract', calls |-> {}]

FailureStep ==
  last'.status # "OK" /\ last'.op # "init" =>
    /\ stack' = [stack EXCEPT !.top = IF last'.op = "reset" THEN 0 ELSE @]
    /\ blocks' = blocks

BulkStep ==
  last'.op = "push_bulk" /\ last'.n < last'.asked =>
    \/ stack'.top = Ceiling
    \/ "refused" \in last'.calls
    \/ ~BytesFit(stack.top + last'.asked, stack.elem_size)

(* What every call does. *)
Stepped ==
  /\ Sound(Now) /\ Capped(stack')
  /\ FailureStep /\ BulkStep
  /\ Lifo!Next(Batches)

LEMMA Mapped ==
  /\ Contents = Items(W) /\ Contents' = Items(Now)
  /\ Ceiling = Ceil(stack) /\ Ceiling' = Ceil(stack')
  BY DEF Contents, Items, W, Now, Ceiling, Ceil

LEMMA WFacts ==
  W.cb = stack /\ W.blocks = blocks /\ W.contract = contract /\ W.calls = {}
  BY DEF W

(* A call commits what it ends in. *)
LEMMA AnswerFacts ==
  ASSUME NEW w, Sound(w), Capped(w.cb), NEW op, NEW status, NEW asked, NEW n, NEW out,
         Answer(op, w, status, asked, n, out)
  PROVE  /\ Sound(Now) /\ Capped(stack') /\ Contents' = Items(w) /\ Ceiling' = Ceil(w.cb)
         /\ stack' = w.cb /\ blocks' = w.blocks
         /\ last'.op = op /\ last'.status = status /\ last'.asked = asked /\ last'.n = n
         /\ last'.out = out /\ last'.calls = w.calls
<1>1. stack' = w.cb /\ blocks' = w.blocks /\ contract' = w.contract
  BY DEF Answer
<1>2. Now \in Worlds /\ Now.cb = w.cb /\ Now.blocks = w.blocks /\ Now.contract
  <2>1. w.cb \in ControlBlocks /\ w.blocks \in Memory(Values \cup {Garbage}) /\ w.contract \in BOOLEAN /\ w.contract
    BY DEF Sound, Worlds, World
  <2>2. {} \in SUBSET HookNames
    OBVIOUS
  <2> QED
    BY <1>1, <2>1, <2>2 DEF Now, Worlds, World
<1>3. Sound(Now) /\ Items(Now) = Items(w)
  BY <1>2, UnchangedSound
<1>4. /\ last'.op = op /\ last'.status = status /\ last'.asked = asked /\ last'.n = n
      /\ last'.out = out /\ last'.calls = w.calls
  BY DEF Answer
<1> QED
  BY <1>1, <1>3, <1>4, Mapped

LEMMA ReplyFacts ==
  ASSUME NEW w, NEW op, NEW status, NEW asked, NEW n, NEW out,
         Answer(op, w, status, asked, n, out), NEW ops, op \in ops
  PROVE  Lifo!Reply(ops, status, n, out)
  BY DEF Answer, Lifo!Reply

LEMMA UnchangedFailure ==
  ASSUME Inv, stack' = stack, blocks' = blocks, last'.op # "reset"
  PROVE  FailureStep
<1>1. stack \in ControlBlocks
  BY CbFacts, WFacts DEF Inv
<1>2. [stack EXCEPT !.top = stack.top] = stack
  BY <1>1 DEF ControlBlocks
<1>3. (IF last'.op = "reset" THEN 0 ELSE stack.top) = stack.top
  OBVIOUS
<1> QED
  BY <1>2, <1>3 DEF FailureStep

(* A call that changes nothing. *)
LEMMA IdleFacts ==
  ASSUME Inv, NEW op, NEW status, NEW asked, NEW n, NEW out, Answer(op, W, status, asked, n, out),
         op \notin {"push_bulk", "reset"}
  PROVE  /\ Sound(Now) /\ Capped(stack') /\ FailureStep /\ BulkStep
         /\ Contents' = Contents /\ Ceiling' = Ceiling
<1>1. Sound(W) /\ Capped(W.cb)
  BY WFacts DEF Inv
<1>2. Sound(Now) /\ Capped(stack') /\ Contents' = Items(W) /\ Ceiling' = Ceil(W.cb)
  BY <1>1, AnswerFacts
<1>3. stack' = W.cb /\ blocks' = W.blocks /\ last'.op = op
  BY <1>1, AnswerFacts
<1>4. FailureStep
  BY <1>3, UnchangedFailure, WFacts
<1>5. BulkStep
  BY <1>3 DEF BulkStep
<1> QED
  BY <1>2, <1>4, <1>5, Mapped, WFacts

(* A call that reports success and is not a bulk push. *)
LEMMA OkFacts ==
  ASSUME Inv, NEW w, Sound(w), Capped(w.cb), SameSettings(w.cb, stack),
         NEW op, NEW asked, NEW n, NEW out, Answer(op, w, "OK", asked, n, out), op # "push_bulk"
  PROVE  /\ Sound(Now) /\ Capped(stack') /\ FailureStep /\ BulkStep
         /\ Contents' = Items(w) /\ Ceiling' = Ceiling
<1>1. Sound(Now) /\ Capped(stack') /\ Contents' = Items(w) /\ Ceiling' = Ceil(w.cb)
  BY AnswerFacts
<1>2. last'.op = op /\ last'.status = "OK"
  BY AnswerFacts
<1>3. Ceil(w.cb) = Ceiling
  BY SameCeil, Mapped
<1> QED
  BY <1>1, <1>2, <1>3 DEF FailureStep, BulkStep

LEMMA ClearSteps ==
  ASSUME Inv, Clear
  PROVE  Stepped
<1> DEFINE w == [W EXCEPT !.cb.top = 0]
<1>1. Sound(W) /\ W.cb.top \in Nat /\ Capped(W.cb)
  BY CbFacts, WFacts DEF Inv
<1>2. LoweredEnds(W, 0, w)
  BY <1>1, LowerFacts
<1>3. Answer("clear", w, "OK", 0, 0, <<>>)
  BY DEF Clear, Commit
<1> HIDE DEF w
<1>4. Sound(w) /\ Capped(w.cb) /\ SameSettings(w.cb, stack) /\ Items(w) = <<>>
  <2>1. Items(w) = SubSeq(Items(W), 1, 0) /\ Items(W) \in Seq(Values)
    BY <1>1, <1>2, ItemsFacts DEF LoweredEnds
  <2>2. Items(w) = <<>>
    BY <2>1
  <2> QED
    BY <1>1, <1>2, <2>2, WFacts DEF LoweredEnds, Capped, SameSettings
<1>5. /\ Sound(Now) /\ Capped(stack') /\ FailureStep /\ BulkStep
      /\ Contents' = <<>> /\ Ceiling' = Ceiling
  BY <1>3, <1>4, OkFacts
<1>6. Lifo!Reply({"clear"}, "OK", 0, <<>>)
  BY <1>3, ReplyFacts
<1>7. Lifo!Drop
  BY <1>5, <1>6 DEF Lifo!Drop
<1> QED
  BY <1>5, <1>7 DEF Stepped, Lifo!Next

LEMMA EmptySteps ==
  ASSUME Inv, stack.top = 0, NEW op, NEW out,
         \/ op \in {"pop", "peek"} /\ out = <<>>
         \/ op \in {"pop_ptr", "peek_ptr"} /\ out = <<Null>>,
         Answer(op, W, "EMPTY", 0, 0, out)
  PROVE  Stepped
<1>1. Contents = <<>>
  <2>1. Contents \in Seq(Values) /\ Len(Contents) = 0
    BY WFacts, ItemsFacts, Mapped DEF Inv
  <2> QED
    BY <2>1
<1>2. /\ Sound(Now) /\ Capped(stack') /\ FailureStep /\ BulkStep
      /\ Contents' = Contents /\ Ceiling' = Ceiling
  BY IdleFacts
<1>3. Lifo!Reply({"pop", "peek"}, "EMPTY", 0, <<>>) \/ Lifo!Reply({"pop_ptr", "peek_ptr"}, "EMPTY", 0, <<Null>>)
  BY ReplyFacts
<1>4. Lifo!Empty
  BY <1>1, <1>2, <1>3 DEF Lifo!Empty
<1> QED
  BY <1>2, <1>4 DEF Stepped, Lifo!Next

LEMMA MisuseSteps ==
  ASSUME Inv, NEW op \in {"pop_ptr", "peek_ptr", "at"}, Answer(op, W, "INVALID", 0, 0, <<>>)
  PROVE  Stepped
<1>1. /\ Sound(Now) /\ Capped(stack') /\ FailureStep /\ BulkStep
      /\ Contents' = Contents /\ Ceiling' = Ceiling
  BY IdleFacts
<1>2. Lifo!Reply({"pop_ptr", "peek_ptr", "at"}, "INVALID", 0, <<>>)
  BY ReplyFacts
<1>3. Lifo!Misuse
  BY <1>1, <1>2 DEF Lifo!Misuse
<1> QED
  BY <1>1, <1>3 DEF Stepped, Lifo!Next

LEMMA SeenSteps ==
  ASSUME Inv, NEW depth \in Nat, depth < stack.top, NEW op,
         op = "at" \/ (op \in {"peek", "peek_ptr"} /\ depth = 0),
         Answer(op, W, "OK", 0, 0, <<At(W, depth)>>)
  PROVE  Stepped
<1>1. /\ Contents \in Seq(Values) /\ Len(Contents) = stack.top /\ stack.top \in Nat
      /\ \A i \in 1 .. stack.top : Contents[i] = W.blocks[stack.buffer].slots[i]
  BY CbFacts, WFacts, ItemsFacts, Mapped DEF Inv
<1>2. stack.top - depth \in DOMAIN Contents /\ Contents # <<>>
  BY <1>1
<1>3. At(W, depth) = Contents[stack.top - depth]
  BY <1>1, <1>2, WFacts DEF At
<1>4. /\ Sound(Now) /\ Capped(stack') /\ FailureStep /\ BulkStep
      /\ Contents' = Contents /\ Ceiling' = Ceiling
  BY IdleFacts
<1>5. CASE op = "at"
  <2>1. Lifo!Reply({"at"}, "OK", 0, <<Contents[stack.top - depth]>>)
    BY <1>3, <1>5, ReplyFacts
  <2>2. Lifo!Peek
    BY <1>2, <1>4, <2>1 DEF Lifo!Peek
  <2> QED
    BY <1>4, <2>2 DEF Stepped, Lifo!Next
<1>6. CASE op # "at"
  <2>1. Last(Contents) = At(W, depth)
    BY <1>1, <1>3, <1>6 DEF Last
  <2>2. Lifo!Reply({"peek", "peek_ptr"}, "OK", 0, <<Last(Contents)>>)
    BY <1>6, <2>1, ReplyFacts
  <2>3. Lifo!Peek
    BY <1>2, <1>4, <2>2 DEF Lifo!Peek, Lifo!Last, Last
  <2> QED
    BY <1>4, <2>3 DEF Stepped, Lifo!Next
<1> QED
  BY <1>5, <1>6

LEMMA PeekSteps ==
  ASSUME Inv, Peek \/ PeekPtr \/ \E depth \in 0 .. SizeMax : ViewAt(depth)
  PROVE  Stepped
<1>1. stack.top \in Nat
  BY CbFacts, WFacts DEF Inv
<1>2. CASE Peek
  BY <1>1, <1>2, EmptySteps, SeenSteps DEF Peek, Commit
<1>3. CASE PeekPtr
  BY <1>1, <1>3, EmptySteps, MisuseSteps, SeenSteps DEF PeekPtr, Commit
<1>4. ASSUME NEW depth \in 0 .. SizeMax, ViewAt(depth) PROVE Stepped
  <2>1. depth \in Nat
    BY MemoryAssumption
  <2> QED
    BY <1>1, <1>4, <2>1, MisuseSteps, SeenSteps DEF ViewAt, Commit
<1> QED
  BY <1>2, <1>3, <1>4

LEMMA TakenSteps ==
  ASSUME Inv, NEW n \in Nat, n <= stack.top, NEW op,
         op = "pop_bulk" \/ (n = 1 /\ op \in {"pop", "pop_ptr"}),
         NEW out \in {<<>>, Popped(W, n)},
         Answer(op, [W EXCEPT !.cb.top = stack.top - n], "OK", 0, n, out)
  PROVE  Stepped
<1> DEFINE t == stack.top - n
           w == [W EXCEPT !.cb.top = t]
<1>1. /\ Contents \in Seq(Values) /\ Len(Contents) = stack.top /\ stack.top \in Nat
      /\ \A i \in 1 .. stack.top : Contents[i] = W.blocks[stack.buffer].slots[i]
  BY CbFacts, WFacts, ItemsFacts, Mapped DEF Inv
<1>2. LoweredEnds(W, t, w)
  BY <1>1, LowerFacts, WFacts DEF Inv
<1> HIDE DEF w
<1>3. Sound(w) /\ Capped(w.cb) /\ SameSettings(w.cb, stack) /\ Items(w) = SubSeq(Contents, 1, t)
  BY <1>2, WFacts, Mapped DEF LoweredEnds, Capped, SameSettings, Inv
<1>4. /\ Sound(Now) /\ Capped(stack') /\ FailureStep /\ BulkStep
      /\ Contents' = SubSeq(Contents, 1, t) /\ Ceiling' = Ceiling
  BY <1>3, OkFacts DEF w
<1>5. Popped(W, n) = Reverse(SubSeq(Contents, t + 1, stack.top))
  <2> DEFINE s == SubSeq(Contents, t + 1, stack.top)
             a == Popped(W, n)
             b == Reverse(s)
  <2>0. t \in Nat /\ t + n = stack.top
    BY <1>1
  <2>1. Len(s) = n /\ s \in Seq(Values) /\ \A i \in 1 .. n : s[i] = Contents[t + i]
    <3>1. Contents \in Seq(Values) /\ stack.top = t + n /\ stack.top = Len(Contents) /\ t \in Nat
      BY <1>1, <2>0
    <3> HIDE DEF t
    <3>2. s \in Seq(Values) /\ Len(s) = n
      BY <3>1, SuffixFacts
    <3>2a. s = SubSeq(Contents, t + 1, stack.top)
      OBVIOUS
    <3> HIDE DEF s
    <3>3. ASSUME NEW i \in 1 .. n PROVE s[i] = Contents[t + i]
      BY <3>1, <3>2a, SuffixAt
    <3> QED
      BY <3>2, <3>3
  <2> HIDE DEF s
  <2>2. b = [i \in 1 .. n |-> s[(n - i) + 1]]
    BY <2>1 DEF Reverse
  <2>3. a = [i \in 1 .. n |-> W.blocks[stack.buffer].slots[stack.top - (i - 1)]]
    BY WFacts DEF Popped, At
  <2>4. ASSUME NEW i \in 1 .. n
        PROVE  W.blocks[stack.buffer].slots[stack.top - (i - 1)] = s[(n - i) + 1]
    <3>1. (n - i) + 1 \in 1 .. n /\ stack.top - (i - 1) = t + ((n - i) + 1) /\ stack.top - (i - 1) \in 1 .. stack.top
      <4> HIDE DEF t
      <4> QED
        BY <1>1, <2>0
    <3> QED
      BY <1>1, <2>1, <3>1
  <2> HIDE DEF a, b
  <2>5. a = b
    BY <2>2, <2>3, <2>4
  <2> QED
    BY <2>5 DEF a, b, s
<1>6. out \in {<<>>, Reverse(SubSeq(Contents, t + 1, stack.top))}
  BY <1>5
<1>7. Lifo!Reply(IF n = 1 THEN {"pop", "pop_ptr", "pop_bulk"} ELSE {"pop_bulk"}, "OK", n, out)
  BY ReplyFacts
<1>8. Lifo!Pop
  <2>1. n \in 0 .. Len(Contents) /\ Len(Contents) - n = t
    BY <1>1
  <2> QED
    BY <1>1, <1>4, <1>6, <1>7, <2>1 DEF Lifo!Pop, Lifo!Reverse, Reverse
<1> QED
  BY <1>4, <1>8 DEF Stepped, Lifo!Next

LEMMA PopSteps ==
  ASSUME Inv,
         \/ \E wanted \in BOOLEAN : Pop(wanted)
         \/ PopPtr
         \/ \E count \in 0 .. SizeMax, wanted \in BOOLEAN : PopBulk(count, wanted)
  PROVE  Stepped
<1>1. stack.top \in Nat /\ W.cb.top = stack.top /\ SizeMax \in Nat
  BY CbFacts, WFacts, MemoryAssumption DEF Inv
<1>2. ASSUME NEW wanted \in BOOLEAN, Pop(wanted) PROVE Stepped
  <2>1. CASE stack.top = 0
    BY <1>2, <2>1, EmptySteps DEF Pop, Commit
  <2>2. CASE stack.top # 0
    <3>0. Answer("pop", [W EXCEPT !.cb.top = @ - 1], "OK", 0, 1, IF wanted THEN Popped(W, 1) ELSE <<>>)
      BY <1>2, <2>2 DEF Pop, Commit
    <3>1. [W EXCEPT !.cb.top = @ - 1] = [W EXCEPT !.cb.top = stack.top - 1]
      BY <1>1
    <3>2. Answer("pop", [W EXCEPT !.cb.top = stack.top - 1], "OK", 0, 1, IF wanted THEN Popped(W, 1) ELSE <<>>)
      BY <3>0, <3>1
    <3>3. (IF wanted THEN Popped(W, 1) ELSE <<>>) \in {<<>>, Popped(W, 1)} /\ 1 \in Nat /\ 1 <= stack.top
      BY <1>1, <2>2
    <3> QED
      BY <3>2, <3>3, TakenSteps
  <2> QED
    BY <2>1, <2>2
<1>3. CASE PopPtr
  <2>1. CASE ~stack.ptr_mode
    BY <1>3, <2>1, MisuseSteps DEF PopPtr, Commit
  <2>2. CASE stack.ptr_mode /\ stack.top = 0
    BY <1>3, <2>2, EmptySteps DEF PopPtr, Commit
  <2>3. CASE stack.ptr_mode /\ stack.top # 0
    <3>1. Answer("pop_ptr", [W EXCEPT !.cb.top = stack.top - 1], "OK", 0, 1, Popped(W, 1))
      BY <1>1, <1>3, <2>3 DEF PopPtr, Commit
    <3> QED
      BY <1>1, <2>3, <3>1, TakenSteps
  <2> QED
    BY <2>1, <2>2, <2>3
<1>4. ASSUME NEW count \in 0 .. SizeMax, NEW wanted \in BOOLEAN, PopBulk(count, wanted) PROVE Stepped
  <2> DEFINE n == IF count < stack.top THEN count ELSE stack.top
  <2>1. n \in Nat /\ n <= stack.top
    BY <1>1
  <2>2. Answer("pop_bulk", [W EXCEPT !.cb.top = stack.top - n], "OK", 0, n, IF wanted THEN Popped(W, n) ELSE <<>>)
    BY <1>1, <1>4 DEF PopBulk, Commit
  <2> HIDE DEF n
  <2> QED
    BY <1>1, <2>1, <2>2, TakenSteps
<1> QED
  BY <1>2, <1>3, <1>4

(* A resize that keeps to the ceiling. *)
LEMMA ResizeSteps ==
  ASSUME Inv, NEW op, NEW r, r.status \in {"OK", "FULL", "NOMEM", "OVERFLOW"}, GrowEnds(W, r),
         r.status # "OK" => r.w.cb = W.cb /\ r.w.blocks = W.blocks,
         op = "reserve" \/ (op = "shrink" /\ r.status # "FULL"),
         Answer(op, r.w, r.status, 0, 0, <<>>)
  PROVE  Stepped
<1>1. Sound(r.w) /\ Capped(r.w.cb) /\ SameSettings(r.w.cb, stack) /\ Items(r.w) = Contents
  BY WFacts, Mapped DEF GrowEnds
<1>2. Sound(Now) /\ Capped(stack') /\ Contents' = Contents
  BY <1>1, AnswerFacts
<1>3. Ceiling' = Ceiling
  <2>1. Ceiling' = Ceil(r.w.cb)
    BY <1>1, AnswerFacts
  <2> QED
    BY <1>1, <2>1, SameCeil, Mapped
<1>4. last'.op = op /\ last'.status = r.status /\ stack' = r.w.cb /\ blocks' = r.w.blocks
  BY <1>1, AnswerFacts
<1>5. FailureStep
  <2>1. CASE r.status = "OK"
    BY <1>4, <2>1 DEF FailureStep
  <2>2. CASE r.status # "OK"
    BY <1>4, <2>2, UnchangedFailure, WFacts
  <2> QED
    BY <2>1, <2>2
<1>6. BulkStep
  BY <1>4 DEF BulkStep
<1>7. Lifo!Reply({op}, r.status, 0, <<>>)
  BY ReplyFacts
<1>8. Lifo!Resize
  BY <1>2, <1>3, <1>7 DEF Lifo!Resize, Lifo!MemoryRefusals
<1> QED
  BY <1>2, <1>5, <1>6, <1>8 DEF Stepped, Lifo!Next

LEMMA ReserveSteps ==
  ASSUME Inv, NEW capacity \in 0 .. SizeMax, Reserve(capacity)
  PROVE  Stepped
<1> DEFINE pinned == ~stack.growable \/ (stack.max_capacity # 0 /\ capacity > stack.max_capacity)
<1>1. /\ Sound(W) /\ Capped(W.cb) /\ W.cb = stack /\ stack.top <= stack.capacity
      /\ stack.top \in Nat /\ stack.capacity \in 0 .. SizeMax /\ SizeMax \in Nat
  BY CbFacts, WFacts, MemoryAssumption DEF Inv, Sound
<1>2. PICK r \in IF capacity <= stack.capacity THEN {Ends(W, "OK")}
                 ELSE IF pinned THEN {Ends(W, "FULL")}
                 ELSE SetCapacity(W, capacity) :
        Answer("reserve", r.w, r.status, 0, 0, <<>>)
  BY DEF Reserve, Commit
<1>3. /\ GrowEnds(W, r) /\ r.status \in {"OK", "FULL", "NOMEM", "OVERFLOW"}
      /\ r.status # "OK" => r.w.cb = W.cb /\ r.w.blocks = W.blocks
  <2>1. CASE capacity <= stack.capacity \/ pinned
    <3>1. r = Ends(W, "OK") \/ r = Ends(W, "FULL")
      BY <1>2, <2>1
    <3> QED
      BY <1>1, <3>1, UngrownFacts DEF Ends
  <2>2. CASE ~(capacity <= stack.capacity) /\ ~pinned
    <3>1. r \in SetCapacity(W, capacity) /\ stack.growable
      BY <1>2, <2>2
    <3>2. stack.elem_size # 0
      BY <1>1, <3>1 DEF Sound, Settled
    <3>3. SetCapacityEnds(W, capacity, r)
      BY <1>1, <3>1, <3>2, SetCapacityFacts
    <3>4. capacity <= Ceil(stack)
      <4>1. stack.max_capacity \in Nat
        BY <1>1, CbFacts
      <4> QED
        BY <1>1, <2>2, <3>1, <4>1 DEF Ceil
    <3>5. GrowEnds(W, r)
      BY <1>1, <3>1, <3>3, <3>4, GrownFacts
    <3>6. r.status \in {"OK", "NOMEM", "OVERFLOW"}
      BY <1>1, <2>2, <3>3 DEF SetCapacityEnds
    <3> QED
      BY <3>3, <3>5, <3>6 DEF SetCapacityEnds
  <2> QED
    BY <2>1, <2>2
<1> QED
  BY <1>2, <1>3, ResizeSteps

LEMMA ShrinkSteps ==
  ASSUME Inv, ShrinkToFit
  PROVE  Stepped
<1>1. /\ Sound(W) /\ Capped(W.cb) /\ W.cb = stack /\ stack.top <= stack.capacity
      /\ stack.top \in Nat /\ stack.capacity \in 0 .. SizeMax /\ SizeMax \in Nat
      /\ Ceil(stack) \in 0 .. SizeMax /\ stack.capacity <= Ceil(stack)
  BY CbFacts, CeilFacts, WFacts, MemoryAssumption DEF Inv, Sound
<1>2. PICK r \in IF ~stack.growable \/ stack.capacity = stack.top THEN {Ends(W, "OK")}
                 ELSE SetCapacity(W, stack.top) :
        Answer("shrink", r.w, r.status, 0, 0, <<>>)
  BY DEF ShrinkToFit, Commit
<1>3. /\ GrowEnds(W, r) /\ r.status \in {"OK", "NOMEM", "OVERFLOW"}
      /\ r.status # "OK" => r.w.cb = W.cb /\ r.w.blocks = W.blocks
  <2>1. CASE ~stack.growable \/ stack.capacity = stack.top
    <3>1. r = Ends(W, "OK")
      BY <1>2, <2>1
    <3> QED
      BY <1>1, <3>1, UngrownFacts DEF Ends
  <2>2. CASE stack.growable /\ stack.capacity # stack.top
    <3>1. r \in SetCapacity(W, stack.top)
      BY <1>2, <2>2
    <3>2. stack.elem_size # 0 /\ stack.top \in 0 .. SizeMax /\ stack.top <= Ceil(stack)
      BY <1>1, <2>2 DEF Sound, Settled
    <3>3. SetCapacityEnds(W, stack.top, r)
      BY <1>1, <3>1, <3>2, SetCapacityFacts
    <3>4. GrowEnds(W, r)
      BY <1>1, <2>2, <3>2, <3>3, GrownFacts
    <3>5. r.status \in {"OK", "NOMEM", "OVERFLOW"}
      BY <1>1, <3>3 DEF SetCapacityEnds
    <3> QED
      BY <3>3, <3>4, <3>5 DEF SetCapacityEnds
  <2> QED
    BY <2>1, <2>2
<1> QED
  BY <1>2, <1>3, ResizeSteps

(* The contents are dropped before the resize. *)
LEMMA ResetSteps ==
  ASSUME Inv, Reset
  PROVE  Stepped
<1> DEFINE w == [W EXCEPT !.cb.top = 0]
           n == stack.initial_capacity
<1>1. /\ Sound(W) /\ Capped(W.cb) /\ W.cb = stack /\ W.blocks = blocks
      /\ stack.top \in Nat /\ n \in 0 .. SizeMax /\ SizeMax \in Nat /\ stack.max_capacity \in 0 .. SizeMax
  BY CbFacts, WFacts, MemoryAssumption DEF Inv
<1>2. PICK r \in SetCapacity(w, n) : Answer("reset", r.w, r.status, 0, 0, <<>>)
  BY DEF Reset, Commit
<1>3. LoweredEnds(W, 0, w)
  BY <1>1, LowerFacts
<1> HIDE DEF w
<1>4. /\ Sound(w) /\ SameSettings(w.cb, stack) /\ w.cb = [stack EXCEPT !.top = 0] /\ w.blocks = blocks
      /\ w.cb.top = 0 /\ w.cb.capacity = stack.capacity
  BY <1>1, <1>3 DEF LoweredEnds
<1>5. Items(w) = <<>>
  <2>1. Items(w) = SubSeq(Items(W), 1, 0) /\ Items(W) \in Seq(Values)
    BY <1>1, <1>3, ItemsFacts DEF LoweredEnds
  <2> QED
    BY <2>1
<1>6. w.cb.elem_size # 0 \/ n = w.cb.capacity
  BY <1>1, <1>4 DEF Sound, Settled, SameSettings
<1>7. SetCapacityEnds(w, n, r)
  BY <1>1, <1>2, <1>4, <1>6, SetCapacityFacts
<1>8. Sound(r.w) /\ SameSettings(r.w.cb, stack) /\ Items(r.w) = <<>>
  BY <1>4, <1>5, <1>7 DEF SetCapacityEnds, SameSettings
<1>9. Capped(r.w.cb)
  <2>1. CASE r.status = "OK"
    <3>1. r.w.cb.capacity = n
      BY <1>7, <2>1 DEF SetCapacityEnds
    <3>2. stack.max_capacity # 0 => n <= stack.max_capacity
      BY <1>1 DEF Sound, Settled
    <3> QED
      BY <1>8, <3>1, <3>2 DEF Capped, SameSettings
  <2>2. CASE r.status # "OK"
    <3>1. r.w.cb = w.cb
      BY <1>7, <2>2 DEF SetCapacityEnds
    <3> QED
      BY <1>1, <1>4, <3>1 DEF Capped, SameSettings
  <2> QED
    BY <2>1, <2>2
<1>10. Sound(Now) /\ Capped(stack') /\ Contents' = <<>>
  BY <1>2, <1>8, <1>9, AnswerFacts
<1>11. Ceiling' = Ceiling
  <2>1. Ceiling' = Ceil(r.w.cb)
    BY <1>2, <1>8, <1>9, AnswerFacts
  <2> QED
    BY <1>8, <2>1, SameCeil, Mapped
<1>12. last'.op = "reset" /\ last'.status = r.status /\ stack' = r.w.cb /\ blocks' = r.w.blocks
  BY <1>2, <1>8, <1>9, AnswerFacts
<1>13. FailureStep
  <2>1. r.status # "OK" => stack' = [stack EXCEPT !.top = 0] /\ blocks' = blocks
    BY <1>4, <1>7, <1>12 DEF SetCapacityEnds
  <2> QED
    BY <1>12, <2>1 DEF FailureStep
<1>14. BulkStep
  BY <1>12 DEF BulkStep
<1>15. r.status \in {"OK", "NOMEM", "OVERFLOW"}
  BY <1>1, <1>4, <1>7 DEF SetCapacityEnds
<1>16. Lifo!Reply({"reset"}, r.status, 0, <<>>)
  BY <1>2, ReplyFacts
<1>17. Lifo!Drop
  BY <1>10, <1>11, <1>15, <1>16 DEF Lifo!Drop, Lifo!MemoryRefusals
<1> QED
  BY <1>10, <1>13, <1>14, <1>17 DEF Stepped, Lifo!Next

LEMMA PushRefusedSteps ==
  ASSUME Inv, NEW r, Sound(r.w), r.w.cb = stack, r.w.blocks = blocks, Items(r.w) = Contents,
         \/ r.status = "INVALID"
         \/ r.status \in {"NOMEM", "OVERFLOW"} /\ stack.top < Ceil(stack)
         \/ r.status = "FULL" /\ stack.top = Ceil(stack),
         Answer("push", r.w, r.status, 1, 0, <<>>)
  PROVE  Stepped
<1>1. Capped(r.w.cb)
  BY DEF Inv
<1>2. Sound(Now) /\ Capped(stack') /\ Contents' = Contents
  BY <1>1, AnswerFacts
<1>3. Ceiling' = Ceiling
  <2>1. Ceiling' = Ceil(r.w.cb)
    BY <1>1, AnswerFacts
  <2> QED
    BY <2>1, Mapped
<1>4. last'.op = "push" /\ last'.status = r.status /\ stack' = stack /\ blocks' = blocks
  BY <1>1, AnswerFacts
<1>5. FailureStep /\ BulkStep
  BY <1>4, UnchangedFailure DEF BulkStep
<1>6. Len(Contents) = stack.top /\ stack.top \in Nat /\ Ceil(stack) \in 0 .. SizeMax
  BY CbFacts, CeilFacts, WFacts, ItemsFacts, Mapped DEF Inv
<1>7. r.status \in {"INVALID"} \cup (IF Len(Contents) < Ceiling THEN {"NOMEM", "OVERFLOW"} ELSE {"FULL"})
  BY <1>6, Mapped, MemoryAssumption
<1>8. Lifo!Reply({"push"}, r.status, 0, <<>>)
  BY ReplyFacts
<1>9. Lifo!PushRefused
  BY <1>2, <1>3, <1>7, <1>8 DEF Lifo!PushRefused, Lifo!MemoryRefusals
<1> QED
  BY <1>2, <1>5, <1>9 DEF Stepped, Lifo!Next

LEMMA PushSteps ==
  ASSUME Inv, NEW v \in Values, Push(v)
  PROVE  Stepped
<1>1. /\ Sound(W) /\ Capped(W.cb) /\ W.cb = stack /\ W.blocks = blocks /\ Capped(stack)
      /\ stack.top \in Nat /\ stack.capacity \in 0 .. SizeMax /\ SizeMax \in Nat /\ stack.top <= stack.capacity
      /\ Ceil(stack) \in 0 .. SizeMax /\ stack.capacity <= Ceil(stack)
  BY CbFacts, CeilFacts, WFacts, MemoryAssumption DEF Inv, Sound
<1>2. PICK r \in IF stack.top = stack.capacity THEN GrowForPush(W) ELSE {Ends(W, "OK")} :
        IF r.status = "OK" THEN Answer("push", Store(r.w, <<v>>), "OK", 1, 1, <<>>)
        ELSE Answer("push", r.w, r.status, 1, 0, <<>>)
  BY DEF Push, PushCommit
<1>3. PushGrowEnds(W, r)
  <2>1. CASE stack.top = stack.capacity
    BY <1>1, <1>2, <2>1, GrowForPushFacts
  <2>2. CASE stack.top # stack.capacity
    <3>1. r = Ends(W, "OK") /\ r.w = W /\ r.status = "OK"
      BY <1>2, <2>2 DEF Ends
    <3>2. GrowEnds(W, r)
      BY <1>1, <3>1, UngrownFacts
    <3>3. stack.top < stack.capacity /\ stack.top < Ceil(stack)
      BY <1>1, <2>2
    <3> QED
      BY <1>1, <3>1, <3>2, <3>3 DEF PushGrowEnds
  <2> QED
    BY <2>1, <2>2
<1>4. /\ Sound(r.w) /\ Capped(r.w.cb) /\ SameSettings(r.w.cb, stack) /\ r.w.cb.top = stack.top
      /\ Items(r.w) = Contents
  BY <1>1, <1>3, Mapped DEF PushGrowEnds, GrowEnds
<1>5. CASE r.status = "OK"
  <2> DEFINE u == Store(r.w, <<v>>)
  <2>1. <<v>> \in Seq(Values) /\ <<v>> # <<>> /\ Len(<<v>>) = 1
    OBVIOUS
  <2>2. stack.top < r.w.cb.capacity /\ r.w.cb.capacity \in Nat /\ stack.top < Ceil(stack)
    BY <1>1, <1>3, <1>4, <1>5, CbFacts DEF PushGrowEnds
  <2>3. r.w.cb.top + Len(<<v>>) <= r.w.cb.capacity
    BY <1>1, <1>4, <2>1, <2>2
  <2>4. StoreEnds(r.w, <<v>>, u)
    BY <1>4, <2>1, <2>3, StoreFacts
  <2>5. Answer("push", u, "OK", 1, 1, <<>>)
    BY <1>2, <1>5
  <2> HIDE DEF u
  <2>6. Sound(u) /\ Capped(u.cb) /\ SameSettings(u.cb, stack) /\ Items(u) = Contents \o <<v>>
    BY <1>4, <2>4 DEF StoreEnds, Capped, SameSettings
  <2>7. /\ Sound(Now) /\ Capped(stack') /\ FailureStep /\ BulkStep
        /\ Contents' = Contents \o <<v>> /\ Ceiling' = Ceiling
    BY <2>5, <2>6, OkFacts
  <2>8. Lifo!Reply({"push"}, "OK", 1, <<>>)
    BY <2>5, ReplyFacts
  <2>9. Contents \in Seq(Values) /\ Len(Contents) = stack.top /\ Ceiling = Ceil(stack)
    BY <1>1, ItemsFacts, Mapped
  <2>10. Contents \o <<v>> = Append(Contents, v)
    BY <2>9
  <2>11. Lifo!Push
    BY <2>2, <2>7, <2>8, <2>9, <2>10 DEF Lifo!Push
  <2> QED
    BY <2>7, <2>11 DEF Stepped, Lifo!Next
<1>6. CASE r.status # "OK"
  <2>1. Answer("push", r.w, r.status, 1, 0, <<>>) /\ r.w.cb = stack /\ r.w.blocks = blocks
    BY <1>1, <1>2, <1>3, <1>6 DEF PushGrowEnds
  <2>2. \/ r.status \in {"NOMEM", "OVERFLOW"} /\ stack.top < Ceil(stack)
        \/ r.status = "FULL" /\ stack.top = Ceil(stack)
    BY <1>1, <1>3, <1>6 DEF PushGrowEnds
  <2> QED
    BY <1>4, <2>1, <2>2, PushRefusedSteps
<1> QED
  BY <1>5, <1>6

LEMMA PushPtrSteps ==
  ASSUME Inv, NEW v \in Values, PushPtr(v)
  PROVE  Stepped
<1>1. CASE stack.ptr_mode
  BY <1>1, PushSteps DEF PushPtr
<1>2. CASE ~stack.ptr_mode
  <2> DEFINE r == Ends(W, "INVALID")
  <2>1. r.w = W /\ r.status = "INVALID"
    BY DEF Ends
  <2>2. Answer("push", r.w, r.status, 1, 0, <<>>)
    BY <1>2, <2>1 DEF PushPtr, PushCommit
  <2> HIDE DEF r
  <2>3. Sound(r.w) /\ r.w.cb = stack /\ r.w.blocks = blocks /\ Items(r.w) = Contents
    BY <2>1, WFacts, Mapped DEF Inv
  <2> QED
    BY <2>1, <2>2, <2>3, PushRefusedSteps
<1> QED
  BY <1>1, <1>2

(* What the bulk push has to work with. *)
BulkRoom(batch, r) ==
  /\ GrowEnds(W, r)
  /\ \/ r.w.cb.capacity - r.w.cb.top >= Len(batch)
     \/ r.w.cb.capacity = Ceil(stack)
     \/ "refused" \in r.w.calls
     \/ ~BytesFit(stack.top + Len(batch), stack.elem_size)

LEMMA BulkRoomFacts ==
  ASSUME Inv, NEW batch \in Seq(Values),
         NEW r \in IF Len(batch) > 0 /\ BulkGrows(Len(batch)) THEN GrowForBulk(W, stack.top + Len(batch))
                   ELSE {Ends(W, "OK")}
  PROVE  BulkRoom(batch, r)
<1> DEFINE count == Len(batch)
<1>1. /\ Sound(W) /\ Capped(W.cb) /\ W.cb = stack /\ Capped(stack)
      /\ stack.top \in Nat /\ stack.capacity \in 0 .. SizeMax /\ SizeMax \in Nat /\ stack.top <= stack.capacity
      /\ count \in Nat /\ stack.elem_size \in Nat
  BY CbFacts, WFacts, MemoryAssumption DEF Inv, Sound
<1>2. CASE count > 0 /\ BulkGrows(count)
  <2> DEFINE needed == stack.top + count
  <2>1. r \in GrowForBulk(W, needed)
    BY <1>2
  <2>2. stack.growable /\ needed \in 0 .. SizeMax /\ stack.capacity < needed
    BY <1>1, <1>2 DEF BulkGrows
  <2> HIDE DEF needed
  <2>3. GrowEnds(W, r) /\ Enough(W, needed, r)
    BY <1>1, <2>1, <2>2, GrowForBulkFacts
  <2>4. r.w.cb.top = stack.top /\ r.w.cb.capacity \in Nat
    BY <1>1, <2>3, CbFacts DEF GrowEnds
  <2>5. r.w.cb.capacity >= needed => r.w.cb.capacity - r.w.cb.top >= count
    BY <1>1, <2>4 DEF needed
  <2> QED
    BY <1>1, <2>3, <2>5 DEF Enough, BulkRoom, needed
<1>3. CASE ~(count > 0 /\ BulkGrows(count))
  <2>1. r = Ends(W, "OK") /\ r.w = W
    BY <1>3 DEF Ends
  <2>2. GrowEnds(W, r)
    BY <1>1, <2>1, UngrownFacts
  <2>3. CASE stack.capacity - stack.top >= count
    BY <1>1, <2>1, <2>2, <2>3 DEF BulkRoom
  <2>4. CASE ~(stack.capacity - stack.top >= count)
    <3>1. stack.capacity - stack.top < count /\ count > 0
      BY <1>1, <2>4
    <3>2. CASE ~stack.growable
      BY <1>1, <2>1, <2>2, <3>2 DEF BulkRoom, Capped, Ceil
    <3>3. CASE stack.growable
      <4>1. ~(count <= SizeMax - stack.top)
        BY <1>3, <3>1, <3>3 DEF BulkGrows
      <4>2. stack.elem_size # 0
        BY <1>1, <3>3 DEF Sound, Settled
      <4> DEFINE m == stack.top + count
      <4>3. m \in Nat /\ m > SizeMax
        BY <1>1, <4>1
      <4>4. m * stack.elem_size > SizeMax
        <5> HIDE DEF m
        <5>1. m * stack.elem_size >= m
          BY <1>1, <4>2, <4>3
        <5>2. m * stack.elem_size \in Nat
          BY <1>1, <4>3
        <5> QED
          BY <1>1, <4>3, <5>1, <5>2
      <4>5. ~BytesFit(m, stack.elem_size)
        <5> HIDE DEF m
        <5>1. ~(m * stack.elem_size <= SizeMax)
          BY <1>1, <4>3, <4>4
        <5> QED
          BY <1>1, <4>3, <5>1, BytesFitFacts
      <4> QED
        BY <2>2, <4>5 DEF BulkRoom
    <3> QED
      BY <3>2, <3>3
  <2> QED
    BY <2>3, <2>4
<1> QED
  BY <1>2, <1>3

LEMMA PushBulkSteps ==
  ASSUME Inv, NEW batch \in Batches, PushBulk(batch)
  PROVE  Stepped
<1> DEFINE count == Len(batch)
           room(r) == r.w.cb.capacity - r.w.cb.top
           fits(r) == IF count < room(r) THEN count ELSE room(r)
           u(r) == IF fits(r) = 0 THEN r.w ELSE Store(r.w, SubSeq(batch, 1, fits(r)))
<1>1. batch \in Seq(Values) /\ count \in Nat
  BY StackAssumption
<1>2. /\ Sound(W) /\ W.cb = stack /\ stack.top \in Nat /\ SizeMax \in Nat /\ W.calls = {}
      /\ Contents \in Seq(Values) /\ Len(Contents) = stack.top /\ Ceiling = Ceil(stack)
  BY CbFacts, WFacts, ItemsFacts, Mapped, MemoryAssumption DEF Inv
<1>3. PICK r \in IF count > 0 /\ BulkGrows(count) THEN GrowForBulk(W, stack.top + count)
                 ELSE {Ends(W, "OK")} :
        Answer("push_bulk", u(r), "OK", count, fits(r), <<>>)
  BY DEF PushBulk, PushCommit
<1>4. BulkRoom(batch, r)
  BY <1>1, <1>3, BulkRoomFacts
<1>5. /\ Sound(r.w) /\ Capped(r.w.cb) /\ SameSettings(r.w.cb, stack) /\ r.w.cb.top = stack.top
      /\ Items(r.w) = Contents
  BY <1>2, <1>4, Mapped DEF BulkRoom, GrowEnds
<1>6. /\ r.w.cb.capacity \in 0 .. SizeMax /\ stack.top <= r.w.cb.capacity
      /\ Ceil(r.w.cb) \in 0 .. SizeMax /\ r.w.cb.capacity <= Ceil(r.w.cb) /\ Ceil(r.w.cb) = Ceil(stack)
  BY <1>5, CbFacts, CeilFacts, SameCeil DEF Sound
<1> DEFINE n == fits(r)
           part == SubSeq(batch, 1, n)
           w == u(r)
<1>7. n \in Nat /\ n <= count /\ stack.top + n <= r.w.cb.capacity
      /\ (n < count => stack.top + n = r.w.cb.capacity /\ ~(room(r) >= count))
  BY <1>1, <1>2, <1>5, <1>6
<1>8. w = IF n = 0 THEN r.w ELSE Store(r.w, part)
  OBVIOUS
<1>9. Answer("push_bulk", w, "OK", count, n, <<>>)
  BY <1>3
<1>10. (n < count => ~(r.w.cb.capacity - r.w.cb.top >= count))
  BY <1>7
<1> HIDE DEF n, w
<1>11. part \in Seq(Values) /\ Len(part) = n
  BY <1>1, <1>7
<1>12. /\ Sound(w) /\ Capped(w.cb) /\ SameSettings(w.cb, stack) /\ w.cb.top = stack.top + n
       /\ Items(w) = Contents \o part /\ w.calls = r.w.calls
  <2>1. CASE n = 0
    <3>1. part = <<>>
      BY <1>11, <2>1
    <3>2. Contents \o <<>> = Contents
      BY <1>2
    <3> QED
      BY <1>2, <1>5, <1>8, <2>1, <3>1, <3>2
  <2>2. CASE n # 0
    <3> HIDE DEF part
    <3>1. part # <<>> /\ r.w.cb.top + Len(part) <= r.w.cb.capacity
      BY <1>5, <1>7, <1>11, <2>2
    <3>2. StoreEnds(r.w, part, w)
      BY <1>5, <1>8, <1>11, <2>2, <3>1, StoreFacts
    <3> QED
      BY <1>5, <1>11, <3>2 DEF StoreEnds, Capped, SameSettings
  <2> QED
    BY <2>1, <2>2
<1>13. Sound(Now) /\ Capped(stack') /\ Contents' = Contents \o part
  BY <1>9, <1>12, AnswerFacts
<1>14. Ceiling' = Ceiling
  <2>1. Ceiling' = Ceil(w.cb)
    BY <1>9, <1>12, AnswerFacts
  <2> QED
    BY <1>2, <1>12, <2>1, SameCeil
<1>15. /\ last'.op = "push_bulk" /\ last'.status = "OK" /\ last'.asked = count /\ last'.n = n
       /\ last'.calls = w.calls /\ stack' = w.cb
  BY <1>9, <1>12, AnswerFacts
<1>16. FailureStep
  BY <1>15 DEF FailureStep
<1>17. BulkStep
  <2>1. CASE n < count
    BY <1>2, <1>4, <1>7, <1>10, <1>12, <1>15, <2>1 DEF BulkStep, BulkRoom
  <2>2. CASE ~(n < count)
    BY <1>15, <2>2 DEF BulkStep
  <2> QED
    BY <2>1, <2>2
<1>18. Lifo!Reply({"push_bulk"}, "OK", n, <<>>)
  BY <1>9, ReplyFacts
<1>19. n \in 0 .. Ceiling - Len(Contents) /\ n <= Len(batch)
  BY <1>1, <1>2, <1>6, <1>7
<1>20. Lifo!PushBulk(Batches)
  BY <1>13, <1>14, <1>18, <1>19 DEF Lifo!PushBulk
<1> QED
  BY <1>13, <1>16, <1>17, <1>20 DEF Stepped, Lifo!Next

(* A control block without a block of memory. *)
LEMMA BareSound ==
  ASSUME NEW w \in Worlds, w.contract, DOMAIN w.blocks = {}, Settled(w.cb),
         w.cb.buffer = Null, w.cb.top = 0, w.cb.capacity = 0
  PROVE  Sound(w) /\ Items(w) = <<>>
  BY DEF Sound, Items

LEMMA ZeroedFacts ==
  /\ Zeroed \in ControlBlocks /\ Settled(Zeroed) /\ Capped(Zeroed) /\ Ceil(Zeroed) = 0
  /\ Zeroed.buffer = Null /\ Zeroed.top = 0 /\ Zeroed.capacity = 0 /\ Zeroed.elem_size = 0
<1>1. Zeroed \in ControlBlocks
  BY MemoryAssumption DEF Zeroed, ControlBlocks, NoHooks, Hooks
<1>2. Settled(Zeroed)
  BY DEF Zeroed, Settled
<1> QED
  BY <1>1, <1>2 DEF Zeroed, Capped, Ceil

(* A call that leaves an empty stack, with whatever control block. *)
LEMMA ConfiguredSteps ==
  ASSUME Inv, NEW w, Sound(w), Capped(w.cb), Items(w) = <<>>, NEW op, NEW status,
         \/ op = "init" /\ status \in {"OK", "INVALID", "NOMEM", "OVERFLOW"}
         \/ op = "destroy" /\ status = "OK",
         Answer(op, w, status, 0, 0, <<>>)
  PROVE  Stepped
<1>1. Sound(Now) /\ Capped(stack') /\ Contents' = <<>> /\ Ceiling' = Ceil(w.cb)
  BY AnswerFacts
<1>2. last'.op = op /\ last'.status = status
  BY AnswerFacts
<1>3. FailureStep
  BY <1>2 DEF FailureStep
<1>4. BulkStep
  BY <1>2 DEF BulkStep
<1>5. Ceiling' \in Nat
  BY <1>1, CeilFacts, MemoryAssumption
<1>6. Lifo!Reply({op}, status, 0, <<>>)
  BY ReplyFacts
<1>7. Lifo!Configure
  BY <1>1, <1>5, <1>6 DEF Lifo!Configure, Lifo!MemoryRefusals
<1> QED
  BY <1>1, <1>3, <1>4, <1>7 DEF Stepped, Lifo!Next

LEMMA ZeroedWorld ==
  ASSUME NEW w \in Worlds, w.contract, DOMAIN w.blocks = {}, NEW z, z = [w EXCEPT !.cb = Zeroed]
  PROVE  Sound(z) /\ Capped(z.cb) /\ Items(z) = <<>>
<1>1. z \in Worlds /\ z.cb = Zeroed /\ z.blocks = w.blocks /\ z.contract = w.contract
  BY ZeroedFacts DEF Worlds, World
<1>2. z.contract /\ Settled(z.cb) /\ z.cb.buffer = Null /\ z.cb.top = 0 /\ z.cb.capacity = 0 /\ Capped(z.cb)
  BY <1>1, ZeroedFacts
<1> QED
  BY <1>1, <1>2, BareSound

LEMMA DestroySteps ==
  ASSUME Inv, Destroy
  PROVE  Stepped
<1> DEFINE w == IF stack.buffer # Null /\ stack.allocator.free THEN ReleaseBuffer(W) ELSE W
           z == [w EXCEPT !.cb = Zeroed]
<1>1. Sound(W) /\ W.cb = stack /\ W \in Worlds /\ W.contract
  BY WFacts DEF Inv, Sound
<1>2. w \in Worlds /\ w.contract /\ DOMAIN w.blocks = {}
  <2>1. CASE stack.buffer = Null
    BY <1>1, <2>1 DEF Sound
  <2>2. CASE stack.buffer # Null
    <3> DEFINE p == stack.buffer
               bytes == stack.capacity * stack.elem_size
               f == Free(W, p, bytes)
    <3>1. DOMAIN W.blocks = {p} /\ Owns(W, p, bytes) /\ stack.allocator.free
      BY <1>1, <2>2, OwnBlock
    <3>2. w = f
      BY <1>1, <2>2, <3>1 DEF ReleaseBuffer
    <3>3. FreeEnds(ControlBlocks, Values \cup {Garbage}, W, p, bytes, f)
      BY <1>1, FreeFacts DEF Worlds
    <3> HIDE DEF w, f, p, bytes
    <3>4. f \in Worlds /\ f.contract /\ DOMAIN f.blocks = {}
      BY <1>1, <3>1, <3>3 DEF FreeEnds, Without, Worlds
    <3> QED
      BY <3>2, <3>4
  <2> QED
    BY <2>1, <2>2
<1>3. Answer("destroy", z, "OK", 0, 0, <<>>)
  BY DEF Destroy, Commit
<1> HIDE DEF w
<1>4. Sound(z) /\ Capped(z.cb) /\ Items(z) = <<>>
  BY <1>2, ZeroedWorld
<1> QED
  BY <1>3, <1>4, ConfiguredSteps

(* What dv_stack_init puts in the control block. *)
LEMMA ConfiguredFacts ==
  ASSUME NEW config \in Configs, NEW allocator \in Allocators, ValidConfig(config),
         allocator.alloc, allocator.free, NEW cb, cb = Configured(config, allocator)
  PROVE  /\ cb \in ControlBlocks /\ Settled(cb)
         /\ cb.buffer = Null /\ cb.top = 0 /\ cb.capacity = 0 /\ cb.elem_size # 0
         /\ cb.initial_capacity = config.initial_capacity
<1>1. /\ config.elem_size \in 0 .. SizeMax /\ config.elem_align \in 0 .. SizeMax
      /\ config.initial_capacity \in 0 .. SizeMax /\ config.max_capacity \in 0 .. SizeMax
      /\ config.growable \in BOOLEAN /\ SizeMax \in Nat /\ MallocAlign \in Nat /\ CacheLine \in Nat
      /\ allocator \in Hooks
  BY StackAssumption, MemoryAssumption DEF Hooks
<1>2. config.elem_size # 0
  BY DEF ValidConfig
<1>3. Align(config) \in Nat /\ IsPow2(Align(config))
  BY <1>1, StackAssumption DEF Align, ValidConfig
<1> DEFINE align == Align(config)
           max == IF config.growable THEN config.max_capacity ELSE config.initial_capacity
           ptr == config.elem_size = PtrSize /\ Align(config) % PtrSize = 0
           made == [buffer |-> Null, top |-> 0, capacity |-> 0, elem_size |-> config.elem_size,
                    align |-> align, initial_capacity |-> config.initial_capacity,
                    max_capacity |-> max, allocator |-> allocator,
                    growable |-> config.growable, ptr_mode |-> ptr]
<1>4. max \in 0 .. SizeMax /\ ptr \in BOOLEAN
  BY <1>1
<1>5. cb = made
  BY DEF Configured, Zeroed
<1>6. /\ config.growable => max = 0 \/ config.initial_capacity <= max
      /\ ~config.growable => max = config.initial_capacity
  BY <1>1 DEF ValidConfig
<1> HIDE DEF align, max, ptr
<1>7. made \in ControlBlocks
  BY <1>1, <1>3, <1>4 DEF ControlBlocks, align
<1>8. Settled(made)
  BY <1>2, <1>3, <1>6 DEF Settled, align
<1> QED
  BY <1>2, <1>5, <1>7, <1>8

LEMMA InitSteps ==
  ASSUME Inv, NEW config \in Configs, NEW allocator \in Allocators, StackInit(config, allocator)
  PROVE  Stepped
<1>1. /\ Sound(W) /\ W.cb = stack /\ W \in Worlds /\ W.contract /\ stack = Zeroed
      /\ stack.buffer = Null
  BY WFacts, ZeroedFacts DEF Inv, Sound, StackInit
<1>2. DOMAIN W.blocks = {}
  BY <1>1 DEF Sound
<1>3. CASE ValidConfig(config) /\ allocator.alloc /\ allocator.free
  <2> DEFINE cb == Configured(config, allocator)
             w == [W EXCEPT !.cb = cb]
             n == config.initial_capacity
  <2>1. PICK r \in SetCapacity(w, n) :
          IF r.status = "OK" THEN Answer("init", r.w, "OK", 0, 0, <<>>)
          ELSE Answer("init", [r.w EXCEPT !.cb = Zeroed], r.status, 0, 0, <<>>)
    BY <1>3 DEF StackInit, Commit
  <2>2. /\ cb \in ControlBlocks /\ Settled(cb)
        /\ cb.buffer = Null /\ cb.top = 0 /\ cb.capacity = 0 /\ cb.elem_size # 0
        /\ cb.initial_capacity = n
    BY <1>3, ConfiguredFacts
  <2> HIDE DEF cb
  <2>3. w \in Worlds /\ w.cb = cb /\ w.blocks = W.blocks /\ w.contract = W.contract
    BY <1>1, <2>2 DEF Worlds, World
  <2> HIDE DEF w
  <2>4. Sound(w) /\ Items(w) = <<>>
    BY <1>1, <1>2, <2>2, <2>3, BareSound
  <2>5. n \in 0 .. SizeMax
    BY StackAssumption
  <2>6. SetCapacityEnds(w, n, r)
    BY <2>1, <2>2, <2>3, <2>4, <2>5, SetCapacityFacts
  <2>7. r.status \in {"OK", "NOMEM", "OVERFLOW"}
    BY <2>2, <2>3, <2>5, <2>6, MemoryAssumption DEF SetCapacityEnds
  <2>8. CASE r.status = "OK"
    <3>1. Sound(r.w) /\ Items(r.w) = <<>> /\ SameSettings(r.w.cb, cb) /\ r.w.cb.capacity = n
      BY <2>3, <2>4, <2>6, <2>8 DEF SetCapacityEnds
    <3>2. Capped(r.w.cb)
      BY <2>2, <2>5, <3>1, MemoryAssumption DEF Capped, Settled, SameSettings
    <3> QED
      BY <2>1, <2>8, <3>1, <3>2, ConfiguredSteps
  <2>9. CASE r.status # "OK"
    <3> DEFINE z == [r.w EXCEPT !.cb = Zeroed]
    <3>1. r.w \in Worlds /\ r.w.contract /\ DOMAIN r.w.blocks = {}
      BY <1>2, <2>3, <2>6, <2>9 DEF SetCapacityEnds, Sound
    <3>2. Answer("init", z, r.status, 0, 0, <<>>)
      BY <2>1, <2>9
    <3>3. Sound(z) /\ Capped(z.cb) /\ Items(z) = <<>>
      BY <3>1, ZeroedWorld
    <3> QED
      BY <2>7, <3>2, <3>3, ConfiguredSteps
  <2> QED
    BY <2>8, <2>9
<1>4. CASE ~(ValidConfig(config) /\ allocator.alloc /\ allocator.free)
  <2>1. Answer("init", W, "INVALID", 0, 0, <<>>)
    BY <1>4 DEF StackInit, Commit
  <2>2. Items(W) = <<>> /\ Capped(W.cb)
    BY <1>1, ZeroedFacts DEF Items
  <2> QED
    BY <1>1, <2>1, <2>2, ConfiguredSteps
<1> QED
  BY <1>3, <1>4

LEMMA NextSteps ==
  ASSUME Inv, Next
  PROVE  Stepped
  BY InitSteps, DestroySteps, ResetSteps, ClearSteps, ShrinkSteps, ReserveSteps, PushSteps,
     PushPtrSteps, PopSteps, PeekSteps, PushBulkSteps DEF Next

(***************************************************************************)
(* The theorems.                                                           *)
(***************************************************************************)
LEMMA InitInv ==
  ASSUME Init
  PROVE  Inv /\ Lifo!Init
<1>1. W.cb = Zeroed /\ W.contract /\ DOMAIN W.blocks = {}
  BY DEF Init, W
<1>2. W \in Worlds
  <2>1. blocks \in Memory(Values \cup {Garbage})
    <3>1. blocks \in [{} -> Block(Values \cup {Garbage})]
      BY DEF Init
    <3> QED
      BY <3>1, MemoryIntro
  <2>2. stack \in ControlBlocks /\ contract \in BOOLEAN /\ {} \in SUBSET HookNames
    BY ZeroedFacts DEF Init
  <2> QED
    BY <2>1, <2>2 DEF W, Worlds, World
<1>3. Sound(W) /\ Items(W) = <<>>
  BY <1>1, <1>2, ZeroedFacts, BareSound
<1>4. Inv
  BY <1>3, ZeroedFacts DEF Inv, Init
<1>5. Contents = <<>> /\ Ceiling = 0
  BY <1>3, Mapped, ZeroedFacts DEF Init
<1>6. Lifo!Init
  BY <1>5 DEF Init, Lifo!Init
<1> QED
  BY <1>4, <1>6

LEMMA Inductive == Inv /\ [Next]_vars => Inv'
<1>1. ASSUME Sound(Now), Capped(stack') PROVE Inv'
  BY <1>1 DEF Now, Inv, W, Capped, Sound, Settled, Fits
<1>2. ASSUME Inv, Next PROVE Inv'
  BY <1>1, <1>2, NextSteps DEF Stepped
<1>3. ASSUME Inv, UNCHANGED vars PROVE Inv'
  BY <1>3 DEF vars, Inv, W, Capped, Sound, Settled, Fits
<1> QED
  BY <1>2, <1>3

LEMMA InvHolds == Spec => []Inv
  BY InitInv, Inductive, PTL DEF Spec

(* Through every path of dv_stack_set_capacity, and of init, reset and
   destroy, with any of its allocator calls refused, the stack holds exactly
   the block its buffer points to, and every free and realloc named it by its
   exact size and alignment.                                                *)
THEOREM StackMemory == Spec => []MemoryAccounted
<1>1. Inv => MemoryAccounted
  <2> SUFFICES ASSUME Inv PROVE MemoryAccounted
    OBVIOUS
  <2>1. Sound(W) /\ W.cb = stack /\ W.blocks = blocks /\ W.contract = contract
    BY WFacts DEF Inv
  <2>2. stack \in ControlBlocks /\ contract \in BOOLEAN
    BY <2>1, CbFacts DEF Sound, Worlds, World
  <2>3. TypeOK
    BY <2>1, <2>2 DEF TypeOK, ControlBlocks, Hooks, Sound
  <2> QED
    BY <2>1, <2>3 DEF MemoryAccounted, Sound, Fits
<1> QED
  BY <1>1, InvHolds, PTL

(* No sequence of calls takes a stack past max_capacity, and a fixed stack is
   always at its initial capacity.                                          *)
THEOREM StackCeiling == Spec => []CeilingKept
<1>1. Inv => CeilingKept
  BY DEF Inv, Capped, CeilingKept
<1> QED
  BY <1>1, InvHolds, PTL

(* A call that reports a failure changed neither the control block nor the
   contents, but for the contents that reset drops first.                   *)
THEOREM StackFailures == Spec => FailureAtomic
<1>1. Inv /\ [Next]_vars =>
        [last'.status # "OK" /\ last'.op # "init" =>
           /\ stack' = [stack EXCEPT !.top = IF last'.op = "reset" THEN 0 ELSE @]
           /\ blocks' = blocks]_vars
  BY NextSteps DEF Stepped, FailureStep
<1> QED
  BY <1>1, InvHolds, PTL DEF Spec, FailureAtomic

(* dv_stack_push_bulk stops short only at the ceiling, refused by the
   allocator, or for want of a size_t that holds the bytes.                 *)
THEOREM StackBulk == Spec => BulkShortHonest
<1>1. Inv /\ [Next]_vars =>
        [last'.op = "push_bulk" /\ last'.n < last'.asked =>
           \/ stack'.top = Ceiling
           \/ "refused" \in last'.calls
           \/ ~BytesFit(stack.top + last'.asked, stack.elem_size)]_vars
  BY NextSteps DEF Stepped, BulkStep
<1> QED
  BY <1>1, InvHolds, PTL DEF Spec, BulkShortHonest

(* Every call takes effect on the contents as its counterpart in BoundedLifo
   does.                                                                    *)
THEOREM StackRefinement == Spec => ImplementsLifo
<1>1. Inv /\ [Next]_vars => [Lifo!Next(Batches)]_vars
  BY NextSteps DEF Stepped
<1>2. Init => Lifo!Init
  BY InitInv
<1> QED
  BY <1>1, <1>2, InvHolds, PTL DEF Spec, ImplementsLifo
=============================================================================

------------------------- MODULE HookedMemoryProofs -------------------------
(* What the calls of the allocator hooks do to the blocks handed out, for the
   proofs about the containers that make them.                              *)
EXTENDS HookedMemory, TLAPS

(* Blocks with elements of V, and what an allocator has handed out. *)
Block(V) == [bytes : Nat, align : Nat, slots : Seq(V)]
Memory(V) == UNION {[D -> Block(V)] : D \in SUBSET Addresses}
Hooks == [alloc : BOOLEAN, realloc : BOOLEAN, free : BOOLEAN]

HookNames == {"alloc", "realloc", "free", "refused"}

(* A control block has what the hooks are called with. *)
HasHooks(C) ==
  \A cb \in C : cb.elem_size \in Nat /\ cb.align \in Nat /\ cb.allocator \in Hooks

World(C, V) == [cb : C, blocks : Memory(V), contract : BOOLEAN, calls : SUBSET HookNames]

(* Block p of memory g is new: it has the elements kept of an old one, then
   garbage.                                                                 *)
Granted(V, w, g, p, n, bytes, kept) ==
  /\ g \in Memory(V)
  /\ DOMAIN g = DOMAIN w.blocks \cup {p}
  /\ \A a \in DOMAIN w.blocks \ {p} : g[a] = w.blocks[a]
  /\ g[p].bytes = bytes
  /\ g[p].align = w.cb.align
  /\ Len(g[p].slots) = n
  /\ \A i \in 1 .. n : g[p].slots[i] = IF i <= Len(kept) THEN kept[i] ELSE Garbage

(* What holds after a call for memory, granted or refused. *)
Asked(C, V, w, r) ==
  /\ r = [w |-> r.w, ptr |-> r.ptr]
  /\ r.w \in World(C, V)
  /\ r.w.cb = w.cb
  /\ w.calls \subseteq r.w.calls
  /\ r.ptr = Null => /\ r.w.blocks = w.blocks
                     /\ r.w.contract = w.contract
                     /\ "refused" \in r.w.calls

AllocEnds(C, V, w, bytes, r) ==
  /\ Asked(C, V, w, r)
  /\ r.ptr # Null => /\ r.ptr \in Addresses \ DOMAIN w.blocks
                     /\ r.w.blocks = Grant(w, r.ptr, bytes, <<>>)
                     /\ w.contract /\ w.cb.allocator.alloc /\ bytes > 0 /\ IsPow2(w.cb.align)
                          => r.w.contract

ReallocEnds(C, V, w, p, old, bytes, r) ==
  /\ Asked(C, V, w, r)
  /\ r.ptr # Null => /\ r.ptr \in (Addresses \ DOMAIN w.blocks) \cup {p}
                     /\ r.w.blocks = Grant([w EXCEPT !.blocks = Without(@, p)], r.ptr, bytes,
                                           w.blocks[p].slots)
                     /\ w.contract /\ Owns(w, p, old) /\ bytes > 0 => r.w.contract

FreeEnds(C, V, w, p, size, f) ==
  /\ f \in World(C, V)
  /\ f.cb = w.cb
  /\ f.blocks = Without(w.blocks, p)
  /\ w.contract /\ w.cb.allocator.free /\ Owns(w, p, size) => f.contract
  /\ w.calls \subseteq f.calls

LEMMA WholeSlots ==
  ASSUME NEW n \in Nat, NEW size \in Nat \ {0}
  PROVE  n * size \in Nat /\ (n * size) \div size = n
<1>1. n * size \in Nat
  OBVIOUS
<1>2. (n * size) \div size = n
  OBVIOUS
<1> QED
  BY <1>1, <1>2

LEMMA MemoryFacts ==
  ASSUME NEW V, NEW bs \in Memory(V)
  PROVE  /\ DOMAIN bs \subseteq Addresses
         /\ bs \in [DOMAIN bs -> Block(V)]
         /\ \A a \in DOMAIN bs : bs[a] \in Block(V)
  BY DEF Memory

LEMMA MemoryIntro ==
  ASSUME NEW V, NEW D, D \subseteq Addresses, NEW bs \in [D -> Block(V)]
  PROVE  bs \in Memory(V) /\ DOMAIN bs = D
  BY DEF Memory

LEMMA WithoutFacts ==
  ASSUME NEW V, NEW bs \in Memory(V), NEW p
  PROVE  /\ Without(bs, p) \in Memory(V)
         /\ DOMAIN Without(bs, p) = DOMAIN bs \ {p}
         /\ \A a \in DOMAIN bs \ {p} : Without(bs, p)[a] = bs[a]
<1>1. Without(bs, p) \in [DOMAIN bs \ {p} -> Block(V)]
  BY MemoryFacts DEF Without
<1>2. DOMAIN bs \ {p} \subseteq Addresses
  BY MemoryFacts
<1>3. \A a \in DOMAIN bs \ {p} : Without(bs, p)[a] = bs[a]
  BY DEF Without
<1> QED
  BY <1>1, <1>2, <1>3, MemoryIntro

LEMMA GrantFacts ==
  ASSUME NEW C, HasHooks(C), NEW V, Garbage \in V, NEW w \in World(C, V),
         w.cb.elem_size # 0, NEW p \in Addresses, NEW n \in Nat, NEW kept \in Seq(V),
         NEW bytes, bytes = n * w.cb.elem_size
  PROVE  Granted(V, w, Grant(w, p, bytes, kept), p, n, bytes, kept)
<1> DEFINE slots == [i \in 1 .. n |-> IF i <= Len(kept) THEN kept[i] ELSE Garbage]
           block == [bytes |-> bytes, align |-> w.cb.align, slots |-> slots]
           D == DOMAIN w.blocks \cup {p}
           g == [a \in D |-> IF a # p THEN w.blocks[a] ELSE block]
<1>1. w.cb \in C /\ w.blocks \in Memory(V)
  BY DEF World
<1>2. w.cb.elem_size \in Nat \ {0} /\ w.cb.align \in Nat
  BY <1>1 DEF HasHooks
<1>3. bytes \in Nat /\ Slots(w, bytes) = n
  BY <1>2, WholeSlots DEF Slots
<1>4. Grant(w, p, bytes, kept) = g
  BY <1>3 DEF Grant
<1>5. slots \in Seq(V) /\ Len(slots) = n
  OBVIOUS
<1>5a. \A i \in 1 .. n : slots[i] = IF i <= Len(kept) THEN kept[i] ELSE Garbage
  OBVIOUS
<1> HIDE DEF slots
<1>6. block \in Block(V)
  BY <1>2, <1>3, <1>5 DEF Block
<1>6a. block.bytes = bytes /\ block.align = w.cb.align /\ block.slots = slots
  OBVIOUS
<1> HIDE DEF block
<1>7. /\ D \subseteq Addresses
      /\ g \in [D -> Block(V)]
  BY <1>1, <1>6, MemoryFacts
<1>8. g \in Memory(V) /\ DOMAIN g = D
  BY <1>7, MemoryIntro
<1>9. g[p] = block /\ \A a \in DOMAIN w.blocks \ {p} : g[a] = w.blocks[a]
  <2>1. p \in D /\ \A a \in DOMAIN w.blocks \ {p} : a \in D /\ a # p
    OBVIOUS
  <2>2. \A a \in D : g[a] = IF a # p THEN w.blocks[a] ELSE block
    OBVIOUS
  <2> HIDE DEF D, g
  <2> QED
    BY <2>1, <2>2
<1>10. DOMAIN g = DOMAIN w.blocks \cup {p}
  BY <1>8
<1> HIDE DEF g, D
<1> QED
  BY <1>4, <1>5, <1>5a, <1>6a, <1>8, <1>9, <1>10 DEF Granted

LEMMA WorldFacts ==
  ASSUME NEW C, NEW V, NEW w \in World(C, V)
  PROVE  /\ w.cb \in C /\ w.blocks \in Memory(V) /\ w.contract \in BOOLEAN
         /\ w.calls \in SUBSET HookNames
  BY DEF World

LEMMA Called ==
  ASSUME NEW k \in SUBSET HookNames, NEW hooks, hooks \subseteq {"alloc", "realloc", "free", "refused"}
  PROVE  k \cup hooks \in SUBSET HookNames
  BY DEF HookNames

LEMMA RefusedFacts ==
  ASSUME NEW C, NEW V, NEW w \in World(C, V), NEW hook \in {"alloc", "realloc"},
         NEW r, r = Refused(w, hook)
  PROVE  Asked(C, V, w, r) /\ r.ptr = Null
<1> DEFINE k == w.calls \cup {hook, "refused"}
<1>1. k \in SUBSET HookNames
  BY WorldFacts, Called
<1>2. r.ptr = Null /\ r.w = [w EXCEPT !.calls = k] /\ r = [w |-> r.w, ptr |-> r.ptr]
  BY DEF Refused
<1> HIDE DEF k
<1>3. r.w \in World(C, V) /\ r.w.cb = w.cb /\ r.w.blocks = w.blocks /\ r.w.contract = w.contract /\ r.w.calls = k
  BY <1>1, <1>2 DEF World
<1> QED
  BY <1>2, <1>3 DEF k, Asked

LEMMA AllocFacts ==
  ASSUME NEW C, HasHooks(C), NEW V, Garbage \in V, NEW w \in World(C, V),
         w.cb.elem_size # 0, NEW n \in Nat, NEW bytes, bytes = n * w.cb.elem_size,
         NEW r \in Alloc(w, bytes)
  PROVE  AllocEnds(C, V, w, bytes, r)
<1>1. CASE r = Refused(w, "alloc")
  BY <1>1, RefusedFacts DEF AllocEnds
<1>2. ASSUME NEW p \in Addresses \ DOMAIN w.blocks,
             r = [w |-> [w EXCEPT !.blocks = Grant(w, p, bytes, <<>>),
                           !.contract = @ /\ w.cb.allocator.alloc /\ bytes > 0 /\ IsPow2(w.cb.align),
                           !.calls = @ \cup {"alloc"}],
                  ptr |-> p]
      PROVE AllocEnds(C, V, w, bytes, r)
  <2> DEFINE ok == w.contract /\ w.cb.allocator.alloc /\ bytes > 0 /\ IsPow2(w.cb.align)
             g == Grant(w, p, bytes, <<>>)
             k == w.calls \cup {"alloc"}
  <2>1. /\ r.ptr = p /\ r = [w |-> r.w, ptr |-> r.ptr]
        /\ r.w = [w EXCEPT !.blocks = g, !.contract = ok, !.calls = k]
    BY <1>2
  <2>2. g \in Memory(V)
    <3>1. <<>> \in Seq(V)
      OBVIOUS
    <3>2. Granted(V, w, g, p, n, bytes, <<>>)
      BY <3>1, GrantFacts
    <3> QED
      BY <3>2 DEF Granted
  <2>3. ok \in BOOLEAN /\ k \in SUBSET HookNames
    BY WorldFacts, Called
  <2> HIDE DEF ok, g, k
  <2>4. /\ r.w \in World(C, V)
        /\ r.w.cb = w.cb /\ r.w.blocks = g /\ r.w.contract = ok
        /\ r.w.calls = k
    BY <2>1, <2>2, <2>3 DEF World
  <2> QED
    BY <2>1, <2>4, MemoryAssumption DEF ok, g, k, Asked, AllocEnds
<1> QED
  BY <1>1, <1>2 DEF Alloc

LEMMA ReallocFacts ==
  ASSUME NEW C, HasHooks(C), NEW V, Garbage \in V, NEW w \in World(C, V),
         w.cb.elem_size # 0, NEW n \in Nat, NEW bytes, bytes = n * w.cb.elem_size,
         NEW p \in DOMAIN w.blocks, NEW old, NEW r \in Realloc(w, p, old, bytes)
  PROVE  ReallocEnds(C, V, w, p, old, bytes, r)
<1> DEFINE rest == [w EXCEPT !.blocks = Without(@, p)]
<1>0. /\ w.blocks \in Memory(V) /\ p \in Addresses
      /\ w.blocks[p] \in Block(V) /\ w.blocks[p].slots \in Seq(V)
  BY MemoryFacts DEF World, Block
<1>1. rest \in World(C, V) /\ rest.cb = w.cb
  BY <1>0, WithoutFacts DEF World
<1> HIDE DEF rest
<1>2. CASE r = Refused(w, "realloc")
  BY <1>2, RefusedFacts DEF ReallocEnds
<1>3. ASSUME NEW q \in (Addresses \ DOMAIN w.blocks) \cup {p},
             r = [w |-> [w EXCEPT !.blocks = Grant(rest, q, bytes, w.blocks[p].slots),
                           !.contract = @ /\ Owns(w, p, old) /\ bytes > 0,
                           !.calls = @ \cup {"realloc"}],
                  ptr |-> q]
      PROVE ReallocEnds(C, V, w, p, old, bytes, r)
  <2> DEFINE ok == w.contract /\ Owns(w, p, old) /\ bytes > 0
             g == Grant(rest, q, bytes, w.blocks[p].slots)
             k == w.calls \cup {"realloc"}
  <2>0. q \in Addresses
    BY <1>0
  <2> DEFINE x == [w EXCEPT !.blocks = g, !.contract = ok, !.calls = k]
  <2>1a. r = [w |-> x, ptr |-> q]
    BY <1>3
  <2>1. /\ r.ptr = q /\ r = [w |-> r.w, ptr |-> r.ptr]
        /\ r.w = [w EXCEPT !.blocks = g, !.contract = ok, !.calls = k]
    <3>1. r.w = x /\ r.ptr = q
      <4> HIDE DEF x
      <4> QED
        BY <2>1a
    <3>2. r = [w |-> r.w, ptr |-> r.ptr]
      <4> HIDE DEF x
      <4> QED
        BY <2>1a
    <3> QED
      BY <3>1, <3>2
  <2>2. g \in Memory(V)
    <3>1. Granted(V, rest, g, q, n, bytes, w.blocks[p].slots)
      BY <1>0, <1>1, <2>0, GrantFacts
    <3> QED
      BY <3>1 DEF Granted
  <2>3. ok \in BOOLEAN /\ k \in SUBSET HookNames
    BY WorldFacts, Called
  <2> HIDE DEF ok, g, k
  <2>4. /\ r.w \in World(C, V)
        /\ r.w.cb = w.cb /\ r.w.blocks = g /\ r.w.contract = ok
        /\ r.w.calls = k
    BY <2>1, <2>2, <2>3 DEF World
  <2> QED
    BY <2>0, <2>1, <2>4, MemoryAssumption DEF ok, g, k, rest, Asked, ReallocEnds
<1> QED
  BY <1>2, <1>3 DEF Realloc, rest

LEMMA FreeFacts ==
  ASSUME NEW C, NEW V, NEW w \in World(C, V), NEW p, NEW size
  PROVE  FreeEnds(C, V, w, p, size, Free(w, p, size))
<1> DEFINE ok == w.contract /\ w.cb.allocator.free /\ Owns(w, p, size)
           rest == Without(w.blocks, p)
           k == w.calls \cup {"free"}
<1>1. Free(w, p, size) = [w EXCEPT !.blocks = rest, !.contract = ok, !.calls = k]
  BY DEF Free
<1>2. ok \in BOOLEAN /\ k \in SUBSET HookNames
  BY WorldFacts, Called
<1>3. rest \in Memory(V)
  BY WithoutFacts DEF World
<1> HIDE DEF ok, rest, k
<1>4. /\ Free(w, p, size) \in World(C, V)
      /\ Free(w, p, size).cb = w.cb
      /\ Free(w, p, size).blocks = rest
      /\ Free(w, p, size).contract = ok
      /\ Free(w, p, size).calls = k
  BY <1>1, <1>2, <1>3 DEF World
<1> QED
  BY <1>4 DEF ok, rest, k, FreeEnds

(***************************************************************************)
(* A container that has one block, or none, gets another.                  *)
(***************************************************************************)
(* The container that w works on owns what it thinks it owns: a block of the
   bytes it names, with the elements that a resize keeps.                   *)
Ready(C, V, w, live, old) ==
  /\ w \in World(C, V) /\ w.contract /\ w.cb.elem_size # 0
  /\ IsPow2(w.cb.align) /\ w.cb.allocator.alloc /\ w.cb.allocator.free
  /\ w.cb.buffer \in Addresses \cup {Null}
  /\ DOMAIN w.blocks = {w.cb.buffer} \ {Null}
  /\ live \in Nat
  /\ w.cb.buffer = Null => live = 0
  /\ w.cb.buffer # Null => Owns(w, w.cb.buffer, old) /\ live <= Len(w.blocks[w.cb.buffer].slots)

(* What a call for a block of n slots ends in: the live elements are in the
   new block, and it is the only one.                                       *)
NewBlockEnds(C, V, w, live, n, r) ==
  /\ r.w \in World(C, V) /\ r.w.cb = w.cb /\ r.w.contract
  /\ w.calls \subseteq r.w.calls
  /\ r.ptr = Null => r.w.blocks = w.blocks /\ "refused" \in r.w.calls
  /\ r.ptr # Null =>
       /\ r.ptr \in Addresses
       /\ DOMAIN r.w.blocks = {r.ptr}
       /\ r.w.blocks[r.ptr].bytes = n * w.cb.elem_size
       /\ r.w.blocks[r.ptr].align = w.cb.align
       /\ Len(r.w.blocks[r.ptr].slots) = n
       /\ \A i \in 1 .. live : r.w.blocks[r.ptr].slots[i] = w.blocks[w.cb.buffer].slots[i]

LEMMA BytesPositive ==
  ASSUME NEW C, HasHooks(C), NEW V, NEW w, NEW live, NEW old, Ready(C, V, w, live, old),
         NEW n \in Nat \ {0}
  PROVE  n * w.cb.elem_size > 0
<1>1. w.cb.elem_size \in Nat \ {0}
  BY DEF Ready, World, HasHooks
<1> QED
  BY <1>1

(* Memory from the hooks when the container has no block. *)
LEMMA FirstBlockFacts ==
  ASSUME NEW C, HasHooks(C), NEW V, Garbage \in V, NEW w, NEW live, NEW old,
         Ready(C, V, w, live, old), NEW n \in Nat \ {0}, NEW new, new = n * w.cb.elem_size,
         w.cb.buffer = Null, NEW r \in NewBlock(w, live, old, new)
  PROVE  NewBlockEnds(C, V, w, live, n, r)
<1>1. /\ w \in World(C, V) /\ w.contract /\ w.cb.elem_size # 0 /\ n \in Nat
      /\ IsPow2(w.cb.align) /\ w.cb.allocator.alloc /\ live = 0 /\ DOMAIN w.blocks = {}
  BY DEF Ready
<1>2. new > 0
  BY BytesPositive
<1>4. r \in Alloc(w, new)
  BY DEF NewBlock
<1>5. AllocEnds(C, V, w, new, r)
  BY <1>1, <1>4, AllocFacts
<1>6. Asked(C, V, w, r)
  BY <1>5 DEF AllocEnds
<1>7. r.w.contract
  BY <1>1, <1>2, <1>5, <1>6 DEF AllocEnds, Asked
<1>8. CASE r.ptr = Null
  BY <1>6, <1>7, <1>8 DEF NewBlockEnds, Asked
<1>9. CASE r.ptr # Null
  <2>1. r.ptr \in Addresses /\ r.w.blocks = Grant(w, r.ptr, new, <<>>)
    BY <1>5, <1>9 DEF AllocEnds
  <2>2. <<>> \in Seq(V)
    OBVIOUS
  <2>3. Granted(V, w, r.w.blocks, r.ptr, n, new, <<>>)
    BY <1>1, <2>1, <2>2, GrantFacts
  <2> QED
    BY <1>1, <1>6, <1>7, <1>9, <2>1, <2>3 DEF Granted, NewBlockEnds, Asked
<1> QED
  BY <1>8, <1>9

(* The block that the container has. *)
LEMMA ReadyBlock ==
  ASSUME NEW C, HasHooks(C), NEW V, NEW w, NEW live, NEW old, Ready(C, V, w, live, old),
         w.cb.buffer # Null
  PROVE  /\ w.cb.buffer \in Addresses /\ DOMAIN w.blocks = {w.cb.buffer}
         /\ Owns(w, w.cb.buffer, old)
         /\ w.blocks[w.cb.buffer].slots \in Seq(V)
         /\ live \in Nat /\ live <= Len(w.blocks[w.cb.buffer].slots)
<1>1. w.blocks \in Memory(V) /\ DOMAIN w.blocks = {w.cb.buffer} /\ w.cb.buffer \in Addresses
  BY DEF Ready, World
<1>2. w.blocks[w.cb.buffer] \in Block(V)
  BY <1>1, MemoryFacts
<1>3. w.blocks[w.cb.buffer].slots \in Seq(V)
  BY <1>2 DEF Block
<1> QED
  BY <1>1, <1>3 DEF Ready

(* Memory from the realloc hook. *)
LEMMA MovedBlockFacts ==
  ASSUME NEW C, HasHooks(C), NEW V, Garbage \in V, NEW w, NEW live, NEW old,
         Ready(C, V, w, live, old), NEW n \in Nat \ {0}, live <= n, NEW new, new = n * w.cb.elem_size,
         w.cb.buffer # Null, w.cb.allocator.realloc, NEW r \in NewBlock(w, live, old, new)
  PROVE  NewBlockEnds(C, V, w, live, n, r)
<1> DEFINE p == w.cb.buffer
           rest == [w EXCEPT !.blocks = Without(@, p)]
           kept == w.blocks[p].slots
<1>1. w \in World(C, V) /\ n \in Nat /\ w.contract /\ w.cb.elem_size # 0
  BY DEF Ready
<1>2. /\ p \in Addresses /\ DOMAIN w.blocks = {p} /\ kept \in Seq(V)
      /\ live \in Nat /\ live <= Len(kept) /\ Owns(w, p, old)
  BY ReadyBlock
<1>3. new > 0
  BY BytesPositive
<1>4. r \in Realloc(w, p, old, new)
  BY DEF NewBlock
<1>5. rest \in World(C, V) /\ rest.cb = w.cb /\ DOMAIN rest.blocks = {}
  <2>1. w.blocks \in Memory(V)
    BY <1>1 DEF World
  <2>2. Without(w.blocks, p) \in Memory(V)
    BY <2>1, WithoutFacts
  <2>3. DOMAIN Without(w.blocks, p) = {}
    BY <1>2 DEF Without
  <2> QED
    BY <1>1, <2>2, <2>3 DEF World
<1>6. ReallocEnds(C, V, w, p, old, new, r)
  BY <1>1, <1>2, <1>4, ReallocFacts
<1>7. Asked(C, V, w, r)
  BY <1>6 DEF ReallocEnds
<1>8. r.w.contract
  BY <1>1, <1>2, <1>3, <1>6, <1>7 DEF ReallocEnds, Asked
<1>9. CASE r.ptr = Null
  BY <1>7, <1>8, <1>9 DEF NewBlockEnds, Asked
<1>10. CASE r.ptr # Null
  <2>1. r.ptr \in Addresses /\ r.w.blocks = Grant(rest, r.ptr, new, kept)
    BY <1>2, <1>6, <1>10 DEF ReallocEnds
  <2> HIDE DEF rest, kept, p
  <2>2. Granted(V, rest, r.w.blocks, r.ptr, n, new, kept)
    BY <1>1, <1>2, <1>5, <2>1, GrantFacts
  <2>3. \A i \in 1 .. live : r.w.blocks[r.ptr].slots[i] = kept[i]
    BY <1>2, <2>2 DEF Granted
  <2>4. r.ptr # Null /\ r.ptr \in Addresses /\ DOMAIN r.w.blocks = {r.ptr}
    BY <1>5, <1>10, <2>1, <2>2 DEF Granted
  <2>5. /\ r.w.blocks[r.ptr].bytes = n * w.cb.elem_size
        /\ r.w.blocks[r.ptr].align = w.cb.align
        /\ Len(r.w.blocks[r.ptr].slots) = n
    BY <1>5, <2>2 DEF Granted
  <2> QED
    BY <1>7, <1>8, <2>3, <2>4, <2>5 DEF NewBlockEnds, Asked, kept, p
<1> QED
  BY <1>9, <1>10

(* The live elements are in block q too. *)
CopyEnds(C, V, w, q, live, c) ==
  /\ c \in World(C, V) /\ c.cb = w.cb /\ c.contract = w.contract /\ c.calls = w.calls
  /\ DOMAIN c.blocks = DOMAIN w.blocks
  /\ \A a \in DOMAIN w.blocks \ {q} : c.blocks[a] = w.blocks[a]
  /\ c.blocks[q].bytes = w.blocks[q].bytes
  /\ c.blocks[q].align = w.blocks[q].align
  /\ Len(c.blocks[q].slots) = Len(w.blocks[q].slots)
  /\ \A i \in 1 .. Len(w.blocks[q].slots) :
       i <= live => c.blocks[q].slots[i] = w.blocks[w.cb.buffer].slots[i]

LEMMA CopyLiveFacts ==
  ASSUME NEW C, NEW V, NEW w \in World(C, V), w.cb.buffer \in DOMAIN w.blocks, NEW q \in DOMAIN w.blocks,
         NEW live \in Nat, live <= Len(w.blocks[w.cb.buffer].slots)
  PROVE  CopyEnds(C, V, w, q, live, CopyLive(w, q, live))
<1> DEFINE old == w.blocks[w.cb.buffer].slots
           b == w.blocks[q]
           slots == [i \in DOMAIN b.slots |-> IF i <= live THEN old[i] ELSE b.slots[i]]
           bs == [w.blocks EXCEPT ![q] = [b EXCEPT !.slots = slots]]
           c == CopyLive(w, q, live)
<1>1. w.blocks \in Memory(V)
  BY DEF World
<1>2. b \in Block(V) /\ w.blocks[w.cb.buffer] \in Block(V)
  BY <1>1, MemoryFacts
<1>3. old \in Seq(V) /\ b.slots \in Seq(V)
  BY <1>2 DEF Block
<1>4. /\ slots \in Seq(V) /\ Len(slots) = Len(b.slots)
      /\ \A i \in 1 .. Len(b.slots) : i <= live => slots[i] = old[i]
  <2>1. Len(b.slots) \in Nat /\ DOMAIN b.slots = 1 .. Len(b.slots)
    BY <1>3
  <2>2. \A i \in 1 .. Len(b.slots) : slots[i] = IF i <= live THEN old[i] ELSE b.slots[i]
    BY <2>1
  <2>3. \A i \in 1 .. Len(b.slots) : b.slots[i] \in V
    BY <1>3
  <2>4. \A i \in 1 .. Len(b.slots) : i <= live => old[i] \in V
    <3> HIDE DEF b
    <3> QED
      BY <1>3
  <2>5. slots \in [1 .. Len(b.slots) -> V]
    BY <2>1, <2>3, <2>4
  <2> HIDE DEF slots
  <2> QED
    BY <2>1, <2>2, <2>5
<1>5. c = [w EXCEPT !.blocks = bs]
  BY DEF CopyLive
<1> HIDE DEF slots, old, c
<1>6. /\ [b EXCEPT !.slots = slots] \in Block(V)
      /\ [b EXCEPT !.slots = slots].bytes = b.bytes
      /\ [b EXCEPT !.slots = slots].align = b.align
      /\ [b EXCEPT !.slots = slots].slots = slots
  BY <1>2, <1>4 DEF Block
<1>7. DOMAIN w.blocks \subseteq Addresses /\ w.blocks \in [DOMAIN w.blocks -> Block(V)]
  BY <1>1, MemoryFacts
<1>8. bs \in [DOMAIN w.blocks -> Block(V)]
  BY <1>6, <1>7
<1>9. bs \in Memory(V) /\ DOMAIN bs = DOMAIN w.blocks
  <2> HIDE DEF bs
  <2> QED
    BY <1>7, <1>8, MemoryIntro
<1>10. bs[q] = [b EXCEPT !.slots = slots] /\ \A a \in DOMAIN w.blocks \ {q} : bs[a] = w.blocks[a]
  <2> DEFINE nb == [b EXCEPT !.slots = slots]
  <2>1. bs = [w.blocks EXCEPT ![q] = nb]
    OBVIOUS
  <2> HIDE DEF bs, nb
  <2>2. bs[q] = nb /\ \A a \in DOMAIN w.blocks \ {q} : bs[a] = w.blocks[a]
    BY <1>7, <2>1
  <2> QED
    BY <2>2 DEF nb
<1> HIDE DEF bs
<1>11. c \in World(C, V) /\ c.blocks = bs /\ c.cb = w.cb /\ c.contract = w.contract /\ c.calls = w.calls
  BY <1>5, <1>9 DEF World
<1>12. c.blocks[q].bytes = b.bytes /\ c.blocks[q].align = b.align /\ c.blocks[q].slots = slots
  BY <1>6, <1>10, <1>11
<1>13. /\ DOMAIN c.blocks = DOMAIN w.blocks
       /\ \A a \in DOMAIN w.blocks \ {q} : c.blocks[a] = w.blocks[a]
  BY <1>9, <1>10, <1>11
<1> QED
  BY <1>4, <1>11, <1>12, <1>13 DEF c, old, CopyEnds

(* Memory from the alloc hook, a copy, and the old block back. *)
LEMMA CopiedBlockFacts ==
  ASSUME NEW C, HasHooks(C), NEW V, Garbage \in V, NEW w, NEW live, NEW old,
         Ready(C, V, w, live, old), NEW n \in Nat \ {0}, live <= n, NEW new, new = n * w.cb.elem_size,
         w.cb.buffer # Null, ~w.cb.allocator.realloc, NEW r \in NewBlock(w, live, old, new)
  PROVE  NewBlockEnds(C, V, w, live, n, r)
<1> DEFINE p == w.cb.buffer
<1>1. /\ w \in World(C, V) /\ n \in Nat /\ w.contract /\ w.cb.elem_size # 0
      /\ IsPow2(w.cb.align) /\ w.cb.allocator.alloc /\ w.cb.allocator.free
  BY DEF Ready
<1>2. /\ p \in Addresses /\ DOMAIN w.blocks = {p} /\ w.blocks[p].slots \in Seq(V)
      /\ live \in Nat /\ live <= Len(w.blocks[p].slots) /\ Owns(w, p, old)
  BY ReadyBlock
<1>3. new > 0
  BY BytesPositive
<1>4. PICK a \in Alloc(w, new) :
        r = IF a.ptr = Null THEN a ELSE [a EXCEPT !.w = Free(CopyLive(a.w, a.ptr, live), p, old)]
  BY DEF NewBlock
<1>5. AllocEnds(C, V, w, new, a)
  BY <1>1, <1>2, <1>4, AllocFacts
<1>6. Asked(C, V, w, a)
  BY <1>5 DEF AllocEnds
<1>7. a.w.contract
  BY <1>1, <1>2, <1>3, <1>5, <1>6 DEF AllocEnds, Asked
<1>8. CASE a.ptr = Null
  BY <1>4, <1>6, <1>7, <1>8 DEF NewBlockEnds, Asked
<1>9. CASE a.ptr # Null
  <2> DEFINE q == a.ptr
             c == CopyLive(a.w, q, live)
             f == Free(c, p, old)
  <2>1. q \in Addresses \ DOMAIN w.blocks /\ a.w.blocks = Grant(w, q, new, <<>>)
    BY <1>5, <1>9 DEF AllocEnds
  <2>2. <<>> \in Seq(V)
    OBVIOUS
  <2>3. Granted(V, w, a.w.blocks, q, n, new, <<>>)
    <3>1. q \in Addresses /\ w.cb.elem_size # 0
      BY <1>1, <2>1
    <3> QED
      BY <1>1, <2>1, <2>2, <3>1, GrantFacts
  <2>4. a.w \in World(C, V) /\ a.w.cb = w.cb /\ w.calls \subseteq a.w.calls
    BY <1>6 DEF Asked
  <2>5. /\ DOMAIN a.w.blocks = {p, q} /\ p # q /\ a.w.blocks[p] = w.blocks[p]
        /\ a.w.blocks[q].bytes = new /\ a.w.blocks[q].align = w.cb.align
        /\ Len(a.w.blocks[q].slots) = n
    BY <1>2, <2>1, <2>3 DEF Granted
  <2>6. CopyEnds(C, V, a.w, q, live, c)
    BY <1>2, <2>4, <2>5, CopyLiveFacts
  <2> HIDE DEF q, p, c
  <2>7. /\ c \in World(C, V) /\ c.cb = w.cb /\ c.contract /\ w.calls \subseteq c.calls
        /\ DOMAIN c.blocks = {p, q} /\ c.blocks[p] = w.blocks[p]
    BY <1>7, <2>4, <2>5, <2>6 DEF CopyEnds
  <2>8. /\ c.blocks[q].bytes = new /\ c.blocks[q].align = w.cb.align /\ Len(c.blocks[q].slots) = n
        /\ \A i \in 1 .. n : i <= live => c.blocks[q].slots[i] = w.blocks[p].slots[i]
    BY <2>4, <2>5, <2>6 DEF CopyEnds, p
  <2>9. FreeEnds(C, V, c, p, old, f)
    BY <2>7, FreeFacts
  <2> HIDE DEF f
  <2>10. Owns(c, p, old)
    BY <1>2, <2>7 DEF Owns
  <2>11. f \in World(C, V) /\ f.cb = w.cb /\ f.contract /\ w.calls \subseteq f.calls
    BY <1>1, <2>7, <2>9, <2>10 DEF FreeEnds
  <2>12. DOMAIN f.blocks = {q} /\ f.blocks[q] = c.blocks[q]
    BY <2>5, <2>7, <2>9 DEF FreeEnds, Without
  <2>13. r.w = f /\ r.ptr = q
    BY <1>4, <1>6, <1>9 DEF Asked, f, c, q, p
  <2>14. \A i \in 1 .. live : f.blocks[q].slots[i] = w.blocks[p].slots[i]
    BY <1>1, <1>2, <2>8, <2>12
  <2> QED
    BY <1>9, <2>1, <2>8, <2>11, <2>12, <2>13, <2>14 DEF NewBlockEnds, q, p
<1> QED
  BY <1>8, <1>9

(* Whichever hooks the allocator has, the container has one block in the end. *)
LEMMA NewBlockFacts ==
  ASSUME NEW C, HasHooks(C), NEW V, Garbage \in V, NEW w, NEW live, NEW old,
         Ready(C, V, w, live, old), NEW n \in Nat \ {0}, live <= n,
         NEW r \in NewBlock(w, live, old, n * w.cb.elem_size)
  PROVE  NewBlockEnds(C, V, w, live, n, r)
  BY FirstBlockFacts, MovedBlockFacts, CopiedBlockFacts
=============================================================================

------------------------------- MODULE DvHeap -------------------------------
(* The heap of heap/dv_heap.c: a binary heap in one buffer with a scratch slot
   past its capacity, an order, and a hook that tells the owner of an element
   where the element has come to rest.

   An element is a record of its key and of the index its owner recorded at
   the last call of the hook (the index map of dv_heap.h:85, which the owner
   keeps inside the object).  Slots at or past the size are never read before
   they are written, so the model forgets what they hold.

   As in DvStack, operations that may call the allocator return the set of
   [w, status] they may end in.                                             *)
EXTENDS HookedMemory, FiniteSetsExt

CONSTANTS MinCapacity,  \* DV_HEAP_MIN_CAPACITY
          MallocAlign,  \* alignof(max_align_t)
          CacheLine,    \* DV_CACHE_LINE_SIZE
          PtrSize,      \* sizeof(void *) and alignof(void *)
          KeyWidths,    \* bytes of the key of each built-in key_type
          Configs,      \* configurations passed to dv_heap_init
          Allocators,   \* which hooks the caller's allocator has
          Keys,         \* integers, and NaN when the keys are floating point
          NaN,          \* a key that compares false with every key
          Batches       \* arrays of keys passed to build and push_bulk

ASSUME HeapAssumption ==
  /\ PtrSize \in Nat \ {0} /\ CacheLine \in Nat /\ IsPow2(CacheLine)
  /\ MinCapacity \in 2 .. SizeMax
  /\ MallocAlign \in Nat \ {0}
  /\ Keys \ {NaN} \subseteq Int
  /\ Batches \subseteq Seq(Keys) /\ \A batch \in Batches : Len(batch) <= SizeMax
  /\ Configs \subseteq [elem_size : 0 .. SizeMax, elem_align : 0 .. SizeMax,
                        initial_capacity : 0 .. SizeMax, max_capacity : 0 .. SizeMax,
                        growable : BOOLEAN, cache_aligned : BOOLEAN, order : {"MIN", "MAX"},
                        key_type : DOMAIN KeyWidths \cup {"CUSTOM"}, key_offset : 0 .. SizeMax,
                        key_indirect : BOOLEAN, compare : BOOLEAN, on_move : BOOLEAN]
  /\ Allocators \subseteq [alloc : BOOLEAN, realloc : BOOLEAN, free : BOOLEAN]

VARIABLES heap,      \* the control block, dv_heap_t
          blocks,    \* what the allocator has handed out and not got back
          contract,  \* history: every call so far kept to the hooks' contract
          last       \* the last call: its name and its reply

vars == <<heap, blocks, contract, last>>

(* What memset makes of the control block. *)
Zeroed == [buffer |-> Null, size |-> 0, capacity |-> 0, elem_size |-> 0, order |-> "MIN",
           on_move |-> FALSE, align |-> 0, initial_capacity |-> 0, max_capacity |-> 0,
           allocator |-> NoHooks, growable |-> FALSE]

(***************************************************************************)
(* Size arithmetic.                                                        *)
(***************************************************************************)
(* One slot more than the capacity: the scratch slot of the sifts. *)
NoScratch(capacity, elem_size) == capacity * elem_size

BytesFor(capacity, elem_size) == IF capacity = 0 THEN 0 ELSE (capacity + 1) * elem_size

(* The ceiling keeps the child indices 2i + 2 inside a size_t. *)
BytesFit(capacity, elem_size) ==
  capacity # 0 => capacity <= (SizeMax - 2) \div 2 /\ elem_size <= SizeMax \div (capacity + 1)

NextCapacity(capacity) ==
  LET half == capacity \div 2 IN
  IF capacity < MinCapacity THEN MinCapacity
  ELSE IF capacity > SizeMax - half THEN SizeMax
  ELSE capacity + half

ClampCapacity(h, capacity) ==
  IF h.max_capacity # 0 /\ capacity > h.max_capacity THEN h.max_capacity ELSE capacity

(***************************************************************************)
(* Slots and ordering.                                                     *)
(***************************************************************************)
Slot(w, index) == w.blocks[w.cb.buffer].slots[index + 1]

KeyLess(j, k) == j # NaN /\ k # NaN /\ j < k

Before(order, j, k) == IF order = "MIN" THEN KeyLess(j, k) ELSE KeyLess(k, j)

ElemBefore(w, d, e) == Before(w.cb.order, d.key, e.key)

SkipsRoot(w, e, index) == IF w.cb.on_move /\ index > 0 THEN [e EXCEPT !.at = index] ELSE e

(* The hook, called with the slot of an index: the owner records the index. *)
Notified(w, e, index) == IF w.cb.on_move THEN [e EXCEPT !.at = index] ELSE e

(* The elements of `moved' come to rest at the indices of its domain. *)
Settle(w, moved) ==
  [w EXCEPT !.blocks[w.cb.buffer].slots =
     [i \in DOMAIN @ |-> IF i - 1 \in DOMAIN moved THEN Notified(w, moved[i - 1], i - 1) ELSE @[i]]]

(* dv_heap_notify_all *)
NotifyAll(w) == IF w.cb.size = 0 THEN w ELSE Settle(w, [i \in 0 .. w.cb.size - 1 |-> Slot(w, i)])

(* memcpy of a slot to the scratch slot, which the buffer must have. *)
Carry(w, index) == [w EXCEPT !.contract = @ /\ w.cb.capacity + 1 \in DOMAIN w.blocks[w.cb.buffer].slots]

(***************************************************************************)
(* Sift loops: a hole travels along a path, each element of the path moves  *)
(* one step the other way, and the item drops into the hole.               *)
(***************************************************************************)
Parent(index) == (index - 1) \div 2

(* The indices that the hole passes on its way from each index to the root. *)
Rises(w, index, item) ==
  LET rises[i \in 0 .. index] ==
        IF i > 0 /\ ElemBefore(w, item, Slot(w, Parent(i))) THEN {i} \cup rises[Parent(i)] ELSE {i}
  IN rises

SiftUp(w, index, item) ==
  LET path == Rises(w, index, item)[index]
  IN Settle(w, [i \in path |-> IF i = Min(path) THEN item ELSE Slot(w, Parent(i))])

(* The child that belongs closer to the root, the left one if neither does. *)
FirstChild(w, index) ==
  LET left == 2 * index + 1
      right == left + 1
  IN IF right < w.cb.size /\ ElemBefore(w, Slot(w, right), Slot(w, left)) THEN right ELSE left

(* The indices that the hole passes on its way from each index to a leaf. *)
Sinks(w, index, item) ==
  LET sinks[i \in index .. w.cb.size] ==
        IF 2 * i + 1 < w.cb.size /\ ElemBefore(w, Slot(w, FirstChild(w, i)), item)
        THEN {i} \cup sinks[FirstChild(w, i)] ELSE {i}
  IN sinks

SiftDown(w, index, item) ==
  LET path == Sinks(w, index, item)[index]
  IN Settle(w, [i \in path |-> IF i = Max(path) THEN item ELSE Slot(w, FirstChild(w, i))])

(* Which way an element put at an index has to go. *)
OnlyDown(w, index, item) == SiftDown(w, index, item)

Sift(w, index, item) ==
  IF index > 0 /\ ElemBefore(w, item, Slot(w, Parent(index))) THEN SiftUp(w, index, item)
  ELSE SiftDown(w, index, item)

(***************************************************************************)
(* Buffer management.                                                      *)
(***************************************************************************)
SetCapacity(w, new_capacity) ==
  LET h == w.cb
      old_bytes == BytesFor(h.capacity, h.elem_size)
      new_bytes == BytesFor(new_capacity, h.elem_size)
  IN IF new_capacity = h.capacity THEN {Ends(w, "OK")}
     ELSE IF new_capacity < h.size THEN {Ends(w, "INVALID")}
     ELSE IF ~BytesFit(h.capacity, h.elem_size) \/ ~BytesFit(new_capacity, h.elem_size)
     THEN {Ends(w, "OVERFLOW")}
     ELSE IF new_bytes = 0
     THEN LET freed == IF h.buffer = Null THEN w ELSE Free(w, h.buffer, old_bytes)
          IN {Ends([freed EXCEPT !.cb.buffer = Null, !.cb.capacity = 0], "OK")}
     ELSE {Install(r, new_capacity) : r \in NewBlock(w, h.size, old_bytes, new_bytes)}

GrowForPush(w) ==
  LET next == ClampCapacity(w.cb, NextCapacity(w.cb.capacity))
  IN IF w.cb.size < w.cb.capacity THEN {Ends(w, "OK")}
     ELSE IF ~w.cb.growable \/ next <= w.cb.capacity THEN {Ends(w, "FULL")}
     ELSE SetCapacity(w, next)

GrowForBulk(w, needed) ==
  LET curve == NextCapacity(w.cb.capacity)
      target == ClampCapacity(w.cb, IF needed > curve THEN needed ELSE curve)
      exact == ClampCapacity(w.cb, needed)
      first == IF target > w.cb.capacity THEN SetCapacity(w, target) ELSE {Ends(w, "FULL")}
  IN UNION {IF r.status # "OK" /\ exact > r.w.cb.capacity /\ exact < target
            THEN SetCapacity(r.w, exact) ELSE {r} : r \in first}

Reserved(w, capacity) ==
  IF capacity <= w.cb.capacity THEN {Ends(w, "OK")}
  ELSE IF ~w.cb.growable \/ (w.cb.max_capacity # 0 /\ capacity > w.cb.max_capacity)
  THEN {Ends(w, "FULL")}
  ELSE SetCapacity(w, capacity)

(***************************************************************************)
(* Elements in, out and in order.                                          *)
(***************************************************************************)
Elem(key) == [key |-> key, at |-> Garbage]

(* memcpy of a run of elements to the slots from `index' on. *)
CopyIn(w, index, batch) ==
  [w EXCEPT !.blocks[w.cb.buffer].slots =
              [i \in DOMAIN @ |-> IF i - index \in DOMAIN batch THEN Elem(batch[i - index]) ELSE @[i]],
            !.cb.size = index + Len(batch)]

(* The element at an index is carried down, or up, from where it is. *)
Sunk(w, index) == SiftDown(Carry(w, index), index, Slot(w, index))

Risen(w, index) == SiftUp(Carry(w, index), index, Slot(w, index))

(* Floyd's bottom-up pass: what the heap is after k of its sifts. *)
Pass(w) ==
  LET half == w.cb.size \div 2
      pass[k \in 0 .. half] == IF k = 0 THEN w ELSE Sunk(pass[k - 1], half - k)
  IN pass

(* The pass with the hook set aside, then one sweep of the hook. *)
Heapified(w) ==
  LET passed == Pass([w EXCEPT !.cb.on_move = FALSE])[w.cb.size \div 2]
  IN NotifyAll([passed EXCEPT !.cb.on_move = w.cb.on_move])

(* The heap after the first k of the appended elements are sifted up. *)
SiftedIn(w, old_size, n) ==
  LET sifted[k \in 0 .. n] == IF k = 0 THEN w ELSE Risen(sifted[k - 1], old_size + k - 1)
  IN sifted

(* The last element takes the place of the one removed, unless it is that one. *)
Removed(w, index) ==
  LET v == [w EXCEPT !.cb.size = @ - 1]
  IN IF index = v.cb.size THEN v ELSE Sift(Carry(v, v.cb.size), index, Slot(v, v.cb.size))

(* dv_heap_pop of a heap that is not empty. *)
RootRemoved(w) ==
  LET v == [w EXCEPT !.cb.size = @ - 1]
  IN IF v.cb.size = 0 THEN v ELSE SiftDown(Carry(v, v.cb.size), 0, Slot(v, v.cb.size))

(* The heap after the first k of n pops. *)
Popped(w, n) ==
  LET popped[k \in 0 .. n] == IF k = 0 THEN w ELSE RootRemoved(popped[k - 1])
  IN popped

(***************************************************************************)
(* The calls.                                                              *)
(***************************************************************************)
W == [cb |-> heap, blocks |-> blocks, contract |-> contract, calls |-> {}]

Commit(op, w, status, n, out) ==
  /\ heap' = w.cb
  /\ blocks' = [p \in DOMAIN w.blocks |->
                  [w.blocks[p] EXCEPT !.slots = [i \in DOMAIN @ |-> IF i <= w.cb.size THEN @[i] ELSE Garbage]]]
  /\ contract' = w.contract
  /\ last' = [op |-> op, status |-> status, n |-> n, out |-> out]

Align(config) ==
  LET elem_align == IF config.elem_align = 0 THEN MallocAlign ELSE config.elem_align
  IN IF config.cache_aligned /\ elem_align < CacheLine THEN CacheLine ELSE elem_align

(* A key inside the element fits it; a key behind a pointer needs a pointer. *)
ValidKey(config) ==
  /\ config.key_type = "CUSTOM" => config.compare
  /\ config.key_indirect => config.elem_size = PtrSize /\ Align(config) % PtrSize = 0
  /\ ~config.key_indirect /\ config.key_type # "CUSTOM" =>
       KeyWidths[config.key_type] + config.key_offset <= config.elem_size

ValidConfig(config) ==
  LET elem_align == IF config.elem_align = 0 THEN MallocAlign ELSE config.elem_align
  IN /\ config.elem_size # 0
     /\ IsPow2(elem_align)
     /\ config.elem_size % elem_align = 0
     /\ ValidKey(config)
     /\ config.growable => config.max_capacity = 0 \/ config.max_capacity >= config.initial_capacity

Configured(config, allocator) ==
  [Zeroed EXCEPT
     !.elem_size = config.elem_size,
     !.order = config.order,
     !.on_move = config.on_move,
     !.align = Align(config),
     !.initial_capacity = config.initial_capacity,
     !.max_capacity = IF config.growable THEN config.max_capacity ELSE config.initial_capacity,
     !.allocator = allocator,
     !.growable = config.growable]

HeapInit(config, allocator) ==
  /\ heap = Zeroed
  /\ IF ValidConfig(config) /\ allocator.alloc /\ allocator.free
     THEN \E r \in SetCapacity([W EXCEPT !.cb = Configured(config, allocator)], config.initial_capacity) :
            IF r.status = "OK" THEN Commit("init", r.w, "OK", 0, <<>>)
            ELSE Commit("init", [r.w EXCEPT !.cb = Zeroed], r.status, 0, <<>>)
     ELSE Commit("init", W, "INVALID", 0, <<>>)

Destroy ==
  LET w == IF heap.buffer # Null /\ heap.allocator.free
           THEN Free(W, heap.buffer, BytesFor(heap.capacity, heap.elem_size)) ELSE W
  IN Commit("destroy", [w EXCEPT !.cb = Zeroed], "OK", 0, <<>>)

Reset ==
  \E r \in SetCapacity([W EXCEPT !.cb.size = 0], heap.initial_capacity) :
    Commit("reset", r.w, r.status, 0, <<>>)

Clear == Commit("clear", [W EXCEPT !.cb.size = 0], "OK", 0, <<>>)

Reserve(capacity) == \E r \in Reserved(W, capacity) : Commit("reserve", r.w, r.status, 0, <<>>)

ShrinkToFit ==
  \E r \in IF ~heap.growable \/ heap.capacity = heap.size THEN {Ends(W, "OK")} ELSE SetCapacity(W, heap.size) :
    Commit("shrink", r.w, r.status, 0, <<>>)

NeedsRoom == heap.size = heap.capacity

(* The new element sifts up from index `size' before the size is raised. *)
Push(key) ==
  \E r \in IF NeedsRoom THEN GrowForPush(W) ELSE {Ends(W, "OK")} :
    IF r.status = "OK"
    THEN Commit("push", [SiftUp(r.w, heap.size, Elem(key)) EXCEPT !.cb.size = @ + 1], "OK", 1, <<>>)
    ELSE Commit("push", r.w, r.status, 0, <<>>)

(* `wanted' is false when the caller passes a NULL out. *)
Pop(wanted) ==
  IF heap.size = 0 THEN Commit("pop", W, "EMPTY", 0, <<>>)
  ELSE Commit("pop", RootRemoved(W), "OK", 1, IF wanted THEN <<Slot(W, 0).key>> ELSE <<>>)

Peek ==
  IF heap.size = 0 THEN Commit("peek", W, "EMPTY", 0, <<>>)
  ELSE Commit("peek", W, "OK", 0, <<Slot(W, 0).key>>)

ReplaceTop(key, wanted) ==
  IF heap.size = 0 THEN Commit("replace_top", W, "EMPTY", 0, <<>>)
  ELSE Commit("replace_top", SiftDown(W, 0, Elem(key)), "OK", 0, IF wanted THEN <<Slot(W, 0).key>> ELSE <<>>)

(* When keys are read through pointers the element is edited before the call,
   and the heap's own slot already shows the new key.                       *)
Edited(w, index, key) == [w EXCEPT !.blocks[w.cb.buffer].slots[index + 1].key = key]

UpdateAt(index, key, indirect) ==
  IF index >= heap.size THEN Commit("update_at", W, "INVALID", 0, <<>>)
  ELSE LET w == IF indirect THEN Edited(W, index, key) ELSE W
           elem == IF indirect THEN Slot(w, index) ELSE Elem(key)
       IN Commit("update_at", Sift(w, index, elem), "OK", 0, <<>>)

ReadsAfterRemoval(index, wanted) ==
  IF index >= heap.size THEN Commit("remove_at", W, "INVALID", 0, <<>>)
  ELSE LET w == Removed(W, index)
       IN Commit("remove_at", w, "OK", 1, IF wanted THEN <<Slot(w, index).key>> ELSE <<>>)

RemoveAt(index, wanted) ==
  IF index >= heap.size THEN Commit("remove_at", W, "INVALID", 0, <<>>)
  ELSE Commit("remove_at", Removed(W, index), "OK", 1, IF wanted THEN <<Slot(W, index).key>> ELSE <<>>)

(* dv_heap_heapify after the caller edited an element in place; a key edited
   to what it was is a heapify of a heap in order.                          *)
Heapify(index, key) ==
  IF index >= heap.size THEN Commit("heapify", Heapified(W), "OK", 0, <<>>)
  ELSE Commit("heapify", Heapified(Edited(W, index, key)), "OK", 0, <<>>)

Build(batch) ==
  IF batch = <<>> THEN Commit("build", [W EXCEPT !.cb.size = 0], "OK", 0, <<>>)
  ELSE \E r \in Reserved(W, Len(batch)) :
         IF r.status = "OK" THEN Commit("build", Heapified(CopyIn(r.w, 0, batch)), "OK", 0, <<>>)
         ELSE Commit("build", r.w, r.status, 0, <<>>)

(* A run at least as long as the contents is heapified with them. *)
PushBulk(batch) ==
  LET count == Len(batch)
      grows == heap.capacity - heap.size < count /\ heap.growable /\ count <= SizeMax - heap.size
      outcomes == IF count > 0 /\ grows THEN GrowForBulk(W, heap.size + count) ELSE {Ends(W, "OK")}
  IN \E r \in outcomes :
       LET n == Min({count, r.w.cb.capacity - r.w.cb.size})
           filled == CopyIn(r.w, heap.size, SubSeq(batch, 1, n))
       IN IF n = 0 THEN Commit("push_bulk", r.w, "OK", 0, <<>>)
          ELSE IF n >= heap.size THEN Commit("push_bulk", Heapified(filled), "OK", n, <<>>)
          ELSE Commit("push_bulk", SiftedIn(filled, heap.size, n)[n], "OK", n, <<>>)

(* As many pops as asked for, or as there are elements. *)
PopBulk(count, wanted) ==
  LET n == Min({count, heap.size})
      after == Popped(W, n)
  IN Commit("pop_bulk", after[n], "OK", n,
            IF wanted THEN [i \in 1 .. n |-> Slot(after[i - 1], 0).key] ELSE <<>>)

Init ==
  /\ heap = Zeroed
  /\ blocks = [p \in {} |-> 0]
  /\ contract = TRUE
  /\ last = [op |-> "none", status |-> "OK", n |-> 0, out |-> <<>>]

Next ==
  \/ \E config \in Configs, allocator \in Allocators : HeapInit(config, allocator)
  \/ Destroy \/ Reset \/ Clear \/ ShrinkToFit \/ Peek
  \/ \E capacity \in 0 .. SizeMax : Reserve(capacity)
  \/ \E key \in Keys : Push(key)
  \/ \E wanted \in BOOLEAN :
       \/ Pop(wanted)
       \/ \E key \in Keys : ReplaceTop(key, wanted)
       \/ \E index \in 0 .. heap.size : RemoveAt(index, wanted)
       \/ \E count \in 0 .. heap.size + 1 : PopBulk(count, wanted)
  \/ \E index \in 0 .. heap.size, key \in Keys :
       \/ \E indirect \in BOOLEAN : UpdateAt(index, key, indirect)
       \/ Heapify(index, key)
  \/ \E batch \in Batches : Build(batch) \/ PushBulk(batch)

Spec == Init /\ [][Next]_vars

(***************************************************************************)
(* Correctness.                                                            *)
(***************************************************************************)
Elems == [i \in 0 .. heap.size - 1 |-> Slot(W, i)]

TypeOK ==
  /\ heap \in [buffer : Addresses \cup {Null}, size : 0 .. SizeMax, capacity : 0 .. SizeMax,
               elem_size : 0 .. SizeMax, order : {"MIN", "MAX"}, on_move : BOOLEAN, align : Nat,
               initial_capacity : 0 .. SizeMax, max_capacity : 0 .. SizeMax,
               allocator : [alloc : BOOLEAN, realloc : BOOLEAN, free : BOOLEAN], growable : BOOLEAN]
  /\ heap.size <= heap.capacity
  /\ \A i \in DOMAIN Elems : Elems[i] \in [key : Keys, at : Nat \cup {Garbage}]
  /\ contract \in BOOLEAN

(* dv_heap_is_valid *)
IsValid ==
  /\ heap.size <= heap.capacity
  /\ heap.size > 0 => heap.buffer # Null
  /\ \A i \in 1 .. heap.size - 1 : ~ElemBefore(W, Elems[i], Elems[Parent(i)])

(* "Heap-order property is preserved after every mutating operation"
   (heap/DESIGN.md:30): whichever way the sifts of a call go, the heap that
   the call leaves is one that dv_heap_is_valid accepts.                    *)
HeapOrder == IsValid

(* on_move, the index map: after any sequence of calls the index that the
   owner of each element last recorded is where the element is, so that it
   can be handed to update_at and remove_at.                                *)
IndexMapExact == heap.on_move => \A i \in DOMAIN Elems : Elems[i].at = i

(* The heap holds exactly the one block its buffer points to, of the bytes of
   its capacity and the scratch slot; no hook was called with anything else
   and no sift carried an element outside the block.                        *)
MemoryAccounted ==
  /\ TypeOK
  /\ contract
  /\ DOMAIN blocks = {heap.buffer} \ {Null}
  /\ heap.buffer = Null <=> heap.capacity = 0
  /\ heap.buffer # Null =>
       /\ blocks[heap.buffer].bytes = BytesFor(heap.capacity, heap.elem_size)
       /\ blocks[heap.buffer].bytes <= SizeMax
       /\ blocks[heap.buffer].align = heap.align
       /\ 2 * heap.capacity + 2 <= SizeMax

Ceiling ==
  IF ~heap.growable THEN heap.initial_capacity
  ELSE IF heap.max_capacity = 0 THEN SizeMax
  ELSE heap.max_capacity

KeyBag == [k \in Keys |-> Cardinality({i \in DOMAIN Elems : Elems[i].key = k})]

Bag == INSTANCE PriorityBag
  WITH bag <- KeyBag, order <- heap.order, ceiling <- Ceiling,
       reply <- [op |-> last.op, status |-> last.status, n |-> last.n, out |-> last.out]

(* The heap implements PriorityBag: no call loses or duplicates an element,
   pop and pop_bulk deliver the keys in order, build and the bulk calls take
   what they say they took, and a refused call changes nothing.             *)
ImplementsBag == Bag!Init /\ [][Bag!Next(Batches)]_vars
=============================================================================

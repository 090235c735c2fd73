------------------------------ MODULE DvStack ------------------------------
(* The stack of stack/dv_stack.c and the inline operations of
   stack/dv_stack.h, with the allocator behind its hooks.

   An operation may call the allocator several times, and each call may be
   refused, so the outcome of an operation is a set: every helper takes the
   state w of the control block and of the allocator and returns the set of
   [w, status] it may end in.  The actions at the end take one of them.

   Sizes are words: SizeMax is SIZE_MAX.                                    *)
EXTENDS HookedMemory, SequencesExt

CONSTANTS MinCapacity,  \* DV_STACK_MIN_CAPACITY
          MallocAlign,  \* alignof(max_align_t)
          CacheLine,    \* DV_CACHE_LINE_SIZE
          PtrSize,      \* sizeof(void *) and alignof(void *)
          Configs,      \* configurations passed to dv_stack_init
          Allocators,   \* which hooks the caller's allocator has
          Values,       \* elements
          Batches       \* arrays passed to dv_stack_push_bulk

(* A floor below 2 would stop growth: 1.5 times 1 is 1. *)
ASSUME StackAssumption ==
  /\ PtrSize \in Nat \ {0} /\ CacheLine \in Nat /\ IsPow2(CacheLine)
  /\ MinCapacity \in 2 .. SizeMax
  /\ MallocAlign \in Nat \ {0}
  /\ Garbage \notin Values /\ Null \notin Values
  /\ Batches \subseteq Seq(Values)
  /\ Configs \subseteq [elem_size : 0 .. SizeMax, elem_align : 0 .. SizeMax,
                        initial_capacity : 0 .. SizeMax, max_capacity : 0 .. SizeMax,
                        growable : BOOLEAN, cache_aligned : BOOLEAN]
  /\ Allocators \subseteq [alloc : BOOLEAN, realloc : BOOLEAN, free : BOOLEAN]

VARIABLES stack,     \* the control block, dv_stack_t
          blocks,    \* what the allocator has handed out and not got back
          contract,  \* history: every call so far kept to the hooks' contract
          last       \* the last call: its name, its reply and the hooks it called

vars == <<stack, blocks, contract, last>>

(* What memset makes of the control block. *)
Zeroed == [buffer |-> Null, top |-> 0, capacity |-> 0, elem_size |-> 0, align |-> 0,
           initial_capacity |-> 0, max_capacity |-> 0, allocator |-> NoHooks,
           growable |-> FALSE, ptr_mode |-> FALSE]

(***************************************************************************)
(* Size and alignment arithmetic.                                          *)
(***************************************************************************)
(* Whether capacity * elem_size fits a size_t. *)
BytesFit(capacity, elem_size) == capacity # 0 => elem_size <= SizeMax \div capacity

NextCapacity(capacity) ==
  LET half == capacity \div 2 IN
  IF capacity < MinCapacity THEN MinCapacity
  ELSE IF capacity > SizeMax - half THEN SizeMax
  ELSE capacity + half

IgnoresCeiling(s, capacity) == capacity

ClampCapacity(s, capacity) ==
  IF s.max_capacity # 0 /\ capacity > s.max_capacity THEN s.max_capacity ELSE capacity

(***************************************************************************)
(* Buffer management.                                                      *)
(***************************************************************************)
SetCapacity(w, new_capacity) ==
  LET s == w.cb
      old_bytes == s.capacity * s.elem_size
      new_bytes == new_capacity * s.elem_size
  IN IF new_capacity = s.capacity THEN {Ends(w, "OK")}
     ELSE IF new_capacity < s.top THEN {Ends(w, "INVALID")}
     ELSE IF ~BytesFit(s.capacity, s.elem_size) \/ ~BytesFit(new_capacity, s.elem_size)
     THEN {Ends(w, "OVERFLOW")}
     ELSE IF new_bytes = 0
     THEN LET freed == IF s.buffer = Null THEN w ELSE Free(w, s.buffer, old_bytes)
          IN {Ends([freed EXCEPT !.cb.buffer = Null, !.cb.capacity = 0], "OK")}
     ELSE {Install(r, new_capacity) : r \in NewBlock(w, s.top, old_bytes, new_bytes)}

GrowForPush(w) ==
  LET s == w.cb
      next == ClampCapacity(s, NextCapacity(s.capacity))
  IN IF s.top < s.capacity THEN {Ends(w, "OK")}
     ELSE IF ~s.growable \/ next <= s.capacity THEN {Ends(w, "FULL")}
     ELSE SetCapacity(w, next)

(* Aim for the growth curve, fall back to exactly what is needed. *)
GrowForBulk(w, needed) ==
  LET curve == NextCapacity(w.cb.capacity)
      target == ClampCapacity(w.cb, IF needed > curve THEN needed ELSE curve)
      exact == ClampCapacity(w.cb, needed)
      first == IF target > w.cb.capacity THEN SetCapacity(w, target) ELSE {Ends(w, "FULL")}
  IN UNION {IF r.status # "OK" /\ exact > r.w.cb.capacity /\ exact < target
            THEN SetCapacity(r.w, exact) ELSE {r} : r \in first}

(***************************************************************************)
(* Elements.                                                               *)
(***************************************************************************)
(* memcpy of the batch to the slots from `top' on, and the new top. *)
Store(w, batch) ==
  LET top == w.cb.top IN
  [w EXCEPT !.blocks[w.cb.buffer].slots =
              [i \in DOMAIN @ |-> IF i \in top + 1 .. top + Len(batch) THEN batch[i - top] ELSE @[i]],
            !.cb.top = top + Len(batch)]

(* The element `depth' slots below the top. *)
At(w, depth) == w.blocks[w.cb.buffer].slots[w.cb.top - depth]

(* The n uppermost elements in the order n pops would deliver them. *)
MemoryOrder(w, n) == [i \in 1 .. n |-> At(w, n - i)]

Popped(w, n) == [i \in 1 .. n |-> At(w, i - 1)]

(***************************************************************************)
(* The calls.                                                              *)
(***************************************************************************)
W == [cb |-> stack, blocks |-> blocks, contract |-> contract, calls |-> {}]

Answer(op, w, status, asked, n, out) ==
  /\ stack' = w.cb
  /\ blocks' = w.blocks
  /\ contract' = w.contract
  /\ last' = [op |-> op, status |-> status, asked |-> asked, n |-> n, out |-> out, calls |-> w.calls]

Commit(op, w, status, n, out) == Answer(op, w, status, 0, n, out)

PushCommit(op, w, status, asked, n) == Answer(op, w, status, asked, n, <<>>)

(* The configuration that dv_stack_init accepts. *)
Align(config) ==
  LET elem_align == IF config.elem_align = 0 THEN MallocAlign ELSE config.elem_align
  IN IF config.cache_aligned /\ elem_align < CacheLine THEN CacheLine ELSE elem_align

ValidConfig(config) ==
  LET elem_align == IF config.elem_align = 0 THEN MallocAlign ELSE config.elem_align
  IN /\ config.elem_size # 0
     /\ IsPow2(elem_align)
     /\ config.elem_size % elem_align = 0
     /\ config.growable => config.max_capacity = 0 \/ config.max_capacity >= config.initial_capacity

(* A fixed stack's ceiling is its initial capacity. *)
Configured(config, allocator) ==
  [Zeroed EXCEPT
     !.elem_size = config.elem_size,
     !.align = Align(config),
     !.initial_capacity = config.initial_capacity,
     !.max_capacity = IF config.growable THEN config.max_capacity ELSE config.initial_capacity,
     !.allocator = allocator,
     !.growable = config.growable,
     !.ptr_mode = config.elem_size = PtrSize /\ Align(config) % PtrSize = 0]

(* A failed initialization leaves the control block zeroed. *)
StackInit(config, allocator) ==
  /\ stack = Zeroed
  /\ IF ValidConfig(config) /\ allocator.alloc /\ allocator.free
     THEN \E r \in SetCapacity([W EXCEPT !.cb = Configured(config, allocator)], config.initial_capacity) :
            IF r.status = "OK" THEN Commit("init", r.w, "OK", 0, <<>>)
            ELSE Commit("init", [r.w EXCEPT !.cb = Zeroed], r.status, 0, <<>>)
     ELSE Commit("init", W, "INVALID", 0, <<>>)

ReleaseBuffer(w) == Free(w, w.cb.buffer, w.cb.capacity * w.cb.elem_size)

Destroy ==
  LET w == IF stack.buffer # Null /\ stack.allocator.free THEN ReleaseBuffer(W) ELSE W
  IN Commit("destroy", [w EXCEPT !.cb = Zeroed], "OK", 0, <<>>)

(* The contents go even if the resize fails. *)
Reset ==
  \E r \in SetCapacity([W EXCEPT !.cb.top = 0], stack.initial_capacity) :
    Commit("reset", r.w, r.status, 0, <<>>)

Clear == Commit("clear", [W EXCEPT !.cb.top = 0], "OK", 0, <<>>)

Reserve(capacity) ==
  LET pinned == ~stack.growable \/ (stack.max_capacity # 0 /\ capacity > stack.max_capacity)
      outcomes == IF capacity <= stack.capacity THEN {Ends(W, "OK")}
                  ELSE IF pinned THEN {Ends(W, "FULL")}
                  ELSE SetCapacity(W, capacity)
  IN \E r \in outcomes : Commit("reserve", r.w, r.status, 0, <<>>)

ShrinkToFit ==
  LET outcomes == IF ~stack.growable \/ stack.capacity = stack.top THEN {Ends(W, "OK")}
                  ELSE SetCapacity(W, stack.top)
  IN \E r \in outcomes : Commit("shrink", r.w, r.status, 0, <<>>)

RollsBackTop(v) ==
  \E r \in IF stack.top = stack.capacity THEN GrowForPush(W) ELSE {Ends(W, "OK")} :
    IF r.status = "OK" THEN PushCommit("push", Store(r.w, <<v>>), "OK", 1, 1)
    ELSE PushCommit("push", [r.w EXCEPT !.cb.top = IF @ > 0 THEN @ - 1 ELSE @], r.status, 1, 0)

(* dv_stack_push and, on a stack of pointers, dv_stack_push_ptr. *)
Push(v) ==
  \E r \in IF stack.top = stack.capacity THEN GrowForPush(W) ELSE {Ends(W, "OK")} :
    IF r.status = "OK" THEN PushCommit("push", Store(r.w, <<v>>), "OK", 1, 1)
    ELSE PushCommit("push", r.w, r.status, 1, 0)

PushPtr(v) == IF stack.ptr_mode THEN Push(v) ELSE PushCommit("push", W, "INVALID", 1, 0)

(* `wanted' is false when the caller passes a NULL out. *)
Pop(wanted) ==
  IF stack.top = 0 THEN Commit("pop", W, "EMPTY", 0, <<>>)
  ELSE Commit("pop", [W EXCEPT !.cb.top = @ - 1], "OK", 1, IF wanted THEN Popped(W, 1) ELSE <<>>)

PopPtr ==
  IF ~stack.ptr_mode THEN Commit("pop_ptr", W, "INVALID", 0, <<>>)
  ELSE IF stack.top = 0 THEN Commit("pop_ptr", W, "EMPTY", 0, <<Null>>)
  ELSE Commit("pop_ptr", [W EXCEPT !.cb.top = @ - 1], "OK", 1, Popped(W, 1))

Peek ==
  IF stack.top = 0 THEN Commit("peek", W, "EMPTY", 0, <<>>)
  ELSE Commit("peek", W, "OK", 0, <<At(W, 0)>>)

PeekPtr ==
  IF ~stack.ptr_mode THEN Commit("peek_ptr", W, "INVALID", 0, <<>>)
  ELSE IF stack.top = 0 THEN Commit("peek_ptr", W, "EMPTY", 0, <<Null>>)
  ELSE Commit("peek_ptr", W, "OK", 0, <<At(W, 0)>>)

(* dv_stack_at, dv_stack_top: NULL when out of range. *)
ViewAt(depth) ==
  IF depth >= stack.top THEN Commit("at", W, "INVALID", 0, <<>>)
  ELSE Commit("at", W, "OK", 0, <<At(W, depth)>>)

StopsBelowMax(count) ==
  stack.capacity - stack.top < count /\ stack.growable /\ count < SizeMax - stack.top

BulkGrows(count) ==
  stack.capacity - stack.top < count /\ stack.growable /\ count <= SizeMax - stack.top

(* The batch is an array of elements of this stack's size, so its bytes fit. *)
PushBulk(batch) ==
  LET count == Len(batch)
      outcomes == IF count > 0 /\ BulkGrows(count) THEN GrowForBulk(W, stack.top + count) ELSE {Ends(W, "OK")}
  IN /\ BytesFit(count, stack.elem_size)
     /\ \E r \in outcomes :
          LET room == r.w.cb.capacity - r.w.cb.top
              n == IF count < room THEN count ELSE room
          IN IF n = 0 THEN PushCommit("push_bulk", r.w, "OK", count, 0)
             ELSE PushCommit("push_bulk", Store(r.w, SubSeq(batch, 1, n)), "OK", count, n)

PopBulk(count, wanted) ==
  LET n == IF count < stack.top THEN count ELSE stack.top
  IN Commit("pop_bulk", [W EXCEPT !.cb.top = @ - n], "OK", n, IF wanted THEN Popped(W, n) ELSE <<>>)

Init ==
  /\ stack = Zeroed
  /\ blocks = [a \in {} |-> 0]
  /\ contract = TRUE
  /\ last = [op |-> "none", status |-> "OK", asked |-> 0, n |-> 0, out |-> <<>>, calls |-> {}]

Next ==
  \/ \E config \in Configs, allocator \in Allocators : StackInit(config, allocator)
  \/ Destroy \/ Reset \/ Clear \/ ShrinkToFit
  \/ \E capacity \in 0 .. SizeMax : Reserve(capacity)
  \/ \E v \in Values : Push(v) \/ PushPtr(v)
  \/ \E wanted \in BOOLEAN : Pop(wanted)
  \/ PopPtr \/ Peek \/ PeekPtr
  \/ \E depth \in 0 .. SizeMax : ViewAt(depth)
  \/ \E batch \in Batches : PushBulk(batch)
  \/ \E count \in 0 .. SizeMax, wanted \in BOOLEAN : PopBulk(count, wanted)

Spec == Init /\ [][Next]_vars

(***************************************************************************)
(* Correctness.                                                            *)
(***************************************************************************)
TypeOK ==
  /\ stack \in [buffer : Addresses \cup {Null}, top : 0 .. SizeMax, capacity : 0 .. SizeMax,
                elem_size : 0 .. SizeMax, align : Nat, initial_capacity : 0 .. SizeMax,
                max_capacity : 0 .. SizeMax,
                allocator : [alloc : BOOLEAN, realloc : BOOLEAN, free : BOOLEAN],
                growable : BOOLEAN, ptr_mode : BOOLEAN]
  /\ stack.top <= stack.capacity
  /\ contract \in BOOLEAN

(* The memory side of every path of dv_stack_set_capacity, and of init, reset
   and destroy: the stack holds exactly the one block its buffer points to, of
   exactly the bytes its capacity stands for, so every free and realloc has
   named a live block by its exact size and alignment, nothing leaks, and no
   hook of a zeroed control block is ever called.                           *)
MemoryAccounted ==
  /\ TypeOK
  /\ contract
  /\ DOMAIN blocks = {stack.buffer} \ {Null}
  /\ stack.buffer = Null <=> stack.capacity = 0
  /\ stack.buffer # Null =>
       /\ blocks[stack.buffer].bytes = stack.capacity * stack.elem_size
       /\ blocks[stack.buffer].bytes <= SizeMax
       /\ blocks[stack.buffer].align = stack.align

(* dv_stack.h, max_capacity and growable: no sequence of pushes, bulk pushes,
   reserves, shrinks and resets takes a stack past its ceiling, and a fixed
   stack is always at its initial capacity.                                 *)
CeilingKept ==
  /\ stack.max_capacity # 0 => stack.capacity <= stack.max_capacity
  /\ ~stack.growable => stack.capacity = stack.initial_capacity

Ceiling ==
  IF ~stack.growable THEN stack.initial_capacity
  ELSE IF stack.max_capacity = 0 THEN SizeMax
  ELSE stack.max_capacity

Contents == IF stack.buffer = Null THEN <<>> ELSE SubSeq(blocks[stack.buffer].slots, 1, stack.top)

Lifo == INSTANCE BoundedLifo
  WITH items <- Contents, ceiling <- Ceiling, NoValue <- Null,
       reply <- [op |-> last.op, status |-> last.status, n |-> last.n, out |-> last.out]

(* The stack implements BoundedLifo: every call takes effect on the contents
   as its abstract counterpart does, through growth, fallback copies, shrinks
   and refused allocations, "FULL" is the reply to a push exactly at the
   ceiling, and pop_bulk delivers what as many pops would.                  *)
ImplementsLifo == Lifo!Init /\ [][Lifo!Next(Batches)]_vars

(* dv_stack_push_bulk stops short "only when the stack cannot grow far
   enough": at the ceiling, refused by the allocator, or for want of a size_t
   that holds the bytes.                                                    *)
BulkShortHonest ==
  [][last'.op = "push_bulk" /\ last'.n < last'.asked =>
       \/ stack'.top = Ceiling
       \/ "refused" \in last'.calls
       \/ ~BytesFit(stack.top + last'.asked, stack.elem_size)]_vars

(* A call that reports a failure changed neither the control block nor the
   contents; reset alone empties the stack first (dv_stack.h:118).          *)
FailureAtomic ==
  [][last'.status # "OK" /\ last'.op # "init" =>
       /\ stack' = [stack EXCEPT !.top = IF last'.op = "reset" THEN 0 ELSE @]
       /\ blocks' = blocks]_vars
=============================================================================

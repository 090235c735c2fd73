---------------------------- MODULE HookedMemory ----------------------------
(* The memory that the stack and the heap get through their allocator hooks.
   The two keep copies of the same default hooks and state the same contract.

   A helper takes a record w, which has the control block of the container
   (cb), the blocks the allocator has handed out and not got back (blocks),
   whether every call so far kept to the hooks' contract (contract) and the
   hooks that the current operation has called (calls).  A call for memory
   may be refused, so it returns the set of [w, ptr] it may end in.

   The contract is in dv_stack.h: `align' is a power of two, and `old_size'
   and `size' "are the exact byte counts previously handed out".            *)
EXTENDS Integers, Sequences, FiniteSets

CONSTANTS SizeMax,      \* SIZE_MAX
          Addresses,    \* where blocks may be
          Null,         \* NULL
          Garbage       \* what an unwritten slot holds

ASSUME MemoryAssumption == SizeMax \in Nat /\ Null \notin Addresses

NoHooks == [alloc |-> FALSE, realloc |-> FALSE, free |-> FALSE]

IsPow2(x) == \E k \in 0 .. x : x = 2 ^ k

Slots(w, bytes) == bytes \div w.cb.elem_size

Grant(w, p, bytes, kept) ==
  [a \in DOMAIN w.blocks \cup {p} |->
     IF a # p THEN w.blocks[a]
     ELSE [bytes |-> bytes, align |-> w.cb.align,
           slots |-> [i \in 1 .. Slots(w, bytes) |-> IF i <= Len(kept) THEN kept[i] ELSE Garbage]]]

Without(bs, p) == [a \in DOMAIN bs \ {p} |-> bs[a]]

Owns(w, p, bytes) ==
  p \in DOMAIN w.blocks /\ w.blocks[p].bytes = bytes /\ w.blocks[p].align = w.cb.align

Refused(w, hook) == [w |-> [w EXCEPT !.calls = @ \cup {hook, "refused"}], ptr |-> Null]

Alloc(w, bytes) ==
  {Refused(w, "alloc")} \cup
  {[w |-> [w EXCEPT !.blocks = Grant(w, p, bytes, <<>>),
                    !.contract = @ /\ w.cb.allocator.alloc /\ bytes > 0 /\ IsPow2(w.cb.align),
                    !.calls = @ \cup {"alloc"}],
    ptr |-> p] : p \in Addresses \ DOMAIN w.blocks}

(* The block may stay where it is or move; a refusal leaves it alone. *)
Realloc(w, p, old_size, new_size) ==
  {Refused(w, "realloc")} \cup
  {[w |-> [w EXCEPT !.blocks = Grant([w EXCEPT !.blocks = Without(@, p)], q, new_size,
                                     w.blocks[p].slots),
                    !.contract = @ /\ Owns(w, p, old_size) /\ new_size > 0,
                    !.calls = @ \cup {"realloc"}],
    ptr |-> q] : q \in (Addresses \ DOMAIN w.blocks) \cup {p}}

Free(w, p, size) ==
  [w EXCEPT !.blocks = Without(@, p),
            !.contract = @ /\ w.cb.allocator.free /\ Owns(w, p, size),
            !.calls = @ \cup {"free"}]

(***************************************************************************)
(* Resizing: the same steps in dv_stack_set_capacity and                   *)
(* dv_heap_set_capacity.                                                   *)
(***************************************************************************)
Ends(w, status) == [w |-> w, status |-> status]

(* The first `live' slots of the old buffer go to the new block. *)
CopyLive(w, p, live) ==
  [w EXCEPT !.blocks[p].slots =
     [i \in DOMAIN @ |-> IF i <= live THEN w.blocks[w.cb.buffer].slots[i] ELSE @[i]]]

LeaksOldBlock(w, live, old_bytes, new_bytes) ==
  IF w.cb.buffer # Null /\ w.cb.allocator.realloc
  THEN Realloc(w, w.cb.buffer, old_bytes, new_bytes)
  ELSE {IF r.ptr = Null \/ w.cb.buffer = Null THEN r
        ELSE [r EXCEPT !.w = CopyLive(@, r.ptr, live)] : r \in Alloc(w, new_bytes)}

NewBlock(w, live, old_bytes, new_bytes) ==
  IF w.cb.buffer = Null THEN Alloc(w, new_bytes)
  ELSE IF w.cb.allocator.realloc THEN Realloc(w, w.cb.buffer, old_bytes, new_bytes)
  ELSE {IF r.ptr = Null THEN r
        ELSE [r EXCEPT !.w = Free(CopyLive(@, r.ptr, live), w.cb.buffer, old_bytes)] :
        r \in Alloc(w, new_bytes)}

(* A refusal leaves the container with the block it had. *)
Install(r, new_capacity) ==
  IF r.ptr = Null THEN Ends(r.w, "NOMEM")
  ELSE Ends([r.w EXCEPT !.cb.buffer = r.ptr, !.cb.capacity = new_capacity], "OK")
=============================================================================

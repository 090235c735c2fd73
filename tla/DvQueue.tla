------------------------------ MODULE DvQueue ------------------------------
(* The bounded MPMC queue of queue/dv_queue.c: a ring of cells, each gated by
   a sequence number, and two counters that threads advance by
   compare-and-swap.  One action per atomic access, so that every
   interleaving of the accesses of concurrent calls is a behaviour.

   The counters, the sequence numbers and the threads' samples of them are
   machine words of WordSize values that wrap.  The model keeps the unwrapped
   value of each (what it would be in a word of unlimited width) and makes
   every comparison, subtraction and masking of the code on words.

   Accesses are sequentially consistent here.                               *)
EXTENDS Integers

CONSTANTS Producers,  \* threads that call mpmc_enqueue and its bulk form
          Consumers,  \* threads that call mpmc_dequeue and its bulk form
          Monitors,   \* threads that call mpmc_size
          Capacity,   \* buffer_mask + 1
          WordSize,   \* number of values of a size_t
          Start,      \* items that had passed through the queue at the start
          MaxSent,    \* bound: items each producer sends
          MaxBulk,    \* bound: items of one bulk call
          NoItem      \* NULL

Threads == Producers \cup Consumers \cup Monitors

(* A thread's n-th item: distinct from every other item ever sent. *)
Items == Threads \X (1 .. MaxSent + 1)

(* What mpmc_init lets through: a power of two, at least 2, and at most
   SIZE_MAX / 2, hence at most a quarter of the values of a word.           *)
ASSUME QueueAssumption ==
  /\ Capacity \in Nat /\ WordSize \in Nat
  /\ Capacity >= 2
  /\ WordSize % Capacity = 0
  /\ 4 * Capacity <= WordSize
  /\ Start \in Nat /\ MaxSent \in Nat /\ MaxBulk \in Nat
  /\ NoItem \notin Items

VARIABLES head,   \* next position to enqueue at
          tail,   \* next position to dequeue at
          seq,    \* sequence of each cell
          data,   \* data of each cell
          pc,     \* the access each thread makes next
          pos,    \* its local pos (in mpmc_size, its sample of tail)
          rem,    \* items left of its bulk call, the current one included
          got,    \* what its last dequeue wrote through data
          sent,   \* items it has enqueued
          size,   \* what its last mpmc_size returned
          claim   \* history: the item each cell was last claimed for

shared == <<head, tail, seq, data, claim>>
vars == <<head, tail, seq, data, pc, pos, rem, got, sent, size, claim>>

(***************************************************************************)
(* Word arithmetic.                                                        *)
(***************************************************************************)
Word(x) == x % WordSize

WordEq(a, b) == Word(a - b) = 0

(* pos & buffer_mask *)
CellOf(p) == Word(p) % Capacity

Cells == 0 .. Capacity - 1

(* The test that tells a full (empty) queue from a sample gone stale: how far
   the sequence number wanted is ahead of the one found.                    *)
Behind(wanted, found) == Word(wanted - found) <= Capacity

(* The sequence numbers that hand a slot over. *)
PublishSeq(p) == p + 1

ReleaseSeq(p) == p + Capacity

(* How far a sampled position may fall behind its counter.  Nothing in the
   code bounds it; at a lag close to WordSize the comparisons would mistake a
   stale sample for a fresh one.  The model assumes that no thread sleeps
   through that many operations of the others.                              *)
MaxLag == WordSize - 2 * Capacity

HeadMayAdvance ==
  \A u \in Threads : pc[u] \in {"e_seq", "e_cas"} => head + 1 - pos[u] <= MaxLag

TailMayAdvance ==
  \A u \in Threads : pc[u] \in {"d_seq", "d_cas", "s_head"} => tail + 1 - pos[u] <= MaxLag

(***************************************************************************)
(* mpmc_init.  Start = 0 is the queue it returns; any other Start is the   *)
(* queue that as many enqueues and dequeues leave behind.                  *)
(***************************************************************************)
Init ==
  /\ head = Start
  /\ tail = Start
  /\ seq = [c \in Cells |-> Start + ((c - Start) % Capacity)]
  /\ data = [c \in Cells |-> NoItem]
  /\ claim = [c \in Cells |-> NoItem]
  /\ pc = [t \in Threads |-> "idle"]
  /\ pos = [t \in Threads |-> 0]
  /\ rem = [t \in Threads |-> 0]
  /\ got = [t \in Threads |-> NoItem]
  /\ sent = [t \in Threads |-> 0]
  /\ size = [t \in Threads |-> 0]

Goto(t, label) == pc' = [pc EXCEPT ![t] = label]

(* The call returns; its dead locals are cleared. *)
Return(t) ==
  /\ Goto(t, "idle")
  /\ pos' = [pos EXCEPT ![t] = 0]
  /\ rem' = [rem EXCEPT ![t] = 0]

(* One item of a call is done: the loop of the bulk calls goes on to the next
   one or returns.                                                          *)
NextOfBulk(t, label) ==
  \/ /\ rem[t] > 1
     /\ Goto(t, label)
     /\ pos' = [pos EXCEPT ![t] = 0]
     /\ rem' = [rem EXCEPT ![t] = @ - 1]
  \/ /\ rem[t] <= 1
     /\ Return(t)

(***************************************************************************)
(* mpmc_enqueue and mpmc_enqueue_bulk (a single call is a bulk of one).    *)
(***************************************************************************)
Item(t) == <<t, sent[t] + 1>>

EnqCall(t, n) ==
  /\ t \in Producers
  /\ pc[t] = "idle"
  /\ sent[t] + n <= MaxSent
  /\ Goto(t, "e_load")
  /\ rem' = [rem EXCEPT ![t] = n]
  /\ UNCHANGED <<shared, pos, got, sent, size>>

EnqLoad(t) ==
  /\ pc[t] = "e_load"
  /\ pos' = [pos EXCEPT ![t] = head]
  /\ Goto(t, "e_seq")
  /\ UNCHANGED <<shared, rem, got, sent, size>>

(* The load of the sequence number, with the branch it decides. *)
EnqSlotFree(t) ==
  /\ pc[t] = "e_seq"
  /\ WordEq(seq[CellOf(pos[t])], pos[t])
  /\ Goto(t, "e_cas")
  /\ UNCHANGED <<shared, pos, rem, got, sent, size>>

EnqFull(t) ==
  /\ pc[t] = "e_seq"
  /\ ~WordEq(seq[CellOf(pos[t])], pos[t])
  /\ Behind(pos[t], seq[CellOf(pos[t])])
  /\ Return(t)
  /\ UNCHANGED <<shared, got, sent, size>>

KeepsStaleSample(t) ==
  /\ pc[t] = "e_seq"
  /\ ~WordEq(seq[CellOf(pos[t])], pos[t])
  /\ ~Behind(pos[t], seq[CellOf(pos[t])])
  /\ UNCHANGED <<shared, pc, pos, rem, got, sent, size>>

EnqStale(t) ==
  /\ pc[t] = "e_seq"
  /\ ~WordEq(seq[CellOf(pos[t])], pos[t])
  /\ ~Behind(pos[t], seq[CellOf(pos[t])])
  /\ Goto(t, "e_load")
  /\ UNCHANGED <<shared, pos, rem, got, sent, size>>

ClaimsPublished(t) ==
  /\ pc[t] = "e_cas"
  /\ WordEq(head, pos[t])
  /\ HeadMayAdvance
  /\ head' = head + 1
  /\ claim' = [claim EXCEPT ![CellOf(pos[t])] = Item(t)]
  /\ seq' = [seq EXCEPT ![CellOf(pos[t])] = PublishSeq(pos[t])]
  /\ Goto(t, "e_data")
  /\ UNCHANGED <<tail, data, pos, rem, got, sent, size>>

EnqClaim(t) ==
  /\ pc[t] = "e_cas"
  /\ WordEq(head, pos[t])
  /\ HeadMayAdvance
  /\ head' = head + 1
  /\ claim' = [claim EXCEPT ![CellOf(pos[t])] = Item(t)]
  /\ Goto(t, "e_data")
  /\ UNCHANGED <<tail, seq, data, pos, rem, got, sent, size>>

(* A weak compare-and-swap may fail whatever head is. *)
EnqClaimFails(t) ==
  /\ pc[t] = "e_cas"
  /\ pos' = [pos EXCEPT ![t] = head]
  /\ Goto(t, "e_seq")
  /\ UNCHANGED <<shared, rem, got, sent, size>>

EnqWrite(t) ==
  /\ pc[t] = "e_data"
  /\ data' = [data EXCEPT ![CellOf(pos[t])] = Item(t)]
  /\ Goto(t, "e_pub")
  /\ UNCHANGED <<head, tail, seq, pos, rem, got, sent, size, claim>>

EnqPublish(t) ==
  /\ pc[t] = "e_pub"
  /\ seq' = [seq EXCEPT ![CellOf(pos[t])] = PublishSeq(pos[t])]
  /\ sent' = [sent EXCEPT ![t] = @ + 1]
  /\ NextOfBulk(t, "e_load")
  /\ UNCHANGED <<head, tail, data, got, size, claim>>

(***************************************************************************)
(* mpmc_dequeue and mpmc_dequeue_bulk.                                     *)
(***************************************************************************)
DeqCall(t, n) ==
  /\ t \in Consumers
  /\ pc[t] = "idle"
  /\ Goto(t, "d_load")
  /\ rem' = [rem EXCEPT ![t] = n]
  /\ got' = [got EXCEPT ![t] = NoItem]
  /\ UNCHANGED <<shared, pos, sent, size>>

DeqLoad(t) ==
  /\ pc[t] = "d_load"
  /\ pos' = [pos EXCEPT ![t] = tail]
  /\ Goto(t, "d_seq")
  /\ UNCHANGED <<shared, rem, got, sent, size>>

ExpectsFree(t) ==
  /\ pc[t] = "d_seq"
  /\ WordEq(seq[CellOf(pos[t])], pos[t])
  /\ Goto(t, "d_cas")
  /\ UNCHANGED <<shared, pos, rem, got, sent, size>>

DeqSlotReady(t) ==
  /\ pc[t] = "d_seq"
  /\ WordEq(seq[CellOf(pos[t])], pos[t] + 1)
  /\ Goto(t, "d_cas")
  /\ UNCHANGED <<shared, pos, rem, got, sent, size>>

DeqEmpty(t) ==
  /\ pc[t] = "d_seq"
  /\ ~WordEq(seq[CellOf(pos[t])], pos[t] + 1)
  /\ Behind(pos[t] + 1, seq[CellOf(pos[t])])
  /\ Return(t)
  /\ UNCHANGED <<shared, got, sent, size>>

DeqStale(t) ==
  /\ pc[t] = "d_seq"
  /\ ~WordEq(seq[CellOf(pos[t])], pos[t] + 1)
  /\ ~Behind(pos[t] + 1, seq[CellOf(pos[t])])
  /\ Goto(t, "d_load")
  /\ UNCHANGED <<shared, pos, rem, got, sent, size>>

ClaimsReleased(t) ==
  /\ pc[t] = "d_cas"
  /\ WordEq(tail, pos[t])
  /\ TailMayAdvance
  /\ tail' = tail + 1
  /\ seq' = [seq EXCEPT ![CellOf(pos[t])] = ReleaseSeq(pos[t])]
  /\ Goto(t, "d_data")
  /\ UNCHANGED <<head, data, pos, rem, got, sent, size, claim>>

DeqClaim(t) ==
  /\ pc[t] = "d_cas"
  /\ WordEq(tail, pos[t])
  /\ TailMayAdvance
  /\ tail' = tail + 1
  /\ Goto(t, "d_data")
  /\ UNCHANGED <<head, seq, data, pos, rem, got, sent, size, claim>>

DeqClaimFails(t) ==
  /\ pc[t] = "d_cas"
  /\ pos' = [pos EXCEPT ![t] = tail]
  /\ Goto(t, "d_seq")
  /\ UNCHANGED <<shared, rem, got, sent, size>>

DeqRead(t) ==
  /\ pc[t] = "d_data"
  /\ got' = [got EXCEPT ![t] = data[CellOf(pos[t])]]
  /\ Goto(t, "d_rel")
  /\ UNCHANGED <<shared, pos, rem, sent, size>>

(* The next dequeue of a bulk clears the array element it will write. *)
DeqRelease(t) ==
  /\ pc[t] = "d_rel"
  /\ seq' = [seq EXCEPT ![CellOf(pos[t])] = ReleaseSeq(pos[t])]
  /\ NextOfBulk(t, "d_load")
  /\ got' = IF rem[t] > 1 THEN [got EXCEPT ![t] = NoItem] ELSE got
  /\ UNCHANGED <<head, tail, data, sent, size, claim>>

(***************************************************************************)
(* mpmc_size: tail is sampled before head.                                 *)
(***************************************************************************)
SizeCall(t) ==
  /\ t \in Monitors
  /\ pc[t] = "idle"
  /\ Goto(t, "s_tail")
  /\ UNCHANGED <<shared, pos, rem, got, sent, size>>

SizeTail(t) ==
  /\ pc[t] = "s_tail"
  /\ pos' = [pos EXCEPT ![t] = tail]
  /\ Goto(t, "s_head")
  /\ UNCHANGED <<shared, rem, got, sent, size>>

SizeHead(t) ==
  /\ pc[t] = "s_head"
  /\ LET n == Word(head - pos[t])
     IN  size' = [size EXCEPT ![t] = IF n > Capacity THEN Capacity ELSE n]
  /\ Return(t)
  /\ UNCHANGED <<shared, got, sent>>

(* The two loads in the other order: the sample is of head, and the load that
   completes the call is of tail.                                           *)
HeadLoadedFirst(t) ==
  \/ /\ pc[t] = "s_tail"
     /\ pos' = [pos EXCEPT ![t] = head]
     /\ Goto(t, "s_head")
     /\ UNCHANGED <<shared, rem, got, sent, size>>
  \/ /\ pc[t] = "s_head"
     /\ LET n == Word(pos[t] - tail)
        IN  size' = [size EXCEPT ![t] = IF n > Capacity THEN Capacity ELSE n]
     /\ Return(t)
     /\ UNCHANGED <<shared, got, sent>>

SizeStep(t) == SizeTail(t) \/ SizeHead(t)

(***************************************************************************)
(* The specification.                                                      *)
(***************************************************************************)
Calls(t) ==
  \/ \E n \in 1 .. MaxBulk : EnqCall(t, n) \/ DeqCall(t, n)
  \/ SizeCall(t)

(* Every step of a thread inside a call except a failing compare-and-swap. *)
Step(t) ==
  \/ EnqLoad(t) \/ EnqSlotFree(t) \/ EnqFull(t) \/ EnqStale(t)
  \/ EnqClaim(t) \/ EnqWrite(t) \/ EnqPublish(t)
  \/ DeqLoad(t) \/ DeqSlotReady(t) \/ DeqEmpty(t) \/ DeqStale(t)
  \/ DeqClaim(t) \/ DeqRead(t) \/ DeqRelease(t)
  \/ SizeStep(t)

ClaimFails(t) == EnqClaimFails(t) \/ DeqClaimFails(t)

Next == \E t \in Threads : Calls(t) \/ Step(t) \/ ClaimFails(t)

Spec == Init /\ [][Next]_vars

(***************************************************************************)
(* Safety.                                                                 *)
(***************************************************************************)
Labels == {"idle", "e_load", "e_seq", "e_cas", "e_data", "e_pub",
           "d_load", "d_seq", "d_cas", "d_data", "d_rel", "s_tail", "s_head"}

(* Every variable has its type. *)
TypeOK ==
  /\ head \in Nat /\ tail \in Nat
  /\ seq \in [Cells -> Nat]
  /\ data \in [Cells -> Items \cup {NoItem}]
  /\ claim \in [Cells -> Items \cup {NoItem}]
  /\ pc \in [Threads -> Labels]
  /\ pos \in [Threads -> Nat]
  /\ rem \in [Threads -> 0 .. MaxBulk]
  /\ got \in [Threads -> Items \cup {NoItem}]
  /\ sent \in [Threads -> Nat]
  /\ size \in [Threads -> 0 .. Capacity]

(* The threads that own a slot: between their compare-and-swap and the store
   that hands the slot over.                                                *)
Enqueuing(t) == pc[t] \in {"e_data", "e_pub"}
Dequeuing(t) == pc[t] \in {"d_data", "d_rel"}

(* Data-race freedom of cell->data (dv_queue.c:68, 100): no two threads own
   the same cell, so no two ever touch the same data together, however the
   calls interleave and the counters wrap.                                  *)
SlotExclusive ==
  \A t, u \in Threads :
    /\ t # u
    /\ Enqueuing(t) \/ Dequeuing(t)
    /\ Enqueuing(u) \/ Dequeuing(u)
    => CellOf(pos[t]) # CellOf(pos[u])

(* mpmc_size (dv_queue.c:146-162) never reports fewer items than the queue
   holds at the instant it loads head, and never more than the capacity,
   whatever producers and consumers do between its two loads.               *)
SizeHonest ==
  [][\A t \in Monitors :
       SizeStep(t) /\ pc'[t] = "idle"
         => head - tail <= size'[t] /\ size'[t] <= Capacity]_vars

(***************************************************************************)
(* The inductive invariant: what every slot's sequence number says.        *)
(***************************************************************************)
Counters == tail <= head /\ head <= tail + Capacity

(* Owners hold positions of the window their operation claims from, and the
   sequence number stays put until they hand the slot over.                 *)
Owners ==
  \A t \in Threads :
    /\ Enqueuing(t) =>
         /\ tail <= pos[t] /\ pos[t] < head
         /\ seq[CellOf(pos[t])] = pos[t]
    /\ Dequeuing(t) =>
         /\ pos[t] < tail /\ head <= pos[t] + Capacity
         /\ seq[CellOf(pos[t])] = pos[t] + 1

OneOwner ==
  \A t, u \in Threads :
    t # u /\ pos[t] = pos[u]
      => /\ ~(Enqueuing(t) /\ Enqueuing(u))
         /\ ~(Dequeuing(t) /\ Dequeuing(u))

(* A claimed position is published or being written. *)
Taken ==
  \A p \in tail .. head - 1 :
    \/ seq[CellOf(p)] = p + 1
    \/ /\ seq[CellOf(p)] = p
       /\ \E t \in Threads : Enqueuing(t) /\ pos[t] = p

(* A position not claimed yet is free or still being read one lap behind. *)
Vacant ==
  \A p \in head .. tail + Capacity - 1 :
    \/ seq[CellOf(p)] = p
    \/ /\ seq[CellOf(p)] = p + 1 - Capacity
       /\ \E t \in Threads : Dequeuing(t) /\ pos[t] = p - Capacity

(* A sample is never ahead of its counter and not too far behind it, and a
   sequence number seen by a sample that is still current has not changed.  *)
Samples ==
  \A t \in Threads :
    /\ pc[t] \in {"e_seq", "e_cas"} => pos[t] <= head /\ head - pos[t] <= MaxLag
    /\ pc[t] \in {"d_seq", "d_cas", "s_head"} => pos[t] <= tail /\ tail - pos[t] <= MaxLag
    /\ pc[t] = "e_cas" /\ pos[t] = head
         => head < tail + Capacity /\ seq[CellOf(pos[t])] = pos[t]
    /\ pc[t] = "d_cas" /\ pos[t] = tail
         => tail < head /\ seq[CellOf(pos[t])] = pos[t] + 1

(* What a slot holds is what it was claimed for, until it is released. *)
Contents ==
  /\ \A p \in tail .. head - 1 :
       /\ claim[CellOf(p)] \in Items
       /\ seq[CellOf(p)] = p + 1 => data[CellOf(p)] = claim[CellOf(p)]
  /\ \A t \in Threads :
       /\ Enqueuing(t) => claim[CellOf(pos[t])] = Item(t)
       /\ pc[t] = "e_pub" => data[CellOf(pos[t])] = Item(t)
       /\ pc[t] = "d_data" => data[CellOf(pos[t])] = claim[CellOf(pos[t])]
       /\ pc[t] = "d_rel" => got[t] = claim[CellOf(pos[t])]

(* Which operation a thread is in, and what is left of it. *)
Roles ==
  \A t \in Threads :
    /\ sent[t] <= MaxSent
    /\ pc[t] \in {"e_load", "e_seq", "e_cas", "e_data", "e_pub"}
         => t \in Producers /\ rem[t] >= 1 /\ sent[t] + rem[t] <= MaxSent
    /\ pc[t] \in {"d_load", "d_seq", "d_cas", "d_data", "d_rel"} => t \in Consumers
    /\ pc[t] \in {"s_tail", "s_head"} => t \in Monitors

(* The protocol of the sequence numbers (dv_queue.c:52-112): each cell's
   number says whether its slot is free, owned by exactly one thread, or
   published, and the data under it is the data it was claimed for.  This is
   the inductive invariant behind the other safety properties.              *)
IInv ==
  /\ Counters /\ Owners /\ OneOwner /\ Taken /\ Vacant
  /\ Samples /\ Contents /\ Roles

(***************************************************************************)
(* Refinement: the queue implements a bounded FIFO.                        *)
(***************************************************************************)
items == [i \in 1 .. head - tail |-> claim[CellOf(tail + i - 1)]]

(* Where a thread at a label is in its operation. *)
Phase(label) ==
  CASE label \in {"e_load", "e_seq", "e_cas"} -> "enq"
    [] label \in {"e_data", "e_pub"} -> "enqDone"
    [] label \in {"d_load", "d_seq", "d_cas"} -> "deq"
    [] label \in {"d_data", "d_rel"} -> "deqDone"
    [] OTHER -> "idle"

call == [t \in Threads |-> Phase(pc[t])]

offer == [t \in Threads |-> Item(t)]

ret == [t \in Threads |->
  IF pc[t] = "d_data" THEN claim[CellOf(pos[t])] ELSE got[t]]

Fifo == INSTANCE BoundedFifo

(* The queue is linearizable: an enqueue takes effect when its
   compare-and-swap of head succeeds (dv_queue.c:65), a dequeue at that of
   tail (dv_queue.c:97), items come out once, in the order of those instants,
   and a call gives up only when the queue is full (empty) or the slot it
   needs is claimed by a call that has not returned.                        *)
ImplementsFifo == Fifo!Spec
=============================================================================

--------------------------- MODULE DvQueueRelaxed ---------------------------
(* The queue of queue/dv_queue.c with the memory orders it asks for, where
   DvQueue has every access sequentially consistent.  In C11 a load may return
   an older value than the last one stored.  What a thread may still read is
   bounded by what has happened before: its view, which gives for each
   location how many of its writes it knows of.

   A release store of a cell's sequence carries the view of the thread that
   makes it, and an acquire load that reads it adds that view to its own.
   Nothing else in the queue does: the compare-and-swaps of head and tail are
   relaxed, and the acquire loads of mpmc_size find no view in what they wrote.
   A plain access to data that does not know of every earlier access to it
   races with one.

   An item is named by the position that was claimed for it.                *)
EXTENDS Integers, Sequences

CONSTANTS Producers,  \* threads that call mpmc_enqueue
          Consumers,  \* threads that call mpmc_dequeue
          Monitors,   \* threads that call mpmc_size
          Capacity,   \* buffer_mask + 1
          WordSize,   \* number of values of a size_t
          MaxItems,   \* bound: no enqueue is begun after that many claims
          MaxClaims   \* bound: positions claimed in all, so that none comes round again

Threads == Producers \cup Consumers \cup Monitors

ASSUME RelaxedAssumption ==
  /\ Capacity \in Nat /\ WordSize \in Nat /\ MaxItems \in Nat /\ MaxClaims \in Nat
  /\ Capacity >= 2 /\ WordSize % Capacity = 0
  /\ MaxClaims + 2 * Capacity < WordSize

Cells == 0 .. Capacity - 1

CellOf(p) == (p % WordSize) % Capacity

(* The locations of the queue. *)
HeadAt == <<"head", 0>>
TailAt == <<"tail", 0>>
SeqAt(c) == <<"sequence", c>>
DataAt(c) == <<"data", c>>

Locations == {HeadAt, TailAt} \cup {SeqAt(c) : c \in Cells} \cup {DataAt(c) : c \in Cells}

VARIABLES head,    \* both are written by compare-and-swaps that add one, so that
          tail,    \* the n-th write stores n, and their histories are 0 .. head and 0 .. tail
          stores,  \* the stores to each cell's sequence, in modification order
          data,    \* data of each cell
          touched, \* how often each cell's data has been read or written
          view,    \* what each thread knows of
          pc,      \* the access it makes next
          pos,     \* its local pos (in mpmc_size, its sample of tail)
          sample,  \* the tail and the head of its last mpmc_size
          sound    \* history: no plain access has raced, and each item read was the one claimed

vars == <<head, tail, stores, data, touched, view, pc, pos, sample, sound>>

Join(v, w) == [l \in Locations |-> IF v[l] < w[l] THEN w[l] ELSE v[l]]

Nothing == [l \in Locations |-> 0]

(* mpmc_init, whose relaxed stores every thread that is given the queue knows
   of.                                                                      *)
Init ==
  /\ head = 0 /\ tail = 0
  /\ stores = [c \in Cells |-> <<[value |-> c, view |-> Nothing]>>]
  /\ data = [c \in Cells |-> 0]
  /\ touched = [c \in Cells |-> 0]
  /\ view = [t \in Threads |-> [l \in Locations |-> IF \E c \in Cells : l = SeqAt(c) THEN 1 ELSE 0]]
  /\ pc = [t \in Threads |-> "idle"]
  /\ pos = [t \in Threads |-> 0]
  /\ sample = [t \in Threads |-> [tail |-> 0, head |-> 0]]
  /\ sound = TRUE

Goto(t, label) == pc' = [pc EXCEPT ![t] = label]

(***************************************************************************)
(* The accesses.                                                           *)
(***************************************************************************)
(* A load of a counter, whose last value is `last': any value that is not
   older than one the thread knows of.  Relaxed or acquire, it brings no view. *)
Loads(t, counter, last) ==
  \E v \in view[t][counter] .. last :
    /\ pos' = [pos EXCEPT ![t] = v]
    /\ view' = [view EXCEPT ![t][counter] = v]

(* A successful compare-and-swap reads the last value there is. *)
Swaps(t, counter, last) ==
  /\ (last - pos[t]) % WordSize = 0
  /\ view' = [view EXCEPT ![t][counter] = last + 1]

(* An acquire load of the sequence of cell c finds store number i. *)
LoadsRelaxed(t, c, i) == view' = [view EXCEPT ![t][SeqAt(c)] = i]

Acquires(t, c, i) == view' = [view EXCEPT ![t] = Join([@ EXCEPT ![SeqAt(c)] = i], stores[c][i].view)]

(* A release store to it.  It comes last in modification order, as only a
   thread that knows of every other store makes one.                        *)
Releases(t, c, value) ==
  LET known == [view[t] EXCEPT ![SeqAt(c)] = Len(stores[c]) + 1]
  IN /\ stores' = [stores EXCEPT ![c] = Append(@, [value |-> value, view |-> known])]
     /\ view' = [view EXCEPT ![t] = known]

(* A plain access to the data of cell c, and what it must find. *)
Touches(t, c, right) ==
  /\ touched' = [touched EXCEPT ![c] = @ + 1]
  /\ view' = [view EXCEPT ![t][DataAt(c)] = touched[c] + 1]
  /\ sound' = (sound /\ right /\ view[t][DataAt(c)] = touched[c] /\ view[t][SeqAt(c)] = Len(stores[c]))

(***************************************************************************)
(* mpmc_enqueue and mpmc_dequeue.                                          *)
(***************************************************************************)
(* What the sequence of a cell says, of the one wanted. *)
Matches(wanted, found) == (wanted - found) % WordSize = 0

StaleIsBehind(wanted, found) == ~Matches(wanted, found)

Behind(wanted, found) == ~Matches(wanted, found) /\ (wanted - found) % WordSize <= Capacity

EnqLoad(t) ==
  /\ (pc[t] = "idle" /\ head < MaxItems) \/ pc[t] = "e_load"
  /\ Loads(t, HeadAt, head)
  /\ Goto(t, "e_seq")
  /\ UNCHANGED <<head, tail, stores, data, touched, sample, sound>>

(* The cell is free for pos, or not yet, or pos is out of date. *)
Verdict(t, wanted, found, cas, load) ==
  \/ Matches(wanted, found) /\ Goto(t, cas)
  \/ Behind(wanted, found) /\ Goto(t, "idle")
  \/ ~Matches(wanted, found) /\ ~Behind(wanted, found) /\ Goto(t, load)

EnqSeq(t) ==
  /\ pc[t] = "e_seq"
  /\ LET c == CellOf(pos[t])
     IN \E i \in view[t][SeqAt(c)] .. Len(stores[c]) :
          /\ Acquires(t, c, i)
          /\ Verdict(t, pos[t], stores[c][i].value, "e_cas", "e_load")
  /\ UNCHANGED <<head, tail, stores, data, touched, pos, sample, sound>>

EnqClaim(t) ==
  /\ pc[t] = "e_cas" /\ head < MaxClaims
  /\ Swaps(t, HeadAt, head)
  /\ head' = head + 1
  /\ Goto(t, "e_data")
  /\ UNCHANGED <<tail, stores, data, touched, pos, sample, sound>>

(* The value found, if only spuriously refused, is the next pos. *)
EnqClaimFails(t) ==
  /\ pc[t] = "e_cas"
  /\ Loads(t, HeadAt, head)
  /\ Goto(t, "e_seq")
  /\ UNCHANGED <<head, tail, stores, data, touched, sample, sound>>

EnqWrite(t) ==
  /\ pc[t] = "e_data"
  /\ Touches(t, CellOf(pos[t]), TRUE)
  /\ data' = [data EXCEPT ![CellOf(pos[t])] = pos[t]]
  /\ Goto(t, "e_pub")
  /\ UNCHANGED <<head, tail, stores, pos, sample>>

EnqPublish(t) ==
  /\ pc[t] = "e_pub"
  /\ Releases(t, CellOf(pos[t]), pos[t] + 1)
  /\ Goto(t, "idle")
  /\ UNCHANGED <<head, tail, data, touched, pos, sample, sound>>

DeqLoad(t) ==
  /\ pc[t] \in {"idle", "d_load"}
  /\ Loads(t, TailAt, tail)
  /\ Goto(t, "d_seq")
  /\ UNCHANGED <<head, tail, stores, data, touched, sample, sound>>

DeqSeq(t) ==
  /\ pc[t] = "d_seq"
  /\ LET c == CellOf(pos[t])
     IN \E i \in view[t][SeqAt(c)] .. Len(stores[c]) :
          /\ Acquires(t, c, i)
          /\ Verdict(t, pos[t] + 1, stores[c][i].value, "d_cas", "d_load")
  /\ UNCHANGED <<head, tail, stores, data, touched, pos, sample, sound>>

DeqClaim(t) ==
  /\ pc[t] = "d_cas"
  /\ Swaps(t, TailAt, tail)
  /\ tail' = tail + 1
  /\ Goto(t, "d_data")
  /\ UNCHANGED <<head, stores, data, touched, pos, sample, sound>>

DeqClaimFails(t) ==
  /\ pc[t] = "d_cas"
  /\ Loads(t, TailAt, tail)
  /\ Goto(t, "d_seq")
  /\ UNCHANGED <<head, tail, stores, data, touched, sample, sound>>

DeqRead(t) ==
  /\ pc[t] = "d_data"
  /\ Touches(t, CellOf(pos[t]), data[CellOf(pos[t])] = pos[t])
  /\ Goto(t, "d_rel")
  /\ UNCHANGED <<head, tail, stores, data, pos, sample>>

DeqRelease(t) ==
  /\ pc[t] = "d_rel"
  /\ Releases(t, CellOf(pos[t]), pos[t] + Capacity)
  /\ Goto(t, "idle")
  /\ UNCHANGED <<head, tail, data, touched, pos, sample, sound>>

(***************************************************************************)
(* mpmc_size.                                                              *)
(***************************************************************************)
SizeTail(t) ==
  /\ pc[t] = "idle"
  /\ Loads(t, TailAt, tail)
  /\ Goto(t, "s_head")
  /\ UNCHANGED <<head, tail, stores, data, touched, sample, sound>>

SizeHead(t) ==
  /\ pc[t] = "s_head"
  /\ Loads(t, HeadAt, head)
  /\ sample' = [sample EXCEPT ![t] = [tail |-> pos[t], head |-> pos'[t]]]
  /\ Goto(t, "idle")
  /\ UNCHANGED <<head, tail, stores, data, touched, sound>>

(* Between its calls a thread may learn of all that another has done between
   its own: by a flag, a lock or a join outside the queue.                  *)
Hears(t, u) ==
  /\ pc[t] = "idle" /\ pc[u] = "idle"
  /\ view' = [view EXCEPT ![t] = Join(@, view[u])]
  /\ UNCHANGED <<head, tail, stores, data, touched, pc, pos, sample, sound>>

Producing(t) == EnqLoad(t) \/ EnqSeq(t) \/ EnqClaim(t) \/ EnqClaimFails(t) \/ EnqWrite(t) \/ EnqPublish(t)

Consuming(t) == DeqLoad(t) \/ DeqSeq(t) \/ DeqClaim(t) \/ DeqClaimFails(t) \/ DeqRead(t) \/ DeqRelease(t)

Sizing(t) == SizeTail(t) \/ SizeHead(t)

Next ==
  \/ \E t \in Producers : Producing(t)
  \/ \E t \in Consumers : Consuming(t)
  \/ \E t \in Monitors : Sizing(t)
  \/ \E t, u \in Threads : Hears(t, u)

Spec == Init /\ [][Next]_vars

(***************************************************************************)
(* Correctness.                                                            *)
(***************************************************************************)
(* The release stores and acquire loads of sequence are enough, with every
   other order relaxed: a plain access to data comes after all earlier ones to
   the same cell, no two threads store a cell's sequence unordered, and a
   dequeue reads the item of the position it claimed.                       *)
RaceFree == sound

(* The sequence of a cell as far as thread t knows it. *)
KnownSeq(t, c) == stores[c][view[t][SeqAt(c)]].value

(* The positions there are, and numbers past every one that is stored. *)
Positions == 0 .. MaxClaims + Capacity + 1

(* How many positions t knows to have been published, and to have been free
   for an enqueue, without a gap.                                           *)
Prefix(known) ==
  CHOOSE n \in Positions : n \notin known /\ \A p \in 0 .. n - 1 : p \in known

KnownPut(t) == Prefix({p \in Positions : KnownSeq(t, CellOf(p)) > p})

KnownFree(t) == Prefix({p \in Positions : KnownSeq(t, CellOf(p)) >= p})

(* A call may miss what another thread did when nothing has told it.  But it
   gives up for a reason: an empty dequeue leaves no item that its caller
   knows of, and a full enqueue no slot.  The queue tester's last poll relies
   on it (dv_queue_tester.c:172-178): its caller has heard of every producer. *)
GivesUpKnowingly ==
  [][\A t \in Threads :
       /\ pc[t] = "d_seq" /\ pc'[t] = "idle" => KnownPut(t)' <= tail
       /\ pc[t] = "e_seq" /\ pc'[t] = "idle" => KnownFree(t)' <= head]_vars

(* dv_queue.c:150 "sampling tail first guarantees the later-sampled head is >=
   the sampled tail, so head - tail never underflows".                      *)
NeverUnderflows == \A t \in Monitors : sample[t].tail <= sample[t].head
=============================================================================

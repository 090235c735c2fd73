---------------------------- MODULE BoundedFifo ----------------------------
(* What the queue of queue/dv_queue.h promises to its callers: a FIFO of at
   most Capacity items, with operations that take effect at one instant
   between their call and their return.

   An operation that gives up is not always justified by the contents.  An
   enqueue may be refused while another thread is between the instant its
   dequeue took effect and its return, and a dequeue may be refused while an
   enqueue is in that window: the slot it needs has been claimed and not yet
   handed over.  Nothing else excuses a refusal.                            *)
EXTENDS Naturals, Sequences

CONSTANTS Threads,   \* callers of the queue
          Items,     \* what they exchange
          Capacity,  \* most items the queue holds
          NoItem     \* the NULL a dequeue writes before it looks

VARIABLES items,     \* the contents, oldest first
          call,      \* where each thread is in its current operation
          offer,     \* the item each thread enqueues next
          ret        \* what the last dequeue of each thread delivered

vars == <<items, call, offer, ret>>

Calls == {"idle", "enq", "enqDone", "deq", "deqDone"}

Init ==
  /\ items = <<>>
  /\ call = [t \in Threads |-> "idle"]
  /\ offer \in [Threads -> Items]
  /\ ret = [t \in Threads |-> NoItem]

CallEnq(t) ==
  /\ call[t] = "idle"
  /\ call' = [call EXCEPT ![t] = "enq"]
  /\ UNCHANGED <<items, offer, ret>>

(* The enqueue takes effect. *)
Enq(t) ==
  /\ call[t] = "enq"
  /\ Len(items) < Capacity
  /\ items' = Append(items, offer[t])
  /\ call' = [call EXCEPT ![t] = "enqDone"]
  /\ UNCHANGED <<offer, ret>>

EnqRefused(t) ==
  /\ call[t] = "enq"
  /\ \/ Len(items) = Capacity
     \/ \E u \in Threads : call[u] = "deqDone"
  /\ call' = [call EXCEPT ![t] = "idle"]
  /\ UNCHANGED <<items, offer, ret>>

(* A bulk operation goes straight on to its next item. *)
EnqReturns(t) ==
  /\ call[t] = "enqDone"
  /\ \E next \in {"idle", "enq"} : call' = [call EXCEPT ![t] = next]
  /\ \E v \in Items : offer' = [offer EXCEPT ![t] = v]
  /\ UNCHANGED <<items, ret>>

CallDeq(t) ==
  /\ call[t] = "idle"
  /\ call' = [call EXCEPT ![t] = "deq"]
  /\ ret' = [ret EXCEPT ![t] = NoItem]
  /\ UNCHANGED <<items, offer>>

(* The dequeue takes effect. *)
Deq(t) ==
  /\ call[t] = "deq"
  /\ items # <<>>
  /\ ret' = [ret EXCEPT ![t] = Head(items)]
  /\ items' = Tail(items)
  /\ call' = [call EXCEPT ![t] = "deqDone"]
  /\ UNCHANGED offer

DeqRefused(t) ==
  /\ call[t] = "deq"
  /\ \/ items = <<>>
     \/ \E u \in Threads : call[u] = "enqDone"
  /\ call' = [call EXCEPT ![t] = "idle"]
  /\ UNCHANGED <<items, offer, ret>>

DeqReturns(t) ==
  /\ call[t] = "deqDone"
  /\ \/ /\ call' = [call EXCEPT ![t] = "idle"]
        /\ UNCHANGED ret
     \/ /\ call' = [call EXCEPT ![t] = "deq"]
        /\ ret' = [ret EXCEPT ![t] = NoItem]
  /\ UNCHANGED <<items, offer>>

Next ==
  \E t \in Threads :
    \/ CallEnq(t) \/ Enq(t) \/ EnqRefused(t) \/ EnqReturns(t)
    \/ CallDeq(t) \/ Deq(t) \/ DeqRefused(t) \/ DeqReturns(t)

Spec == Init /\ [][Next]_vars
=============================================================================

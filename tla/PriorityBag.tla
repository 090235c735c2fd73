---------------------------- MODULE PriorityBag ----------------------------
(* What the heap of heap/dv_heap.h promises to its caller, with the array
   behind it left out: a bag of keys that never grows past a ceiling, whose
   pops deliver a key that no other key of the bag comes before.            *)
EXTENDS Naturals, Sequences, FiniteSetsExt

CONSTANTS Keys,
          Before(_, _, _)  \* Before(order, j, k): j belongs closer to the root

VARIABLES bag,       \* how many elements of each key the heap holds
          order,     \* which end of the keys is at the root
          ceiling,   \* most elements it may ever hold
          reply      \* [op, status, n, out] of the last call

vars == <<bag, order, ceiling, reply>>

MemoryRefusals == {"NOMEM", "OVERFLOW"}

EmptyBag == [k \in Keys |-> 0]

Size(b) == MapThenSumSet(LAMBDA k : b[k], Keys)

Times(batch, k) == Cardinality({i \in DOMAIN batch : batch[i] = k})

WithAll(b, batch) == [k \in Keys |-> b[k] + Times(batch, k)]

Swapped(b, old, new) == [[b EXCEPT ![old] = @ - 1] EXCEPT ![new] = @ + 1]

Holds(b, k) == b[k] > 0

(* No key in the bag comes before k. *)
First(b, k) == Holds(b, k) /\ \A j \in Keys : Holds(b, j) => ~Before(order, j, k)

Ordered(out) == \A i, j \in DOMAIN out : i < j => ~Before(order, out[j], out[i])

Answers(op) == reply'.op = op

Reply(status, n, out) == reply'.status = status /\ reply'.n = n /\ reply'.out = out

(* The reply leaves out what was removed when the caller passed NULL. *)
Delivers(n, out) == Reply("OK", n, out) \/ Reply("OK", n, <<>>)

Init ==
  /\ bag = EmptyBag
  /\ ceiling = 0
  /\ order = "MIN"
  /\ reply = [op |-> "none", status |-> "OK", n |-> 0, out |-> <<>>]

Configure ==
  /\ \/ /\ Answers("init")
        /\ \E status \in {"OK", "INVALID"} \cup MemoryRefusals : Reply(status, 0, <<>>)
     \/ Answers("destroy") /\ Reply("OK", 0, <<>>)
  /\ bag' = EmptyBag
  /\ order' \in {"MIN", "MAX"}
  /\ ceiling' \in Nat

Push ==
  /\ Answers("push") /\ Reply("OK", 1, <<>>)
  /\ Size(bag) < ceiling
  /\ \E k \in Keys : bag' = WithAll(bag, <<k>>)
  /\ UNCHANGED <<order, ceiling>>

PushRefused ==
  /\ Answers("push")
  /\ \E status \in IF Size(bag) < ceiling THEN MemoryRefusals ELSE {"FULL"} : Reply(status, 0, <<>>)
  /\ UNCHANGED <<bag, order, ceiling>>

(* A prefix of the batch goes in, and the reply is its length. *)
PushBulk(batches) ==
  /\ Answers("push_bulk")
  /\ \E batch \in batches, n \in 0 .. ceiling - Size(bag) :
       /\ n <= Len(batch)
       /\ Reply("OK", n, <<>>)
       /\ bag' = WithAll(bag, SubSeq(batch, 1, n))
  /\ UNCHANGED <<order, ceiling>>

Pop ==
  /\ Answers("pop")
  /\ \E k \in Keys :
       /\ Delivers(1, <<k>>)
       /\ First(bag, k)
       /\ bag' = [bag EXCEPT ![k] = @ - 1]
  /\ UNCHANGED <<order, ceiling>>

(* The n first keys in order, and nothing left that comes before them. *)
PopBulk ==
  /\ Answers("pop_bulk") /\ reply'.status = "OK"
  /\ Size(bag') = Size(bag) - reply'.n
  /\ \A k \in Keys : bag'[k] <= bag[k]
  /\ \A j, k \in Keys : Holds(bag', j) /\ bag'[k] < bag[k] => ~Before(order, j, k)
  /\ reply'.out # <<>> => bag = WithAll(bag', reply'.out) /\ Ordered(reply'.out)
  /\ UNCHANGED <<order, ceiling>>

Peek ==
  /\ Answers("peek")
  /\ \E k \in Keys : Reply("OK", 0, <<k>>) /\ First(bag, k)
  /\ UNCHANGED <<bag, order, ceiling>>

Empty ==
  /\ Answers("pop") \/ Answers("peek") \/ Answers("replace_top")
  /\ Reply("EMPTY", 0, <<>>)
  /\ bag = EmptyBag
  /\ UNCHANGED <<bag, order, ceiling>>

ReplaceTop ==
  /\ Answers("replace_top")
  /\ \E old, new \in Keys :
       /\ Delivers(0, <<old>>)
       /\ First(bag, old)
       /\ bag' = Swapped(bag, old, new)
  /\ UNCHANGED <<order, ceiling>>

(* update_at, and heapify after an edit in place. *)
UpdateAt ==
  /\ Answers("update_at") \/ Answers("heapify")
  /\ Reply("OK", 0, <<>>)
  /\ \E old, new \in Keys : Holds(bag, old) /\ bag' = Swapped(bag, old, new)
  /\ UNCHANGED <<order, ceiling>>

RemoveAt ==
  /\ Answers("remove_at")
  /\ \E k \in Keys :
       /\ Delivers(1, <<k>>)
       /\ Holds(bag, k)
       /\ bag' = [bag EXCEPT ![k] = @ - 1]
  /\ UNCHANGED <<order, ceiling>>

(* An index out of range. *)
Misuse ==
  /\ Answers("update_at") \/ Answers("remove_at")
  /\ Reply("INVALID", 0, <<>>)
  /\ UNCHANGED <<bag, order, ceiling>>

(* A batch past the ceiling is refused, and then nothing changes. *)
Build(batches) ==
  /\ Answers("build")
  /\ \/ /\ Reply("OK", 0, <<>>)
        /\ \E batch \in batches : Len(batch) <= ceiling /\ bag' = WithAll(EmptyBag, batch)
     \/ /\ \E batch \in batches, status \in {"FULL"} \cup MemoryRefusals :
             Reply(status, 0, <<>>) /\ (status = "FULL" <=> Len(batch) > ceiling)
        /\ UNCHANGED bag
  /\ UNCHANGED <<order, ceiling>>

(* The contents go, whatever becomes of the memory. *)
Drop ==
  /\ \/ Answers("clear") /\ Reply("OK", 0, <<>>)
     \/ Answers("reset") /\ \E status \in {"OK"} \cup MemoryRefusals : Reply(status, 0, <<>>)
  /\ bag' = EmptyBag
  /\ UNCHANGED <<order, ceiling>>

(* The contents stay, whatever becomes of the memory. *)
Resize ==
  /\ \/ Answers("reserve") /\ \E status \in {"OK", "FULL"} \cup MemoryRefusals : Reply(status, 0, <<>>)
     \/ Answers("shrink") /\ \E status \in {"OK"} \cup MemoryRefusals : Reply(status, 0, <<>>)
     \/ Answers("heapify") /\ Reply("OK", 0, <<>>)
  /\ UNCHANGED <<bag, order, ceiling>>

Next(batches) ==
  \/ Configure
  \/ Push \/ PushRefused \/ PushBulk(batches)
  \/ Pop \/ PopBulk \/ Peek \/ Empty
  \/ ReplaceTop \/ UpdateAt \/ RemoveAt \/ Misuse
  \/ Build(batches) \/ Drop \/ Resize
=============================================================================

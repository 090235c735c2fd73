---------------------------- MODULE BoundedLifo ----------------------------
(* What the stack of stack/dv_stack.h promises to its caller, with the memory
   behind it left out: a sequence of items that never grows past a ceiling,
   and a reply to every call.

   A push that could not get memory changes nothing.  A full stack is told
   apart from an allocator that refuses: "FULL" is the reply exactly when the
   ceiling is reached.                                                      *)
EXTENDS Naturals, Sequences, SequencesExt

CONSTANTS Values,    \* what is pushed
          NoValue    \* the NULL that pop_ptr and peek_ptr write when empty

VARIABLES items,     \* the contents, the top last
          ceiling,   \* most items this stack may ever hold
          reply      \* [op, status, n, out] of the last call

vars == <<items, ceiling, reply>>

(* A refused resize: the allocator returned NULL, or no size_t holds the
   bytes.                                                                   *)
MemoryRefusals == {"NOMEM", "OVERFLOW"}

(* The reply to a call of one of the operations `ops'. *)
Reply(ops, status, n, out) ==
  \E op \in ops : reply' = [op |-> op, status |-> status, n |-> n, out |-> out]

Init ==
  /\ items = <<>>
  /\ ceiling = 0
  /\ reply = [op |-> "none", status |-> "OK", n |-> 0, out |-> <<>>]

(* An empty stack with some ceiling. *)
Configure ==
  /\ items' = <<>>
  /\ ceiling' \in Nat
  /\ \/ \E status \in {"OK", "INVALID"} \cup MemoryRefusals : Reply({"init"}, status, 0, <<>>)
     \/ Reply({"destroy"}, "OK", 0, <<>>)

Push ==
  /\ Len(items) < ceiling
  /\ \E v \in Values : items' = Append(items, v)
  /\ Reply({"push"}, "OK", 1, <<>>)
  /\ UNCHANGED ceiling

(* push_ptr replies "INVALID" on a stack of something else. *)
PushRefused ==
  /\ \E status \in {"INVALID"} \cup (IF Len(items) < ceiling THEN MemoryRefusals ELSE {"FULL"}) :
       Reply({"push"}, status, 0, <<>>)
  /\ UNCHANGED <<items, ceiling>>

(* A prefix of the batch goes in, and the reply is its length. *)
PushBulk(batches) ==
  /\ \E batch \in batches, n \in 0 .. ceiling - Len(items) :
       /\ n <= Len(batch)
       /\ items' = items \o SubSeq(batch, 1, n)
       /\ Reply({"push_bulk"}, "OK", n, <<>>)
  /\ UNCHANGED ceiling

(* As many single pops as the reply says, each delivering the top, or
   delivering nothing when the caller discards them.                        *)
Pop ==
  /\ \E n \in 0 .. Len(items) :
       /\ items' = SubSeq(items, 1, Len(items) - n)
       /\ \E out \in {<<>>, Reverse(SubSeq(items, Len(items) - n + 1, Len(items)))} :
            Reply(IF n = 1 THEN {"pop", "pop_ptr", "pop_bulk"} ELSE {"pop_bulk"}, "OK", n, out)
  /\ UNCHANGED ceiling

Peek ==
  /\ items # <<>>
  /\ \/ Reply({"peek", "peek_ptr"}, "OK", 0, <<Last(items)>>)
     \/ \E i \in DOMAIN items : Reply({"at"}, "OK", 0, <<items[i]>>)
  /\ UNCHANGED <<items, ceiling>>

Empty ==
  /\ items = <<>>
  /\ \/ Reply({"pop", "peek"}, "EMPTY", 0, <<>>)
     \/ Reply({"pop_ptr", "peek_ptr"}, "EMPTY", 0, <<NoValue>>)
  /\ UNCHANGED <<items, ceiling>>

(* A stack of something else, or an index out of range. *)
Misuse ==
  /\ Reply({"pop_ptr", "peek_ptr", "at"}, "INVALID", 0, <<>>)
  /\ UNCHANGED <<items, ceiling>>

(* The contents go, whatever becomes of the memory. *)
Drop ==
  /\ items' = <<>>
  /\ \/ Reply({"clear"}, "OK", 0, <<>>)
     \/ \E status \in {"OK"} \cup MemoryRefusals : Reply({"reset"}, status, 0, <<>>)
  /\ UNCHANGED ceiling

(* The contents stay, whatever becomes of the memory. *)
Resize ==
  /\ \/ \E status \in {"OK", "FULL"} \cup MemoryRefusals : Reply({"reserve"}, status, 0, <<>>)
     \/ \E status \in {"OK"} \cup MemoryRefusals : Reply({"shrink"}, status, 0, <<>>)
  /\ UNCHANGED <<items, ceiling>>

Next(batches) ==
  \/ Configure
  \/ Push \/ PushRefused \/ PushBulk(batches)
  \/ Pop \/ Peek \/ Empty \/ Misuse
  \/ Drop \/ Resize
=============================================================================

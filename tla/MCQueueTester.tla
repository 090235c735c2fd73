--------------------------- MODULE MCQueueTester ---------------------------
(* Instances of QueueTester for TLC. *)
EXTENDS QueueTester

Plan(n, m, k) == [sides |-> n, items |-> m, samples |-> k]

(* One pair of threads, with enough items for the queue to fill and the words
   to wrap; and two pairs, for the races between threads of a kind.         *)
MCPlans == {Plan(1, 7, 1), Plan(2, 1, 0)}

MCProducerList == <<"p1", "p2">>

MCConsumerList == <<"c1", "c2">>
=============================================================================

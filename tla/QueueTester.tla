---------------------------- MODULE QueueTester ----------------------------
(* The stress test queue/dv_queue_tester.c, as a client of the queue of
   DvQueue: producers that allocate objects and send them in batches until all
   are gone, consumers that poll until they know that nothing can come any
   more, and a main thread that starts them, watches, joins them, compares
   sums and frees the queue.

   The threads make the queue's accesses one at a time, as DvQueue has them;
   what a thread does on its own between two accesses to something shared is
   one step.  A batch is one bulk call for what is left of it.              *)
EXTENDS DvQueue, SequencesExt, Bitwise

CONSTANTS Main,
          ProducerList,   \* the producers, in the order of their thread_id
          ConsumerList,
          Plans           \* ways to build it: THREAD_COUNT / 2, ITEMS_PER_THREAD, and the
                          \* bound on how often main asks for the size while it waits

(* THREAD_COUNT is even, half of it producers.  BATCH_SIZE is MaxBulk. *)
ASSUME TesterAssumption ==
  /\ ToSet(ProducerList) = Producers /\ ToSet(ConsumerList) = Consumers
  /\ Monitors = {Main}
  /\ \A p \in Plans :
       /\ p.sides \in 1 .. Len(ProducerList) /\ p.sides \in 1 .. Len(ConsumerList)
       /\ p.items \in 1 .. MaxSent /\ p.samples \in Nat

VARIABLES plan,      \* how the program was built
          main,      \* where the main thread is
          index,     \* its loop variable
          at,        \* where each other thread is
          tally,     \* its local_sum and local_xor, with its local_count or current_item
          counted,   \* the items of a producer that g_produced_count includes
          batch,     \* the objects that the current calls of a consumer have brought
          globals,   \* the counters and sums of all threads, and g_producers_done
          objects,   \* the objects that are allocated
          twice,     \* history: an object was freed that was not allocated
          alive,     \* whether g_queue is there
          verdict    \* ok

clientVars == <<plan, main, index, at, tally, counted, batch, globals, objects, twice, alive, verdict>>
testerVars == <<vars, clientVars>>

ProducerThreads == SubSeq(ProducerList, 1, plan.sides)

ConsumerThreads == SubSeq(ConsumerList, 1, plan.sides)

ItemsPerThread == plan.items

ExpectedTotal == plan.sides * ItemsPerThread

ThreadId(t) == (CHOOSE i \in DOMAIN ProducerList : ProducerList[i] = t) - 1

(* The value in the object that DvQueue calls <<t, n>>. *)
ValueOf(item) == ThreadId(item[1]) * ItemsPerThread + item[2]

Zero == [sum |-> 0, xor |-> 0, count |-> 0]

Add(a, item) == [sum |-> a.sum + ValueOf(item), xor |-> a.xor ^^ ValueOf(item), count |-> a.count + 1]

Plus(a, b) == [sum |-> a.sum + b.sum, xor |-> a.xor ^^ b.xor, count |-> a.count + b.count]

AddAll(a, list) == FoldLeft(Add, a, list)

(***************************************************************************)
(* What main expects.                                                      *)
(***************************************************************************)
FirstOf(i) == i * ItemsPerThread + 1

LastOf(i) == FirstOf(i) + ItemsPerThread - 1

ExpectedSumFor(i) == (ItemsPerThread * (FirstOf(i) + LastOf(i))) \div 2

ExpectedXorUpto(n) ==
  CASE n % 4 = 0 -> n
    [] n % 4 = 1 -> 1
    [] n % 4 = 2 -> n + 1
    [] n % 4 = 3 -> 0

ExpectedXorFor(i) == ExpectedXorUpto(LastOf(i)) ^^ ExpectedXorUpto(FirstOf(i) - 1)

Ids == [i \in 1 .. plan.sides |-> i - 1]

ExpectedSum == FoldLeft(LAMBDA n, i : n + ExpectedSumFor(i), 0, Ids)

ExpectedXor == FoldLeft(LAMBDA n, i : n ^^ ExpectedXorFor(i), 0, Ids)

(***************************************************************************)
(* The initial state: mpmc_init has succeeded and no thread is started.    *)
(***************************************************************************)
TesterInit ==
  /\ Init
  /\ plan \in Plans
  /\ main = "create"
  /\ index = 1
  /\ at = [t \in Threads |-> "unborn"]
  /\ tally = [t \in Threads |-> Zero]
  /\ counted = [t \in Threads |-> 0]
  /\ batch = [t \in Threads |-> <<>>]
  /\ globals = [produced |-> 0, consumed |-> 0, in |-> Zero, out |-> Zero, done |-> FALSE]
  /\ objects = {}
  /\ twice = FALSE
  /\ alive = TRUE
  /\ verdict = FALSE

Ended == main \in {"done", "exited"}

Goes(t, label) == at' = [at EXCEPT ![t] = label]

(* exit takes every thread along. *)
Exit ==
  /\ main' = "exited"
  /\ UNCHANGED <<vars, plan, index, at, tally, counted, batch, globals, objects, twice, verdict>>

(***************************************************************************)
(* producer_thread.                                                        *)
(***************************************************************************)
Current(t) == tally[t].count

BatchEnd(t) == Min({Current(t) + MaxBulk, ItemsPerThread})

(* One object each for the items of the next batch. *)
ProducerFills(t) ==
  /\ at[t] = "fill"
  /\ Current(t) < ItemsPerThread
  /\ LET made == [i \in 1 .. BatchEnd(t) - Current(t) |-> <<t, Current(t) + i>>]
     IN  /\ objects' = objects \cup ToSet(made)
         /\ tally' = [tally EXCEPT ![t] = AddAll(@, made)]
  /\ Goes(t, "send")
  /\ UNCHANGED <<vars, plan, main, index, counted, batch, globals, twice, alive, verdict>>

ProducerNoMemory(t) == at[t] = "fill" /\ Current(t) < ItemsPerThread /\ Exit /\ UNCHANGED alive

SendsPastBatch(t) ==
  /\ at[t] = "send"
  /\ EnqCall(t, ItemsPerThread - sent[t])
  /\ Goes(t, "sending")
  /\ UNCHANGED <<plan, main, index, tally, counted, batch, globals, objects, twice, alive, verdict>>

ProducerSends(t) ==
  /\ at[t] = "send"
  /\ EnqCall(t, Current(t) - sent[t])
  /\ Goes(t, "sending")
  /\ UNCHANGED <<plan, main, index, tally, counted, batch, globals, objects, twice, alive, verdict>>

(* The call has returned.  What it sent is counted, and what it did not send
   is sent again.                                                           *)
ProducerCounts(t) ==
  /\ at[t] = "sending" /\ pc[t] = "idle"
  /\ globals' = [globals EXCEPT !.produced = @ + sent[t] - counted[t]]
  /\ counted' = [counted EXCEPT ![t] = sent[t]]
  /\ Goes(t, IF sent[t] < Current(t) THEN "send" ELSE "fill")
  /\ UNCHANGED <<vars, plan, main, index, tally, batch, objects, twice, alive, verdict>>

ProducerReports(t) ==
  /\ at[t] = "fill"
  /\ Current(t) = ItemsPerThread
  /\ globals' = [globals EXCEPT !.in = Plus(@, tally[t])]
  /\ Goes(t, "finished")
  /\ UNCHANGED <<vars, plan, main, index, tally, counted, batch, objects, twice, alive, verdict>>

(***************************************************************************)
(* consumer_thread.                                                        *)
(***************************************************************************)
(* mpmc_dequeue_bulk for a batch, or the single mpmc_dequeue at the end. *)
ConsumerCalls(t) ==
  /\ \/ at[t] = "poll" /\ DeqCall(t, MaxBulk) /\ Goes(t, "polling")
     \/ at[t] = "last" /\ DeqCall(t, 1) /\ Goes(t, "lasting")
  /\ UNCHANGED <<plan, main, index, tally, counted, batch, globals, objects, twice, alive, verdict>>

(* An item is in the consumer's array when its slot has been released. *)
ConsumerGets(t) ==
  /\ DeqRelease(t)
  /\ batch' = [batch EXCEPT ![t] = Append(@, got[t])]
  /\ UNCHANGED <<plan, main, index, at, tally, counted, globals, objects, twice, alive, verdict>>

Returned(t) == at[t] \in {"polling", "lasting"} /\ pc[t] = "idle"

(* The call has brought something: it is added up, freed and counted. *)
ConsumerTakes(t) ==
  /\ Returned(t) /\ batch[t] # <<>>
  /\ tally' = [tally EXCEPT ![t] = AddAll(@, batch[t])]
  /\ objects' = objects \ ToSet(batch[t])
  /\ twice' = (twice \/ ~(ToSet(batch[t]) \subseteq objects) \/ ~IsInjective(batch[t]))
  /\ globals' = [globals EXCEPT !.consumed = @ + Len(batch[t])]
  /\ batch' = [batch EXCEPT ![t] = <<>>]
  /\ Goes(t, "poll")
  /\ UNCHANGED <<vars, plan, main, index, counted, alive, verdict>>

LeavesWhenEmpty(t) ==
  /\ Returned(t) /\ batch[t] = <<>> /\ at[t] = "polling"
  /\ Goes(t, "last")
  /\ UNCHANGED <<vars, plan, main, index, tally, counted, batch, globals, objects, twice, alive, verdict>>

(* It has brought nothing, and g_producers_done is loaded... *)
ConsumerLooks(t) ==
  /\ Returned(t) /\ batch[t] = <<>> /\ at[t] = "polling"
  /\ Goes(t, IF globals.done THEN "weigh" ELSE "poll")
  /\ UNCHANGED <<vars, plan, main, index, tally, counted, batch, globals, objects, twice, alive, verdict>>

(* ... and then g_consumed_count. *)
ConsumerWeighs(t) ==
  /\ at[t] = "weigh"
  /\ Goes(t, IF globals.consumed >= ExpectedTotal THEN "last" ELSE "poll")
  /\ UNCHANGED <<vars, plan, main, index, tally, counted, batch, globals, objects, twice, alive, verdict>>

ConsumerReports(t) ==
  /\ Returned(t) /\ batch[t] = <<>> /\ at[t] = "lasting"
  /\ globals' = [globals EXCEPT !.out = Plus(@, tally[t])]
  /\ Goes(t, "finished")
  /\ UNCHANGED <<vars, plan, main, index, tally, counted, batch, objects, twice, alive, verdict>>

(***************************************************************************)
(* main.                                                                   *)
(***************************************************************************)
Creates == ConsumerThreads \o ProducerThreads

MainGoes(label, i) == main' = label /\ index' = i

(* A loop of main over a list of threads, of which this was one turn. *)
LoopsOver(list, next) ==
  IF index = Len(list) THEN MainGoes(next, 1) ELSE MainGoes(main, index + 1)

MainCreates ==
  /\ main = "create"
  /\ Goes(Creates[index], IF Creates[index] \in Consumers THEN "poll" ELSE "fill")
  /\ LoopsOver(Creates, "watch")
  /\ UNCHANGED <<vars, plan, tally, counted, batch, globals, objects, twice, alive, verdict>>

(* fail_pthread: the queue is freed under the threads that run, and the
   process ends.  What those do in between is undefined, and not modelled.   *)
MainCannotCreate == main = "create" /\ Exit /\ alive' = FALSE

(* mpmc_size, some times while the others run and once at the end. *)
MainAsks ==
  /\ main \in {"watch", "result"}
  /\ main = "watch" => index <= plan.samples
  /\ SizeCall(Main)
  /\ main' = IF main = "watch" THEN "watching" ELSE "resulting"
  /\ UNCHANGED <<plan, index, at, tally, counted, batch, globals, objects, twice, alive, verdict>>

MainHears ==
  /\ main = "watching" /\ pc[Main] = "idle"
  /\ MainGoes("watch", index + 1)
  /\ UNCHANGED <<vars, plan, at, tally, counted, batch, globals, objects, twice, alive, verdict>>

MainStopsWatching ==
  /\ main = "watch" /\ index > plan.samples
  /\ MainGoes("join", 1)
  /\ UNCHANGED <<vars, plan, at, tally, counted, batch, globals, objects, twice, alive, verdict>>

MainJoinsProducer ==
  /\ main = "join"
  /\ at[ProducerThreads[index]] = "finished"
  /\ LoopsOver(ProducerThreads, "flag")
  /\ UNCHANGED <<vars, plan, at, tally, counted, batch, globals, objects, twice, alive, verdict>>

SkipsDrain ==
  /\ main = "flag"
  /\ globals' = [globals EXCEPT !.done = TRUE]
  /\ MainGoes("result", 1)
  /\ UNCHANGED <<vars, plan, at, tally, counted, batch, objects, twice, alive, verdict>>

MainFlags ==
  /\ main = "flag"
  /\ globals' = [globals EXCEPT !.done = TRUE]
  /\ MainGoes("drain", 1)
  /\ UNCHANGED <<vars, plan, at, tally, counted, batch, objects, twice, alive, verdict>>

MainJoinsConsumer ==
  /\ main = "drain"
  /\ at[ConsumerThreads[index]] = "finished"
  /\ LoopsOver(ConsumerThreads, "result")
  /\ UNCHANGED <<vars, plan, at, tally, counted, batch, globals, objects, twice, alive, verdict>>

Joined == FoldLeft(LAMBDA n, t : n + tally[t].count, 0, ConsumerThreads)

(* mpmc_free, and the comparison. *)
MainConcludes ==
  /\ main = "resulting" /\ pc[Main] = "idle"
  /\ alive' = FALSE
  /\ verdict' = /\ {globals.produced, globals.consumed, Joined} = {ExpectedTotal}
                /\ {globals.in.sum, globals.out.sum} = {ExpectedSum}
                /\ {globals.in.xor, globals.out.xor} = {ExpectedXor}
                /\ size[Main] = 0
  /\ MainGoes("done", 1)
  /\ UNCHANGED <<vars, plan, at, tally, counted, batch, globals, objects, twice>>

(***************************************************************************)
(* The specification.                                                      *)
(***************************************************************************)
(* An access of the queue that no client variable notices. *)
Access(t) == pc[t] # "d_rel" /\ Step(t) /\ UNCHANGED clientVars

Claims(t) == ~Ended /\ (EnqClaim(t) \/ DeqClaim(t)) /\ UNCHANGED clientVars

ClaimsNot(t) == ClaimFails(t) /\ UNCHANGED clientVars

ThreadStep(t) ==
  /\ ~Ended
  /\ \/ Access(t) \/ ClaimsNot(t)
     \/ ProducerFills(t) \/ ProducerSends(t) \/ ProducerCounts(t) \/ ProducerReports(t)
     \/ ConsumerCalls(t) \/ ConsumerGets(t) \/ ConsumerTakes(t) \/ ConsumerLooks(t)
     \/ ConsumerWeighs(t) \/ ConsumerReports(t)

MainStep ==
  \/ MainCreates \/ MainAsks \/ MainHears \/ MainStopsWatching \/ MainJoinsProducer
  \/ MainFlags \/ MainJoinsConsumer \/ MainConcludes

TesterNext ==
  \/ MainStep \/ MainCannotCreate
  \/ \E t \in Threads : ThreadStep(t) \/ (~Ended /\ ProducerNoMemory(t))

(* The scheduler runs every thread, and no weak compare-and-swap fails for
   ever.                                                                    *)
TesterSpec ==
  /\ TesterInit /\ [][TesterNext]_testerVars
  /\ WF_testerVars(MainStep)
  /\ \A t \in Threads : WF_testerVars(ThreadStep(t))
  /\ \A t \in Producers \cup Consumers : SF_testerVars(Claims(t))

(***************************************************************************)
(* Correctness.                                                            *)
(***************************************************************************)
(* The test has no false alarms: whatever the interleaving, the counts, sums
   and exclusive-ors that the threads report are the ones main works out
   beforehand, and the queue is empty when the last consumer leaves.        *)
GreatSuccess == main = "done" => verdict

(* Every object is freed by exactly one consumer, and none is left when the
   test ends (dv_queue_tester.c:157-163); and mpmc_free comes after the last
   call of any thread, which would go on to use the queue.  When a thread
   cannot be created it does not, and nothing but exit, on the next line,
   stops the others.                                                        *)
FreedOnceAndLast ==
  /\ ~twice /\ (main = "done" => objects = {})
  /\ ~alive /\ main # "exited" => \A t \in Threads : pc[t] = "idle" /\ at[t] \in {"unborn", "finished"}

(* The tester calls the queue as DvQueue assumes, so that what is proved of
   DvQueue holds in it.                                                     *)
ObeysQueue == Spec

(* The test ends: producers do not retry for ever, and consumers that poll
   notice that nothing can come any more.                                   *)
TesterEnds == <>Ended
=============================================================================

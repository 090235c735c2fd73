----------------------------- MODULE MtClients -----------------------------
(* Programs that use a wrapper: the contention phases of the three testers
   (stack/dv_stack_tester.c:453-580, heap/dv_heap_tester.c:534-648,
   graph/dv_graph_tester.c:680-756), and "calls", in which threads make
   whatever calls they like, as unit tests and users of the library may.

   A tester's main thread initialises the wrapper, starts the others, joins
   them, compares what they report with what it expects, and destroys the
   wrapper.  It calls the wrapper too, so it is one of the threads.         *)
EXTENDS MtWrapper, MtCores, Bitwise

CONSTANTS Main,
          Producers,     \* the threads of mt_producer, in order of their index
          Consumers,     \* the threads of mt_consumer
          Workers,       \* the threads of contend_worker
          Callers,       \* the threads of the program "calls"
          Small,         \* bound: the containers they make
          Tried(_, _),   \* bound: the calls each makes on a container
          TriedInFn(_),  \* bound: the core calls of the functions they give it
          Programs,      \* the programs looked at
          Items,         \* items of each producer and consumer
          PerThread      \* edges of each worker

ASSUME ClientAssumption ==
  /\ Len(Producers) = Len(Consumers) /\ Len(Producers) > 0
  /\ Items \in Nat /\ PerThread \in 0 .. 2

VARIABLES program,   \* which program runs
          main,      \* where its main thread is
          index,     \* the loop variable of the main thread
          run,       \* whether each other thread is "unborn", "running" or "finished"
          tally,     \* what it has added up
          verdict,   \* the phase's ok
          refused    \* history: memory, or a mutex, was refused

clientVars == <<program, main, index, run, tally, verdict, refused>>
vars == <<wrapperVars, clientVars>>

Pairs == program \in {"stack", "heap"}

Ended == main \in {"done", "exited"}

(* The order of pthread_create, and that of pthread_join. *)
Creates == IF Pairs THEN Consumers \o Producers ELSE Workers

Joins == IF Pairs THEN Producers \o Consumers ELSE Workers

NewTally ==
  [count |-> 0, sum |-> 0, xor |-> 0, step |-> "a", a |-> 0, b |-> 0, e |-> 0, ok |-> TRUE]

(* Containers that grow: the ceilings are never reached. *)
Blank ==
  CASE program = "stack" -> EmptyStack(Len(Producers) * Items)
    [] program = "heap" -> EmptyHeap(Len(Producers) * Items)
    [] program = "graph" -> EmptyGraph(Len(Workers) * 2)

Init ==
  /\ WrapperInit
  /\ program \in Programs
  /\ main = IF program = "calls" THEN "free" ELSE "init"
  /\ index = 1
  /\ run = [t \in Threads |-> "unborn"]
  /\ tally = [t \in Threads |-> NewTally]
  /\ verdict = TRUE
  /\ refused = FALSE

(***************************************************************************)
(* mt_producer and mt_consumer.                                            *)
(***************************************************************************)
(* Values of a stack tester's producer are its own; those of a heap tester
   come from a generator.                                                   *)
Offers(t) ==
  IF program = "heap" THEN Keys
  ELSE {((CHOOSE i \in DOMAIN Producers : Producers[i] = t) - 1) * Items + tally[t].count + 1}

Adds(t, value) ==
  tally' = [tally EXCEPT ![t].count = @ + 1, ![t].sum = @ + value, ![t].xor = @ ^^ value]

Finishes(t) == run' = [run EXCEPT ![t] = "finished"]

Active(t) == run[t] = "running" /\ ~Ended

ProducerCalls(t) ==
  /\ Active(t) /\ pc[t] = "out"
  /\ tally[t].count < Items
  /\ \E value \in Offers(t) : Invoke(t, [op |-> "push", v |-> value])
  /\ UNCHANGED clientVars

(* A push that is refused ends the thread. *)
ProducerReturns(t) ==
  /\ Active(t) /\ Unlock(t)
  /\ \/ reply[t].status = "OK" /\ Adds(t, call[t].v) /\ UNCHANGED run
     \/ reply[t].status # "OK" /\ Finishes(t) /\ UNCHANGED tally
  /\ UNCHANGED <<program, main, index, verdict, refused>>

PopsOneMore(t) ==
  /\ Active(t) /\ pc[t] = "out"
  /\ tally[t].count <= Items
  /\ Invoke(t, [op |-> "pop"])
  /\ UNCHANGED clientVars

ConsumerCalls(t) ==
  /\ Active(t) /\ pc[t] = "out"
  /\ tally[t].count < Items
  /\ Invoke(t, [op |-> "pop"])
  /\ UNCHANGED clientVars

CountsEmptyPop(t) ==
  /\ Active(t) /\ Unlock(t)
  /\ Adds(t, reply[t].out)
  /\ UNCHANGED <<program, main, index, run, verdict, refused>>

(* A pop that finds nothing is tried again. *)
ConsumerReturns(t) ==
  /\ Active(t) /\ Unlock(t)
  /\ \/ reply[t].status = "OK" /\ Adds(t, reply[t].out)
     \/ reply[t].status # "OK" /\ UNCHANGED tally
  /\ UNCHANGED <<program, main, index, run, verdict, refused>>

(* The loop of either has made its last turn. *)
LoopEnds(t) ==
  /\ Active(t) /\ pc[t] = "out"
  /\ tally[t].count = Items
  /\ Finishes(t)
  /\ UNCHANGED <<wrapperVars, program, main, index, tally, verdict, refused>>

Pair(t) ==
  /\ Pairs
  /\ \/ t \in ToSet(Producers) /\ (ProducerCalls(t) \/ ProducerReturns(t))
     \/ t \in ToSet(Consumers) /\ (ConsumerCalls(t) \/ ConsumerReturns(t))
     \/ LoopEnds(t)

(***************************************************************************)
(* contend_worker: two vertices, edges between them, every other one taken  *)
(* out again at once.                                                       *)
(***************************************************************************)
WorkerAsks(t) ==
  LET w == tally[t]
  IN CASE w.step \in {"a", "b"} -> [op |-> "add_vertex"]
       [] w.step = "edge" -> [op |-> "add_edge", v |-> w.a, to |-> w.b]
       [] w.step = "remove" -> [op |-> "remove_edge", v |-> w.e]
       [] w.step = "degree" -> [op |-> "degree", v |-> w.a]

WorkerCalls(t) ==
  /\ Active(t) /\ pc[t] = "out"
  /\ Invoke(t, WorkerAsks(t))
  /\ UNCHANGED clientVars

(* The next turn of the loop, or what follows it. *)
Turn(w) == [w EXCEPT !.count = @ + 1, !.step = IF w.count + 1 < PerThread THEN "edge" ELSE "degree"]

WorkerGoesOn(w, out) ==
  CASE w.step = "a" -> [w EXCEPT !.a = out, !.step = "b"]
    [] w.step = "b" -> [w EXCEPT !.b = out, !.step = IF PerThread > 0 THEN "edge" ELSE "degree"]
    [] w.step = "edge" -> IF w.count % 2 = 0 THEN [w EXCEPT !.e = out, !.step = "remove"] ELSE Turn(w)
    [] w.step = "remove" -> Turn(w)
    [] w.step = "degree" -> [w EXCEPT !.ok = out = PerThread \div 2]

WorkerReturns(t) ==
  /\ Active(t) /\ Unlock(t)
  /\ \/ /\ reply[t].status = "OK"
        /\ tally' = [tally EXCEPT ![t] = WorkerGoesOn(@, reply[t].out)]
        /\ IF tally[t].step = "degree" THEN Finishes(t) ELSE UNCHANGED run
     \/ /\ reply[t].status # "OK"
        /\ tally' = [tally EXCEPT ![t].ok = FALSE]
        /\ Finishes(t)
  /\ UNCHANGED <<program, main, index, verdict, refused>>

Contend(t) == program = "graph" /\ (WorkerCalls(t) \/ WorkerReturns(t))

(***************************************************************************)
(* The main thread of a tester: phase_mt_contention.                       *)
(***************************************************************************)
MainGoes(label, i) == main' = label /\ index' = i

(* The phase returns false before it has started a thread. *)
GivesUp ==
  /\ MainGoes("done", 1)
  /\ verdict' = FALSE
  /\ refused' = TRUE
  /\ UNCHANGED <<program, run, tally>>

MainInit ==
  /\ main = "init"
  /\ \/ /\ InitOk(Blank)
        /\ MainGoes(IF Pairs THEN "alloc" ELSE "create", 1)
        /\ UNCHANGED <<program, run, tally, verdict, refused>>
     \/ (InitNoMutex \/ InitNoContainer) /\ GivesUp

MainAllocates ==
  /\ main = "alloc"
  /\ \/ /\ MainGoes("create", 1)
        /\ UNCHANGED <<wrapperVars, program, run, tally, verdict, refused>>
     \/ MtDestroy /\ GivesUp

(* A thread that cannot be created ends the process. *)
MainCreates ==
  /\ main = "create"
  /\ \/ /\ run' = [run EXCEPT ![Creates[index]] = "running"]
        /\ IF index = Len(Creates) THEN MainGoes("join", 1) ELSE MainGoes("create", index + 1)
     \/ /\ MainGoes("exited", 1)
        /\ UNCHANGED run
  /\ UNCHANGED <<wrapperVars, program, tally, verdict, refused>>

Sum(ts, Of(_)) == FoldLeft(LAMBDA n, t : n + Of(t), 0, ts)

Xored(ts) == FoldLeft(LAMBDA n, t : n ^^ tally[t].xor, 0, ts)

(* What the threads report adds up. *)
Reports ==
  LET Counted(ts) == Sum(ts, LAMBDA t : tally[t].count)
      Summed(ts) == Sum(ts, LAMBDA t : tally[t].sum)
  IN IF Pairs
     THEN /\ Counted(Producers) = Len(Producers) * Items
          /\ Counted(Consumers) = Len(Producers) * Items
          /\ Summed(Producers) = Summed(Consumers)
          /\ Xored(Producers) = Xored(Consumers)
     ELSE \A i \in DOMAIN Workers : tally[Workers[i]].ok

JoinsNobody ==
  /\ main = "join"
  /\ MainGoes("check", 1)
  /\ verdict' = Reports
  /\ UNCHANGED <<wrapperVars, program, run, tally, refused>>

MainJoins ==
  /\ main = "join"
  /\ run[Joins[index]] = "finished"
  /\ \/ /\ index < Len(Joins)
        /\ MainGoes("join", index + 1)
        /\ UNCHANGED verdict
     \/ /\ index = Len(Joins)
        /\ MainGoes("check", 1)
        /\ verdict' = Reports
  /\ UNCHANGED <<wrapperVars, program, run, tally, refused>>

(* What the phase then asks of the wrapper, as long as all is well, and the
   answers it expects.                                                      *)
Checks == IF Pairs THEN <<"size">> ELSE <<"vertex_count", "edge_count", "is_valid">>

Expected(op) ==
  CASE op = "size" -> 0
    [] op = "vertex_count" -> Len(Workers) * 2
    [] op = "edge_count" -> Len(Workers) * (PerThread - PerThread \div 2)
    [] op = "is_valid" -> 1

MoreChecks == verdict /\ index <= Len(Checks)

MainAsks ==
  /\ main = "check" /\ pc[Main] = "out"
  /\ MoreChecks
  /\ \/ Checks[index] = "is_valid" /\ InvokeFn(Main)
     \/ Checks[index] # "is_valid" /\ Invoke(Main, [op |-> Checks[index]])
  /\ UNCHANGED clientVars

(* contend_validate, which dv_graph_mt_read runs: one core call. *)
MainValidates ==
  /\ main = "check"
  /\ \/ reply[Main] = NoReply /\ FnCalls(Main, [op |-> "is_valid"])
     \/ reply[Main] # NoReply /\ FnReturns(Main)
  /\ UNCHANGED clientVars

MainHears ==
  /\ main = "check" /\ Unlock(Main)
  /\ verdict' = (reply[Main].out = Expected(Checks[index]))
  /\ MainGoes("check", index + 1)
  /\ UNCHANGED <<program, run, tally, refused>>

MainDestroys ==
  /\ main = "check" /\ pc[Main] = "out"
  /\ ~MoreChecks
  /\ MtDestroy
  /\ MainGoes("done", 1)
  /\ UNCHANGED <<program, run, tally, verdict, refused>>

MainStep ==
  \/ MainInit \/ MainAllocates \/ MainCreates \/ MainJoins
  \/ MainAsks \/ MainValidates \/ MainHears \/ MainDestroys

(***************************************************************************)
(* The program "calls".                                                    *)
(***************************************************************************)
FreeCall(t) ==
  /\ program = "calls" /\ t \in Callers
  /\ open
  /\ InvokeFn(t) \/ \E c \in Tried(t, box) : Invoke(t, c)
  /\ UNCHANGED clientVars

FnGoesOn(t) ==
  /\ program = "calls"
  /\ \E c \in TriedInFn(box) : FnCalls(t, c)
  /\ UNCHANGED clientVars

FnStops(t) == program = "calls" /\ FnReturns(t) /\ UNCHANGED clientVars

FreeReturn(t) == program = "calls" /\ Unlock(t) /\ UNCHANGED clientVars

FreeLifecycle ==
  /\ program = "calls"
  /\ Quiet /\ Lifecycle
  /\ open' => box' \in Small
  /\ UNCHANGED clientVars

(***************************************************************************)
(* The specification.                                                      *)
(***************************************************************************)
Acquires(t) == ~Ended /\ Lock(t) /\ UNCHANGED clientVars

InCore(t) ==
  /\ ~Ended
  /\ \/ CoreReads(t) /\ UNCHANGED refused
     \/ CoreStores(t) /\ refused' = (refused \/ reply'[t].status = "NOMEM")
  /\ UNCHANGED <<program, main, index, run, tally, verdict>>

GoesOn(t) == InCore(t) \/ Pair(t) \/ Contend(t) \/ FreeReturn(t)

Next ==
  \/ MainStep \/ FreeLifecycle
  \/ \E t \in Threads : Acquires(t) \/ GoesOn(t) \/ FreeCall(t) \/ FnGoesOn(t) \/ FnStops(t)

Spec == Init /\ [][Next]_vars

(* The scheduler lets every thread go on; a thread that waits for a lock that
   is given back again and again gets it; a function given to the wrapper
   returns.                                                                 *)
LiveSpec ==
  /\ Spec
  /\ WF_vars(MainStep)
  /\ \A t \in Threads : WF_vars(GoesOn(t)) /\ SF_vars(Acquires(t))
  /\ \A t \in Callers : SF_vars(FnStops(t))

(***************************************************************************)
(* Correctness.                                                            *)
(***************************************************************************)
(* The clients keep to what the wrapper asks of them (dv_stack_mt.h:24): they
   call it between a successful init and destroy only, and destroy it when
   every thread they started has returned from its last call; on every path
   of the testers, the early returns included.                              *)
ObeysWrapper == WrapperSpec

(* "The multiset that goes in is the multiset that comes out"
   (dv_stack_tester.c:497): however the threads interleave, the phase reports
   success exactly when nothing was refused, and its sums, counts and degrees
   are then those it computes beforehand.                                   *)
VerdictHonest == main = "done" => (verdict <=> ~refused)

(* A thread that has the lock gives it back, whatever the others do: no call
   waits for a lock its own thread holds, which a default mutex never grants,
   and so none keeps the others out for ever.                               *)
LockGivenBack == owner # Nobody ~> owner = Nobody \/ Ended

(* A tester's phase ends, although its consumers poll (dv_stack_tester.c:480).
   A push that is refused is excepted: it ends its producer, and the consumers
   then wait for items that never come.                                     *)
PhaseEnds == <>(Ended \/ program = "calls" \/ (Pairs /\ refused))
=============================================================================

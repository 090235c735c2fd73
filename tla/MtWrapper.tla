----------------------------- MODULE MtWrapper -----------------------------
(* The wrappers stack/dv_stack_mt.c, heap/dv_heap_mt.c and graph/dv_graph_mt.c,
   three copies of one text: a mutex beside an unsynchronized container.
   Every call takes the lock, makes one core call, releases the lock and
   returns; a function given to _with, _read or _write makes several under
   one acquisition.

   A core call is not atomic.  The thread reads the container when it enters
   the call and stores what it has worked out when it leaves, so that a second
   thread inside at the same time has its update lost.

   What the container is, and what a core call does to it, are parameters.
   The mutex is a default one: a thread that locks it twice waits for itself. *)
CONSTANTS Threads,
          Nobody,      \* owner of a free mutex
          Blanks,      \* the empty containers, one of each kind
          CallsOn(_),  \* the core calls that a container understands
          Core(_, _),  \* Core(c, b): the [box, reply] that call c on b may end in
          NoCall,
          NoReply

ASSUME WrapperAssumption ==
  /\ Nobody \notin Threads
  /\ Blanks # {}

VARIABLES mutex,     \* "none", or "ready" between its initialisation and destruction
          open,      \* what the caller knows: init has succeeded, and destroy not been called
          owner,     \* the thread that holds it, or Nobody
          box,       \* the container
          pc,        \* where each thread is in its call
          fn,        \* whether it runs a function given to _with, _read or _write
          call,      \* its current core call
          seen,      \* the container as that call read it
          reply,     \* the answer to the last one
          contract   \* history: every use of the mutex so far was defined

wrapperVars == <<mutex, open, owner, box, pc, fn, call, seen, reply, contract>>

Labels == {"out", "lock", "read", "store", "fn", "unlock"}

(* The container of a wrapper that is not initialised, and of a thread that is
   reading none.                                                            *)
Zeroed == CHOOSE b \in Blanks : TRUE

WrapperInit ==
  /\ mutex = "none"
  /\ open = FALSE
  /\ owner = Nobody
  /\ box = Zeroed
  /\ pc = [t \in Threads |-> "out"]
  /\ fn = [t \in Threads |-> FALSE]
  /\ call = [t \in Threads |-> NoCall]
  /\ seen = [t \in Threads |-> Zeroed]
  /\ reply = [t \in Threads |-> NoReply]
  /\ contract = TRUE

Goto(t, label) == pc' = [pc EXCEPT ![t] = label]

(* Using a mutex that is not there, unlocking another thread's, initialising
   one twice or destroying one that is held is undefined.                   *)
Defined(condition) == contract' = (contract /\ condition)

threadVars == <<pc, fn, call, seen, reply>>

(***************************************************************************)
(* dv_*_mt_init and dv_*_mt_destroy: neither takes the lock.               *)
(***************************************************************************)
(* pthread_mutex_init fails, and the container is zeroed. *)
InitNoMutex ==
  /\ Defined(mutex = "none")
  /\ box' = Zeroed
  /\ UNCHANGED <<mutex, open, owner, threadVars>>

KeepsMutex ==
  /\ Defined(mutex = "none")
  /\ mutex' = "ready"
  /\ box' = Zeroed
  /\ UNCHANGED <<open, owner, threadVars>>

(* The container's own initialisation fails, and the mutex goes again. *)
InitNoContainer ==
  /\ Defined(mutex = "none")
  /\ box' = Zeroed
  /\ UNCHANGED <<mutex, open, owner, threadVars>>

InitOk(blank) ==
  /\ Defined(mutex = "none")
  /\ mutex' = "ready"
  /\ open' = TRUE
  /\ owner' = Nobody
  /\ box' = blank
  /\ UNCHANGED threadVars

MtDestroy ==
  /\ Defined(mutex = "ready" /\ owner = Nobody)
  /\ mutex' = "none"
  /\ open' = FALSE
  /\ box' = Zeroed
  /\ UNCHANGED <<owner, threadVars>>

(***************************************************************************)
(* A call.                                                                 *)
(***************************************************************************)
Invoke(t, c) ==
  /\ pc[t] = "out"
  /\ Goto(t, "lock")
  /\ call' = [call EXCEPT ![t] = c]
  /\ UNCHANGED <<mutex, open, owner, box, fn, seen, reply, contract>>

InvokeFn(t) ==
  /\ pc[t] = "out"
  /\ Goto(t, "lock")
  /\ fn' = [fn EXCEPT ![t] = TRUE]
  /\ UNCHANGED <<mutex, open, owner, box, call, seen, reply, contract>>

(* What a call does first once it has the lock.  dv_*_mt_is_empty calls
   dv_*_mt_size, and does not take the lock itself.                         *)
LocksTwice(t) == IF fn[t] THEN "fn" ELSE IF call[t].op = "size" THEN "lock" ELSE "read"

UnderLock(t) == IF fn[t] THEN "fn" ELSE "read"

Unguarded(t) ==
  /\ pc[t] = "lock"
  /\ owner' = t
  /\ Goto(t, UnderLock(t))
  /\ Defined(mutex = "ready")
  /\ UNCHANGED <<mutex, open, box, fn, call, seen, reply>>

Lock(t) ==
  /\ pc[t] = "lock"
  /\ owner = Nobody
  /\ owner' = t
  /\ Goto(t, UnderLock(t))
  /\ Defined(mutex = "ready")
  /\ UNCHANGED <<mutex, open, box, fn, call, seen, reply>>

(* The function makes one more core call. *)
FnCalls(t, c) ==
  /\ pc[t] = "fn"
  /\ Goto(t, "read")
  /\ call' = [call EXCEPT ![t] = c]
  /\ UNCHANGED <<mutex, open, owner, box, fn, seen, reply, contract>>

FnReturns(t) ==
  /\ pc[t] = "fn"
  /\ Goto(t, "unlock")
  /\ UNCHANGED <<mutex, open, owner, box, fn, call, seen, reply, contract>>

UnlocksEarly(t) ==
  /\ pc[t] = "read"
  /\ seen' = [seen EXCEPT ![t] = box]
  /\ owner' = Nobody
  /\ Goto(t, "store")
  /\ UNCHANGED <<mutex, open, box, fn, call, reply, contract>>

CoreReads(t) ==
  /\ pc[t] = "read"
  /\ seen' = [seen EXCEPT ![t] = box]
  /\ Goto(t, "store")
  /\ UNCHANGED <<mutex, open, owner, box, fn, call, reply, contract>>

CoreStores(t) ==
  /\ pc[t] = "store"
  /\ \E r \in Core(call[t], seen[t]) :
       /\ box' = r.box
       /\ reply' = [reply EXCEPT ![t] = r.reply]
  /\ seen' = [seen EXCEPT ![t] = Zeroed]
  /\ call' = [call EXCEPT ![t] = IF fn[t] THEN NoCall ELSE @]
  /\ Goto(t, IF fn[t] THEN "fn" ELSE "unlock")
  /\ UNCHANGED <<mutex, open, owner, fn, contract>>

(* The unlock and the return: the caller has the reply. *)
Unlock(t) ==
  /\ pc[t] = "unlock"
  /\ Defined(mutex = "ready" /\ owner = t)
  /\ owner' = Nobody
  /\ fn' = [fn EXCEPT ![t] = FALSE]
  /\ call' = [call EXCEPT ![t] = NoCall]
  /\ reply' = [reply EXCEPT ![t] = NoReply]
  /\ Goto(t, "out")
  /\ UNCHANGED <<mutex, open, box, seen>>

(***************************************************************************)
(* The specification.                                                      *)
(***************************************************************************)
(* No thread is inside a call: what the callers of init and destroy see to. *)
Quiet == \A t \in Threads : pc[t] = "out"

Lifecycle ==
  \/ ~open /\ (InitNoMutex \/ InitNoContainer \/ \E blank \in Blanks : InitOk(blank))
  \/ open /\ MtDestroy

Calling(t) ==
  /\ open
  /\ InvokeFn(t) \/ \E c \in CallsOn(box) : Invoke(t, c)

(* The steps of a thread inside a call that has the lock. *)
Proceeds(t) ==
  \/ CoreReads(t) \/ CoreStores(t) \/ Unlock(t)
  \/ FnReturns(t) \/ \E c \in CallsOn(box) : FnCalls(t, c)

WrapperNext ==
  \/ Quiet /\ Lifecycle
  \/ \E t \in Threads : Calling(t) \/ Lock(t) \/ Proceeds(t)

WrapperSpec == WrapperInit /\ [][WrapperNext]_wrapperVars

(***************************************************************************)
(* Correctness.                                                            *)
(***************************************************************************)
(* Every variable has its type; the container and the calls are whatever the
   parameters make them.                                                    *)
WrapperTypeOK ==
  /\ mutex \in {"none", "ready"}
  /\ open \in BOOLEAN
  /\ owner \in Threads \cup {Nobody}
  /\ pc \in [Threads -> Labels]
  /\ fn \in [Threads -> BOOLEAN]
  /\ DOMAIN call = Threads /\ DOMAIN seen = Threads /\ DOMAIN reply = Threads
  /\ contract \in BOOLEAN

HasLock(t) == pc[t] \in {"read", "store", "fn", "unlock"}

(* "The core is unsynchronized on purpose" (dv_stack_mt.h:3): no two threads
   are ever inside it together, whether through a call or through a function
   they gave to the wrapper.                                                *)
CoreExclusive == \A t, u \in Threads : HasLock(t) /\ HasLock(u) => t = u

(* Every use of the mutex is one that POSIX defines: it is there when it is
   locked and unlocked, the thread that unlocks it holds it, an initialisation
   that fails half way leaves none behind for the next one to overwrite, and
   it is destroyed only when it is free.                                    *)
MutexDefined == contract

(* The invariant behind the theorems: there is a mutex exactly when the caller
   thinks so and whenever a thread is in a call, it is held by the thread that is
   under it, what a core call has read is still so, and a function's core call
   suits the container.                                                     *)
LockProtects ==
  /\ open <=> mutex = "ready"
  /\ \A t \in Threads : HasLock(t) <=> owner = t
  /\ \A t \in Threads : pc[t] # "out" => open
  /\ \A t \in Threads : (pc[t] = "out" => ~fn[t]) /\ (pc[t] = "fn" => fn[t])
  /\ \A t \in Threads : pc[t] = "store" => seen[t] = box
  /\ \A t \in Threads : pc[t] \in {"read", "store"} /\ fn[t] => call[t] \in CallsOn(box)

StageOf(label, isFn) ==
  CASE label = "out" -> "out"
    [] label = "unlock" -> "done"
    [] label = "lock" /\ isFn -> "waiting"
    [] label \in {"fn", "read", "store"} /\ isFn -> "inside"
    [] OTHER -> "asked"

RunsFn(t) == fn[t] /\ pc[t] \in {"fn", "read", "store"}

Shared == INSTANCE SharedObject
  WITH inside <- IF owner # Nobody /\ RunsFn(owner) THEN owner ELSE Nobody,
       stage <- [t \in Threads |-> StageOf(pc[t], fn[t])],
       call <- [t \in Threads |-> IF fn[t] THEN NoCall ELSE call[t]]

(* "Several core operations compose atomically" (dv_stack_mt.h:54): the wrapper
   is a container that threads call one at a time.  Each call takes effect at
   one instant, on the container that the call before it left, and a function
   given to _with, _read or _write sees no change but its own.              *)
ImplementsShared == Shared!Spec
=============================================================================

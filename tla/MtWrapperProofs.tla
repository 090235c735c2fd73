-------------------------- MODULE MtWrapperProofs --------------------------
(* What MtWrapper says of the wrappers, for any container, any set of threads
   and any number of calls: one thread at a time is inside the core, every use
   of the mutex is defined, and the wrapper implements SharedObject.

   The invariant is LockProtects: exclusion is not inductive without knowing
   that the thread under the lock is the one the mutex names, and neither is
   the effect of a core call without knowing that what it read still holds.  *)
EXTENDS MtWrapper, TLAPS

WrapperInv == WrapperTypeOK /\ LockProtects /\ MutexDefined

(* The container of an uninitialised wrapper is one of the empty ones. *)
LEMMA ZeroedBlank == Zeroed \in Blanks
  BY WrapperAssumption DEF Zeroed

LEMMA InitInv == WrapperInit => WrapperInv
  BY WrapperAssumption
  DEF WrapperInit, WrapperInv, WrapperTypeOK, LockProtects, MutexDefined, HasLock, Labels

(* init and destroy, called while no thread is in a call. *)
LEMMA LifecycleInv == WrapperInv /\ Quiet /\ Lifecycle => WrapperInv'
<1> SUFFICES ASSUME WrapperInv, Quiet, Lifecycle
             PROVE  WrapperInv'
  OBVIOUS
<1> USE WrapperAssumption
    DEF WrapperInv, WrapperTypeOK, LockProtects, MutexDefined, HasLock, Labels, Quiet, Defined, threadVars
<1>1. owner = Nobody
  OBVIOUS
<1>2. CASE ~open /\ InitNoMutex
  BY <1>1, <1>2 DEF InitNoMutex
<1>3. CASE ~open /\ InitNoContainer
  BY <1>1, <1>3 DEF InitNoContainer
<1>4. ASSUME NEW blank \in Blanks, ~open, InitOk(blank)
      PROVE  WrapperInv'
  BY <1>1, <1>4 DEF InitOk
<1>5. CASE open /\ MtDestroy
  BY <1>1, <1>5 DEF MtDestroy
<1> QED
  BY <1>2, <1>3, <1>4, <1>5 DEF Lifecycle

(* The steps of a call, one lemma for each. *)
LEMMA InvokeInv ==
  ASSUME WrapperInv, NEW t \in Threads, NEW c, open, Invoke(t, c)
  PROVE  WrapperInv'
<1> USE WrapperAssumption DEF WrapperInv, WrapperTypeOK, LockProtects, MutexDefined, HasLock, Labels, Invoke, Goto
<1>1. WrapperTypeOK'
  OBVIOUS
<1>2. LockProtects'
  OBVIOUS
<1> QED
  BY <1>1, <1>2

LEMMA InvokeFnInv ==
  ASSUME WrapperInv, NEW t \in Threads, open, InvokeFn(t)
  PROVE  WrapperInv'
<1> USE WrapperAssumption DEF WrapperInv, WrapperTypeOK, LockProtects, MutexDefined, HasLock, Labels, InvokeFn, Goto
<1>1. WrapperTypeOK'
  OBVIOUS
<1>2. LockProtects'
  OBVIOUS
<1> QED
  BY <1>1, <1>2

LEMMA LockInv ==
  ASSUME WrapperInv, NEW t \in Threads, Lock(t)
  PROVE  WrapperInv'
  BY WrapperAssumption
  DEF WrapperInv, WrapperTypeOK, LockProtects, MutexDefined, HasLock, Labels, Lock, UnderLock, Defined, Goto

LEMMA FnReturnsInv ==
  ASSUME WrapperInv, NEW t \in Threads, FnReturns(t)
  PROVE  WrapperInv'
  BY WrapperAssumption
  DEF WrapperInv, WrapperTypeOK, LockProtects, MutexDefined, HasLock, Labels, FnReturns, Goto

LEMMA FnCallsInv ==
  ASSUME WrapperInv, NEW t \in Threads, NEW c \in CallsOn(box), FnCalls(t, c)
  PROVE  WrapperInv'
  BY WrapperAssumption
  DEF WrapperInv, WrapperTypeOK, LockProtects, MutexDefined, HasLock, Labels, FnCalls, Goto

LEMMA CoreReadsInv ==
  ASSUME WrapperInv, NEW t \in Threads, CoreReads(t)
  PROVE  WrapperInv'
  BY WrapperAssumption
  DEF WrapperInv, WrapperTypeOK, LockProtects, MutexDefined, HasLock, Labels, CoreReads, Goto

(* No other thread has read what the store changes. *)
LEMMA CoreStoresInv ==
  ASSUME WrapperInv, NEW t \in Threads, CoreStores(t)
  PROVE  WrapperInv'
  BY WrapperAssumption
  DEF WrapperInv, WrapperTypeOK, LockProtects, MutexDefined, HasLock, Labels, CoreStores, Goto

LEMMA UnlockInv ==
  ASSUME WrapperInv, NEW t \in Threads, Unlock(t)
  PROVE  WrapperInv'
  BY WrapperAssumption
  DEF WrapperInv, WrapperTypeOK, LockProtects, MutexDefined, HasLock, Labels, Unlock, Defined, Goto

LEMMA NextInv == WrapperInv /\ [WrapperNext]_wrapperVars => WrapperInv'
<1> SUFFICES ASSUME WrapperInv, [WrapperNext]_wrapperVars
             PROVE  WrapperInv'
  OBVIOUS
<1>1. CASE UNCHANGED wrapperVars
  BY <1>1 DEF WrapperInv, WrapperTypeOK, LockProtects, MutexDefined, HasLock, Labels, wrapperVars
<1>2. CASE Quiet /\ Lifecycle
  BY <1>2, LifecycleInv
<1>3. ASSUME NEW t \in Threads, Calling(t) \/ Lock(t) \/ Proceeds(t)
      PROVE  WrapperInv'
  BY <1>3, InvokeInv, InvokeFnInv, LockInv, FnReturnsInv, FnCallsInv, CoreReadsInv, CoreStoresInv, UnlockInv
  DEF Calling, Proceeds
<1> QED
  BY <1>1, <1>2, <1>3 DEF WrapperNext

LEMMA InvHolds == WrapperSpec => []WrapperInv
  BY InitInv, NextInv, PTL DEF WrapperSpec

(* Every variable of a wrapper always has its type. *)
THEOREM WrapperTypeCorrect == WrapperSpec => []WrapperTypeOK
  BY InvHolds, PTL DEF WrapperInv

(* However many threads call, and whatever functions they give the wrapper, no
   two are inside the unsynchronized core of dv_*_mt.c together.            *)
THEOREM WrapperExclusive == WrapperSpec => []CoreExclusive
<1>1. WrapperInv => CoreExclusive
  BY DEF WrapperInv, LockProtects, CoreExclusive
<1> QED
  BY <1>1, InvHolds, PTL

(* No path of init, of a call or of destroy uses the mutex in a way POSIX
   leaves undefined.                                                        *)
THEOREM WrapperMutexDefined == WrapperSpec => []MutexDefined
  BY InvHolds, PTL DEF WrapperInv

(***************************************************************************)
(* Refinement of SharedObject.                                             *)
(***************************************************************************)
(* The refinement mapping, by name. *)
Stage == [t \in Threads |-> StageOf(pc[t], fn[t])]

AskedFor == [t \in Threads |-> IF fn[t] THEN NoCall ELSE call[t]]

Inside == IF owner # Nobody /\ RunsFn(owner) THEN owner ELSE Nobody

LEMMA InitMaps == WrapperInit => Shared!Init
<1> SUFFICES ASSUME WrapperInit PROVE Shared!Init
  OBVIOUS
<1>1. box \in Blanks
  BY ZeroedBlank DEF WrapperInit
<1>2. Stage = [t \in Threads |-> "out"]
  BY DEF WrapperInit, Stage, StageOf
<1>3. AskedFor = [t \in Threads |-> NoCall]
  BY DEF WrapperInit, AskedFor
<1>4. Inside = Nobody
  BY DEF WrapperInit, Inside
<1> QED
  BY <1>1, <1>2, <1>3, <1>4 DEF WrapperInit, Shared!Init, Stage, AskedFor, Inside

(* init and destroy make the container anew. *)
LEMMA LifecycleMaps == WrapperInv /\ Quiet /\ Lifecycle => Shared!Renew
<1> SUFFICES ASSUME WrapperInv, Quiet, Lifecycle PROVE Shared!Renew
  OBVIOUS
<1>1. UNCHANGED threadVars
  BY DEF Lifecycle, InitNoMutex, InitNoContainer, InitOk, MtDestroy
<1>2. owner = Nobody /\ owner' = Nobody
  BY WrapperAssumption
  DEF WrapperInv, WrapperTypeOK, LockProtects, HasLock, Quiet, Lifecycle, InitNoMutex, InitNoContainer, InitOk, MtDestroy
<1>3. box' \in Blanks
  BY ZeroedBlank DEF Lifecycle, InitNoMutex, InitNoContainer, InitOk, MtDestroy
<1>4. \A t \in Threads : Stage[t] = "out"
  BY DEF Stage, StageOf, Quiet
<1>5. UNCHANGED <<Stage, AskedFor, Inside>>
  BY <1>1, <1>2 DEF threadVars, Stage, AskedFor, Inside
<1> QED
  BY <1>1, <1>3, <1>4, <1>5 DEF Shared!Renew, threadVars, Stage, AskedFor, Inside

(* Only the owner of the lock can be running a function. *)
LEMMA NobodyInside ==
  ASSUME owner = Nobody
  PROVE  Inside = Nobody
  BY DEF Inside

LEMMA InvokeMaps ==
  ASSUME WrapperInv, NEW t \in Threads, NEW c \in CallsOn(box), Invoke(t, c)
  PROVE  Shared!Ask(t)
<1> USE DEF WrapperInv, WrapperTypeOK, LockProtects, Invoke, Goto
<1>1. Stage[t] = "out" /\ Stage' = [Stage EXCEPT ![t] = "asked"]
  BY DEF Stage, StageOf
<1>2. AskedFor' = [AskedFor EXCEPT ![t] = c]
  BY DEF AskedFor
<1>3. Inside' = Inside
  BY DEF Inside, RunsFn, HasLock
<1> QED
  BY <1>1, <1>2, <1>3 DEF Shared!Ask, Shared!Moves, Stage, AskedFor, Inside

LEMMA InvokeFnMaps ==
  ASSUME WrapperInv, NEW t \in Threads, InvokeFn(t)
  PROVE  Shared!AskFn(t)
<1> USE DEF WrapperInv, WrapperTypeOK, LockProtects, InvokeFn, Goto
<1>1. Stage[t] = "out" /\ Stage' = [Stage EXCEPT ![t] = "waiting"]
  BY DEF Stage, StageOf
<1>2. AskedFor' = [AskedFor EXCEPT ![t] = NoCall]
  BY DEF AskedFor
<1>3. Inside' = Inside
  BY DEF Inside, RunsFn, HasLock
<1> QED
  BY <1>1, <1>2, <1>3 DEF Shared!AskFn, Shared!Moves, Stage, AskedFor, Inside

(* Taking the lock is the beginning of a function, and nothing at all for an
   ordinary call.                                                           *)
LEMMA LockMaps ==
  ASSUME WrapperInv, NEW t \in Threads, Lock(t)
  PROVE  Shared!Enter(t) \/ UNCHANGED Shared!vars
<1> USE DEF WrapperInv, WrapperTypeOK, LockProtects, Lock, UnderLock, Goto
<1>1. AskedFor' = AskedFor
  BY DEF AskedFor
<1>2. Inside = Nobody
  BY NobodyInside
<1>3. CASE fn[t]
  <2>1. Stage[t] = "waiting" /\ Stage' = [Stage EXCEPT ![t] = "inside"]
    BY <1>3 DEF Stage, StageOf
  <2>2. Inside' = t
    BY <1>3, WrapperAssumption DEF Inside, RunsFn
  <2> QED
    BY <1>1, <1>2, <2>1, <2>2 DEF Shared!Enter, Shared!Moves, Stage, AskedFor, Inside
<1>4. CASE ~fn[t]
  <2>1. Stage' = Stage
    BY <1>4 DEF Stage, StageOf
  <2>2. Inside' = Nobody
    BY <1>4 DEF Inside, RunsFn
  <2> QED
    BY <1>1, <1>2, <2>1, <2>2 DEF Shared!vars, Stage, AskedFor, Inside
<1> QED
  BY <1>3, <1>4

(* Neither a function's next core call nor the reading of the container shows. *)
LEMMA QuietMaps ==
  ASSUME WrapperInv, NEW t \in Threads, CoreReads(t) \/ \E c \in CallsOn(box) : FnCalls(t, c)
  PROVE  UNCHANGED Shared!vars
<1> USE DEF WrapperInv, WrapperTypeOK, LockProtects, CoreReads, FnCalls, Goto
<1>1. Stage' = Stage
  BY DEF Stage, StageOf
<1>2. AskedFor' = AskedFor
  BY DEF AskedFor
<1>3. Inside' = Inside
  BY DEF Inside, RunsFn, HasLock
<1> QED
  BY <1>1, <1>2, <1>3 DEF Shared!vars, Stage, AskedFor, Inside

LEMMA FnReturnsMaps ==
  ASSUME WrapperInv, NEW t \in Threads, FnReturns(t)
  PROVE  Shared!Leave(t)
<1> USE DEF WrapperInv, WrapperTypeOK, LockProtects, FnReturns, Goto
<1>1. Stage[t] = "inside" /\ Stage' = [Stage EXCEPT ![t] = "done"]
  BY DEF Stage, StageOf
<1>2. AskedFor' = AskedFor
  BY DEF AskedFor
<1>3. Inside' = Nobody
  BY DEF Inside, RunsFn, HasLock
<1> QED
  BY <1>1, <1>2, <1>3 DEF Shared!Leave, Shared!Moves, Stage, AskedFor, Inside

(* The store is the instant at which a call takes effect: the container is as
   the call read it, because nobody else has had the lock.                  *)
LEMMA CoreStoresMaps ==
  ASSUME WrapperInv, NEW t \in Threads, CoreStores(t)
  PROVE  Shared!Effect(t) \/ Shared!Within(t)
<1> USE DEF WrapperInv, WrapperTypeOK, LockProtects, CoreStores, Goto
<1>1. owner = t /\ owner # Nobody /\ seen[t] = box
  BY WrapperAssumption DEF HasLock
<1>2. Shared!Applies(t, call[t])
  BY <1>1 DEF Shared!Applies
<1>3. AskedFor' = AskedFor
  BY DEF AskedFor
<1>4. CASE fn[t]
  <2>1. Stage[t] = "inside" /\ Stage' = Stage
    BY <1>4 DEF Stage, StageOf
  <2>2. Inside' = Inside
    BY <1>1, <1>4 DEF Inside, RunsFn
  <2>3. call[t] \in CallsOn(box)
    BY <1>4
  <2> QED
    BY <1>2, <1>3, <2>1, <2>2, <2>3 DEF Shared!Within, Stage, AskedFor, Inside
<1>5. CASE ~fn[t]
  <2>1. Stage[t] = "asked" /\ Stage' = [Stage EXCEPT ![t] = "done"]
    BY <1>5 DEF Stage, StageOf
  <2>2. Inside = Nobody /\ Inside' = Nobody
    BY <1>1, <1>5 DEF Inside, RunsFn
  <2>3. AskedFor[t] = call[t]
    BY <1>5 DEF AskedFor
  <2> QED
    BY <1>2, <1>3, <2>1, <2>2, <2>3 DEF Shared!Effect, Shared!Moves, Stage, AskedFor, Inside
<1> QED
  BY <1>4, <1>5

LEMMA UnlockMaps ==
  ASSUME WrapperInv, NEW t \in Threads, Unlock(t)
  PROVE  Shared!Returns(t)
<1> USE DEF WrapperInv, WrapperTypeOK, LockProtects, Unlock, Goto
<1>1. Stage[t] = "done" /\ Stage' = [Stage EXCEPT ![t] = "out"]
  BY DEF Stage, StageOf
<1>2. AskedFor' = [AskedFor EXCEPT ![t] = NoCall]
  BY DEF AskedFor
<1>3. Inside = Nobody /\ Inside' = Nobody
  BY DEF Inside, RunsFn, HasLock
<1> QED
  BY <1>1, <1>2, <1>3 DEF Shared!Returns, Shared!Moves, Stage, AskedFor, Inside

LEMMA NextMaps == WrapperInv /\ [WrapperNext]_wrapperVars => [Shared!Next]_(Shared!vars)
<1> SUFFICES ASSUME WrapperInv, [WrapperNext]_wrapperVars
             PROVE  [Shared!Next]_(Shared!vars)
  OBVIOUS
<1>1. CASE UNCHANGED wrapperVars
  BY <1>1 DEF wrapperVars, Shared!vars, RunsFn, StageOf
<1>2. CASE Quiet /\ Lifecycle
  BY <1>2, LifecycleMaps DEF Shared!Next
<1>3. ASSUME NEW t \in Threads, Calling(t) \/ Lock(t) \/ Proceeds(t)
      PROVE  [Shared!Next]_(Shared!vars)
  BY <1>3, InvokeMaps, InvokeFnMaps, LockMaps, QuietMaps, FnReturnsMaps, CoreStoresMaps, UnlockMaps
  DEF Calling, Proceeds, Shared!Next
<1> QED
  BY <1>1, <1>2, <1>3 DEF WrapperNext

(* The wrappers of dv_stack_mt.c, dv_heap_mt.c and dv_graph_mt.c are containers
   that any number of threads call one operation, or one function, at a time. *)
THEOREM WrapperImplementsShared == WrapperSpec => ImplementsShared
  BY InitMaps, NextMaps, InvHolds, PTL DEF WrapperSpec, ImplementsShared, Shared!Spec
=============================================================================

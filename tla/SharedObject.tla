---------------------------- MODULE SharedObject ----------------------------
(* What the wrappers stack/dv_stack_mt.h, heap/dv_heap_mt.h and
   graph/dv_graph_mt.h promise: a container that several threads call as if
   one at a time.  A call takes effect at one instant between its invocation
   and its return, and a function given to _with, _read or _write has the
   container to itself from its first core call to its last.                *)
CONSTANTS Threads,
          Nobody,
          Blanks,      \* the empty containers
          CallsOn(_),  \* the core calls that a container understands
          Core(_, _),  \* Core(c, b): the [box, reply] that call c on b may end in
          NoCall,
          NoReply

VARIABLES box,     \* the container
          inside,  \* the thread whose function has it, or Nobody
          stage,   \* where each thread is in its call
          call,    \* what it asked for
          reply    \* the answer to its last core call

vars == <<box, inside, stage, call, reply>>

Init ==
  /\ box \in Blanks
  /\ inside = Nobody
  /\ stage = [t \in Threads |-> "out"]
  /\ call = [t \in Threads |-> NoCall]
  /\ reply = [t \in Threads |-> NoReply]

Moves(t, label) == stage' = [stage EXCEPT ![t] = label]

Ask(t) ==
  /\ stage[t] = "out"
  /\ \E c \in CallsOn(box) : call' = [call EXCEPT ![t] = c]
  /\ Moves(t, "asked")
  /\ UNCHANGED <<box, inside, reply>>

AskFn(t) ==
  /\ stage[t] = "out"
  /\ Moves(t, "waiting")
  /\ call' = [call EXCEPT ![t] = NoCall]
  /\ UNCHANGED <<box, inside, reply>>

Applies(t, c) ==
  \E r \in Core(c, box) : box' = r.box /\ reply' = [reply EXCEPT ![t] = r.reply]

(* The call takes effect, while no function runs. *)
Effect(t) ==
  /\ stage[t] = "asked"
  /\ inside = Nobody
  /\ Applies(t, call[t])
  /\ Moves(t, "done")
  /\ UNCHANGED <<inside, call>>

Enter(t) ==
  /\ stage[t] = "waiting"
  /\ inside = Nobody
  /\ inside' = t
  /\ Moves(t, "inside")
  /\ UNCHANGED <<box, call, reply>>

(* One core call of the function that runs. *)
Within(t) ==
  /\ stage[t] = "inside"
  /\ \E c \in CallsOn(box) : Applies(t, c)
  /\ UNCHANGED <<inside, stage, call>>

Leave(t) ==
  /\ stage[t] = "inside"
  /\ inside' = Nobody
  /\ Moves(t, "done")
  /\ UNCHANGED <<box, call, reply>>

Returns(t) ==
  /\ stage[t] = "done"
  /\ Moves(t, "out")
  /\ call' = [call EXCEPT ![t] = NoCall]
  /\ reply' = [reply EXCEPT ![t] = NoReply]
  /\ UNCHANGED <<box, inside>>

(* The container is made anew or destroyed, while nobody uses it. *)
Renew ==
  /\ \A t \in Threads : stage[t] = "out"
  /\ box' \in Blanks
  /\ UNCHANGED <<inside, stage, call, reply>>

Next ==
  \/ Renew
  \/ \E t \in Threads :
       Ask(t) \/ AskFn(t) \/ Effect(t) \/ Enter(t) \/ Within(t) \/ Leave(t) \/ Returns(t)

Spec == Init /\ [][Next]_vars
=============================================================================

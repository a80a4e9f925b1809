---------------------------- MODULE TaskExecutor ----------------------------
(***************************************************************************)
(* What event_loop::post promises: any thread may hand over a task, and    *)
(* the tasks are executed one at a time, each once, in the order in which  *)
(* they were handed over.                                                  *)
(***************************************************************************)
EXTENDS Sequences

CONSTANT Tasks

VARIABLES
  pending,          \* handed over, not started
  executed          \* started, in order

Init == pending = <<>> /\ executed = <<>>

Submit(t) == pending' = Append(pending, t) /\ UNCHANGED executed

Execute ==
  /\ pending # <<>>
  /\ executed' = Append(executed, Head(pending))
  /\ pending' = Tail(pending)

Next == Execute \/ \E t \in Tasks : Submit(t)

Spec == Init /\ [][Next]_<<pending, executed>>
=============================================================================

---------------------------- MODULE BoundedQueue ----------------------------
(***************************************************************************)
(* What job_queue.h promises its callers: a first-in first-out queue of at *)
(* most Capacity jobs whose operations take effect atomically, at one      *)
(* moment between the call and the return.                                 *)
(***************************************************************************)
EXTENDS Integers, Sequences

CONSTANTS Producers, Consumers, Destroyers, Jobs, Capacity, NoJob

VARIABLES
  queue,    \* the jobs pushed and not popped yet, oldest first
  closed,   \* job_queue_destroy has taken effect
  phase,    \* per thread: idle, pending (called), done (took effect)
  op, data, ret   \* per thread: the operation, its data argument, its result

vars == <<queue, closed, phase, op, data, ret>>

Callers == Producers \cup Consumers \cup Destroyers

Init ==
  /\ queue = <<>>
  /\ closed = FALSE
  /\ phase = [t \in Callers |-> "idle"]
  /\ op    = [t \in Callers |-> "none"]
  /\ data  = [t \in Callers |-> NoJob]
  /\ ret   = [t \in Callers |-> 0]

Invoke(t, f, d) ==
  /\ phase[t] = "idle"
  /\ phase' = [phase EXCEPT ![t] = "pending"]
  /\ op'    = [op EXCEPT ![t] = f]
  /\ data'  = [data EXCEPT ![t] = d]
  /\ UNCHANGED <<queue, closed, ret>>

\* The operation of t takes effect with result r.
Effect(t, f, r) ==
  /\ phase[t] = "pending" /\ op[t] = f
  /\ phase' = [phase EXCEPT ![t] = "done"]
  /\ ret'   = [ret EXCEPT ![t] = r]
  /\ UNCHANGED op

\* "Push an element onto the end of the job queue.  Blocks if the job_queue is
\* full."
Push(t) ==
  /\ Effect(t, "push", 0)
  /\ ~closed /\ Len(queue) < Capacity
  /\ queue' = Append(queue, data[t])
  /\ UNCHANGED <<closed, data>>

\* "It is an error to push a job onto a queue that has been destroyed."
RefusePush(t) ==
  /\ Effect(t, "push", -1)
  /\ closed
  /\ UNCHANGED <<queue, closed, data>>

\* "Pop an element from the front of the job queue.  Blocks if the job_queue
\* contains zero elements."
Pop(t) ==
  /\ Effect(t, "pop", 0)
  /\ queue # <<>>
  /\ data'  = [data EXCEPT ![t] = Head(queue)]
  /\ queue' = Tail(queue)
  /\ UNCHANGED closed

\* "If job_queue_destroy() has been called ... this function will return -1."
RefusePop(t) ==
  /\ Effect(t, "pop", -1)
  /\ closed /\ queue = <<>>
  /\ UNCHANGED <<queue, closed, data>>

\* "Blocks until the queue is empty before it is destroyed."
Close(t) ==
  /\ Effect(t, "destroy", 0)
  /\ ~closed /\ queue = <<>>
  /\ closed' = TRUE
  /\ UNCHANGED <<queue, data>>

Return(t) ==
  /\ phase[t] = "done"
  /\ phase' = [phase EXCEPT ![t] = "idle"]
  /\ UNCHANGED <<queue, closed, op, data, ret>>

Next ==
  \/ \E t \in Producers, d \in Jobs : Invoke(t, "push", d)
  \/ \E t \in Consumers : Invoke(t, "pop", NoJob)
  \/ \E t \in Destroyers : Invoke(t, "destroy", NoJob)
  \/ \E t \in Callers : \/ Push(t) \/ RefusePush(t) \/ Pop(t) \/ RefusePop(t)
                        \/ Close(t) \/ Return(t)

Spec == Init /\ [][Next]_vars

=============================================================================

----------------------------- MODULE TaskQueue -----------------------------
(***************************************************************************)
(* What the thread pool (src/common/thread_pool.h) promises the code that  *)
(* pushes tasks: a task is queued by the push, taken from the front of the *)
(* queue by one idle worker, and run to its end.  ThreadPool is shown to   *)
(* implement this specification; LazyJIT is built on it.                   *)
(***************************************************************************)
EXTENDS Sequences

CONSTANTS TaskIds,  \* the tasks
          Workers,  \* the worker threads
          NoTask    \* the task of an idle worker

VARIABLES Tasks,    \* the queue
          cur       \* cur[w]: the task worker w is running

Init ==
  /\ Tasks = << >>
  /\ cur = [w \in Workers |-> NoTask]

Push(task) ==
  /\ Tasks' = Append(Tasks, task)
  /\ UNCHANGED cur

Take(w) ==
  /\ cur[w] = NoTask /\ Tasks # << >>
  /\ cur' = [cur EXCEPT ![w] = Head(Tasks)]
  /\ Tasks' = Tail(Tasks)

Finish(w) ==
  /\ cur[w] # NoTask
  /\ cur' = [cur EXCEPT ![w] = NoTask]
  /\ UNCHANGED Tasks

Next ==
  \/ \E task \in TaskIds : Push(task)
  \/ \E w \in Workers : Take(w) \/ Finish(w)

Spec == Init /\ [][Next]_<<Tasks, cur>>
=============================================================================

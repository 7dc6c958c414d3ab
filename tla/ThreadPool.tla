------------------------------ MODULE ThreadPool ------------------------------
(***************************************************************************)
(* zen::common::ThreadPool (src/common/thread_pool.h): worker threads, one *)
(* mutex, three condition variables and a handful of atomics that are read *)
(* and written with and without the mutex.                                 *)
(*                                                                         *)
(* The owner of the pool is the thread Main; it runs a script of calls.    *)
(* The two scripts of the code base are the eager compiler's (bind every   *)
(* context, push every task, setNoNewTask, waitForTasks, destructor) and   *)
(* the lazy compiler's (bind, push a task that pushes tasks, interrupt).   *)
(*                                                                         *)
(* A condition variable is the set of threads parked on it; a notification *)
(* removes threads from the set, and a removed thread competes for the     *)
(* mutex.  Evaluating a wait's predicate and parking are two steps, both   *)
(* under the mutex, because a notifier need not hold it.  The reads of one *)
(* predicate are one step: under the mutex the flags it reads change only  *)
(* one way, so a torn evaluation has the result of an untorn one.          *)
(*                                                                         *)
(* size_t counters are integers in which -n stands for 2^64 - n, so the    *)
(* unsigned test "> 0" is "# 0".                                           *)
(***************************************************************************)
EXTENDS Integers, Sequences, FiniteSets

CONSTANTS Workers,      \* the worker threads
          Main,         \* the thread that owns the pool
          TaskIds,      \* the tasks that may be pushed, each at most once
          TailWorkers,  \* the workers bound with a tail task
          Spawned,      \* Spawned[t]: the tasks that task t pushes, in order
          Scripts,      \* the call sequences Main may run
          MaxSpurious,  \* bound on the number of spurious wakeups
          NoTask

Op == [op : {"push"}, task : TaskIds]
      \cup [op : {"bind"}, worker : Workers]
      \cup [op : {"noNewTask", "wait", "destroy", "recreate"}]

ASSUME ThreadPoolAssumption ==
  /\ IsFiniteSet(Workers) /\ IsFiniteSet(TaskIds)
  /\ Main \notin Workers
  /\ TailWorkers \subseteq Workers
  /\ NoTask \notin TaskIds
  /\ MaxSpurious \in Nat
  /\ Spawned \in [TaskIds -> Seq(TaskIds)]
  /\ \A s \in Scripts : s \in Seq(Op)

VARIABLES
  Running, Waiting, NoNewTask,  \* the three atomic flags
  Tasks,         \* the queue, under the mutex
  TasksTotal,    \* the atomic count of unfinished tasks
  NumTailTasks,  \* the atomic count of tail tasks not yet run
  bound,         \* the workers whose Contexts entry is set
  holder,        \* the threads holding TasksMutex
  parked,        \* parked[cv]: the threads blocked on a condition variable
  pc,            \* where each thread is
  arg,           \* the task a thread is pushing
  cur,           \* the task a worker is running
  todo,          \* the tasks the running task has still to push
  script,        \* the calls Main has still to make
  spurious,      \* spurious wakeups so far
  pushed, counted, finished, tailed
                 \* history: tasks queued, added to and subtracted from
                 \* TasksTotal; workers that have run their tail task

flags == <<Running, Waiting, NoNewTask>>
queue == <<Tasks, TasksTotal, pushed, counted, finished>>
tails == <<NumTailTasks, bound, tailed>>
sync  == <<holder, parked, spurious>>
local == <<arg, cur, todo>>
vars  == <<flags, queue, tails, sync, local, pc, script>>

Threads == Workers \cup {Main}
CVs == {"TaskAvailable", "TaskDone", "TailTaskDone"}

MainPcs == {"ready", "count", "notify", "waitLock", "donePred", "donePark",
            "doneParked", "tailPred", "tailPark", "tailParked",
            "destroyNotify", "join"}
WorkerPcs == {"loop", "lock", "pred", "park", "parked", "take", "run",
              "count", "notify", "finish", "tail", "tailFinish", "exit"}

TypeOK ==
  /\ Running \in BOOLEAN /\ Waiting \in BOOLEAN /\ NoNewTask \in BOOLEAN
  /\ Tasks \in Seq(TaskIds)
  /\ TasksTotal \in Int /\ NumTailTasks \in Int
  /\ bound \in SUBSET Workers
  /\ holder \in SUBSET Threads /\ \A s, t \in holder : s = t
  /\ parked \in [CVs -> SUBSET Threads]
  /\ pc \in [Threads -> MainPcs \cup WorkerPcs] /\ pc[Main] \in MainPcs
  /\ arg \in [Threads -> TaskIds \cup {NoTask}]
  /\ cur \in [Workers -> TaskIds \cup {NoTask}]
  /\ todo \in [Workers -> Seq(TaskIds)]
  /\ script \in Seq(Op) /\ spurious \in 0..MaxSpurious
  /\ pushed \in SUBSET TaskIds /\ counted \in SUBSET TaskIds
  /\ finished \in SUBSET TaskIds /\ tailed \in SUBSET Workers

Init ==
  /\ Running = TRUE /\ Waiting = FALSE /\ NoNewTask = FALSE
  /\ Tasks = << >> /\ TasksTotal = 0 /\ NumTailTasks = 0
  /\ bound = {} /\ holder = {}
  /\ parked = [cv \in CVs |-> {}]
  /\ pc = [t \in Threads |-> IF t = Main THEN "ready" ELSE "loop"]
  /\ arg = [t \in Threads |-> NoTask]
  /\ cur = [w \in Workers |-> NoTask]
  /\ todo = [w \in Workers |-> << >>]
  /\ script \in Scripts /\ spurious = 0
  /\ pushed = {} /\ counted = {} /\ finished = {} /\ tailed = {}

Goto(t, l) == pc' = [pc EXCEPT ![t] = l]
Locked == holder # {}

(* Main's next call is o, and it returns to "ready" when it is over. *)
Calls(o) ==
  /\ pc[Main] = "ready" /\ script # << >>
  /\ Head(script).op = o
  /\ script' = Tail(script)

(* The waking of one, or of every, thread parked on a condition variable. *)
NotifyOne(cv) ==
  IF parked[cv] = {}
    THEN parked' = parked
    ELSE \E t \in parked[cv] : parked' = [parked EXCEPT ![cv] = @ \ {t}]
NotifyAll(cv) == parked' = [parked EXCEPT ![cv] = {}]

-----------------------------------------------------------------------------
(* pushTask: the push is under the mutex, the count and the notification   *)
(* come after the mutex is released.                                        *)
PushTask(t, task) ==
  /\ ~Locked
  /\ task \notin pushed
  /\ Tasks' = Append(Tasks, task)
  /\ pushed' = pushed \cup {task}
  /\ arg' = [arg EXCEPT ![t] = task]
  /\ Goto(t, "count")
  /\ UNCHANGED <<flags, tails, sync, TasksTotal, cur, counted, finished>>

MainPush ==
  /\ Calls("push")
  /\ PushTask(Main, Head(script).task)
  /\ UNCHANGED todo

WorkerPush(w) ==
  /\ pc[w] = "run" /\ todo[w] # << >>
  /\ PushTask(w, Head(todo[w]))
  /\ todo' = [todo EXCEPT ![w] = Tail(@)]
  /\ UNCHANGED script

(* mutant: the notification is forgotten *)
PushNotifySilent(t) ==
  /\ pc[t] = "notify"
  /\ arg' = [arg EXCEPT ![t] = NoTask]
  /\ Goto(t, IF t = Main THEN "ready" ELSE "run")
  /\ UNCHANGED <<flags, queue, tails, sync, cur, todo, script>>

PushCount(t) ==
  /\ pc[t] = "count"
  /\ TasksTotal' = TasksTotal + 1
  /\ counted' = counted \cup {arg[t]}
  /\ Goto(t, "notify")
  /\ UNCHANGED <<flags, tails, sync, local, Tasks, script, pushed,
                 finished>>

PushNotify(t) ==
  /\ pc[t] = "notify"
  /\ NotifyOne("TaskAvailable")
  /\ arg' = [arg EXCEPT ![t] = NoTask]
  /\ Goto(t, IF t = Main THEN "ready" ELSE "run")
  /\ UNCHANGED <<flags, queue, tails, spurious, holder, cur, todo, script>>

(* setThreadContext: a tail task is counted when it is bound. *)
SetThreadContext ==
  /\ Calls("bind")
  /\ bound' = bound \cup {Head(script).worker}
  /\ NumTailTasks' = NumTailTasks
                     + (IF Head(script).worker \in TailWorkers THEN 1 ELSE 0)
  /\ UNCHANGED <<flags, queue, sync, local, pc, tailed>>

SetNoNewTask ==
  /\ Calls("noNewTask")
  /\ NoNewTask' = TRUE
  /\ UNCHANGED <<queue, tails, sync, local, Running, Waiting, pc>>

-----------------------------------------------------------------------------
(* waitForTasks: Waiting is raised without the mutex, then two waits. *)
WaitStart ==
  /\ Calls("wait")
  /\ IF Running
       THEN Waiting' = TRUE /\ Goto(Main, "waitLock")
       ELSE UNCHANGED <<Waiting, pc>>
  /\ UNCHANGED <<queue, tails, sync, local, Running, NoNewTask>>

(* Main takes the mutex: first on entry, later when a notification or a    *)
(* spurious wakeup has taken it off the condition variable.                *)
WaitLock ==
  /\ ~Locked
  /\ \/ pc[Main] = "waitLock" /\ Goto(Main, "donePred")
     \/ pc[Main] = "doneParked" /\ Main \notin parked["TaskDone"]
        /\ Goto(Main, "donePred")
     \/ pc[Main] = "tailParked" /\ Main \notin parked["TailTaskDone"]
        /\ Goto(Main, "tailPred")
  /\ holder' = holder \cup {Main}
  /\ UNCHANGED <<flags, queue, tails, local, spurious, parked, script>>

(* mutant: the second wait is skipped *)
TailPredSkipped ==
  /\ pc[Main] = "tailPred"
  /\ Waiting' = FALSE /\ holder' = {} /\ Goto(Main, "ready")
  /\ UNCHANGED <<queue, tails, local, Running, spurious, NoNewTask,
                 parked, script>>

DonePred ==
  /\ pc[Main] = "donePred"
  /\ IF TasksTotal = 0
       THEN NotifyAll("TaskAvailable") /\ Goto(Main, "tailPred")
       ELSE parked' = parked /\ Goto(Main, "donePark")
  /\ UNCHANGED <<flags, queue, tails, local, spurious, holder, script>>

TailPred ==
  /\ pc[Main] = "tailPred"
  /\ IF NumTailTasks = 0
       THEN Waiting' = FALSE /\ holder' = {} /\ Goto(Main, "ready")
       ELSE UNCHANGED <<Waiting, holder>> /\ Goto(Main, "tailPark")
  /\ UNCHANGED <<queue, tails, local, Running, spurious, NoNewTask,
                 parked, script>>

WaitPark ==
  /\ \/ /\ pc[Main] = "donePark"
        /\ parked' = [parked EXCEPT !["TaskDone"] = @ \cup {Main}]
        /\ Goto(Main, "doneParked")
     \/ /\ pc[Main] = "tailPark"
        /\ parked' = [parked EXCEPT !["TailTaskDone"] = @ \cup {Main}]
        /\ Goto(Main, "tailParked")
  /\ holder' = {}
  /\ UNCHANGED <<flags, queue, tails, local, spurious, script>>

(* destroyThreads, which is all of interrupt() and the second half of the  *)
(* destructor and of reset(): the flag and the notification are not under  *)
(* the mutex.                                                              *)
DestroyStart ==
  /\ Calls("destroy")
  /\ IF Running
       THEN Running' = FALSE /\ Goto(Main, "destroyNotify")
       ELSE UNCHANGED <<Running, pc>>
  /\ UNCHANGED <<queue, tails, sync, local, Waiting, NoNewTask>>

DestroyNotify ==
  /\ pc[Main] = "destroyNotify"
  /\ NotifyAll("TaskAvailable")
  /\ Goto(Main, "join")
  /\ UNCHANGED <<flags, queue, tails, local, spurious, holder, script>>

DestroyJoin ==
  /\ pc[Main] = "join"
  /\ \A w \in Workers : pc[w] = "exit"
  /\ Goto(Main, "ready")
  /\ UNCHANGED <<flags, queue, tails, sync, local, script>>

(* The last part of reset(): new threads over the old contexts. *)
CreateThreads ==
  /\ Calls("recreate")
  /\ ~Running
  /\ NoNewTask' = FALSE /\ Running' = TRUE
  /\ pc' = [t \in Threads |-> IF t = Main THEN "ready" ELSE "loop"]
  /\ tailed' = {}
  /\ UNCHANGED <<queue, sync, local, NumTailTasks, bound, Waiting>>

-----------------------------------------------------------------------------
(* A worker's loop. *)
Loop(w) ==
  /\ pc[w] = "loop"
  /\ Goto(w, IF Running THEN "lock" ELSE "tail")
  /\ UNCHANGED <<flags, queue, tails, sync, local, script>>

(* mutant: the end of the work is told from Waiting alone *)
AvailablePredWaiting == Tasks # << >> \/ Waiting \/ ~Running

(* The mutex is taken on entry, with the test for the end of the work, or  *)
(* again after a wakeup.                                                   *)
Lock(w) ==
  /\ ~Locked
  /\ \/ /\ pc[w] = "lock" /\ NoNewTask /\ Tasks = << >>
        /\ UNCHANGED holder /\ Goto(w, "tail")
     \/ /\ pc[w] = "lock" /\ ~(NoNewTask /\ Tasks = << >>)
        /\ holder' = holder \cup {w} /\ Goto(w, "pred")
     \/ /\ pc[w] = "parked" /\ w \notin parked["TaskAvailable"]
        /\ holder' = holder \cup {w} /\ Goto(w, "pred")
  /\ UNCHANGED <<flags, queue, tails, local, spurious, parked, script>>

AvailablePred == Tasks # << >> \/ (Waiting /\ TasksTotal = 0) \/ ~Running

Pred(w) ==
  /\ pc[w] = "pred"
  /\ Goto(w, IF AvailablePred THEN "take" ELSE "park")
  /\ UNCHANGED <<flags, queue, tails, sync, local, script>>

Park(w) ==
  /\ pc[w] = "park"
  /\ parked' = [parked EXCEPT !["TaskAvailable"] = @ \cup {w}]
  /\ holder' = {}
  /\ Goto(w, "parked")
  /\ UNCHANGED <<flags, queue, tails, local, spurious, script>>

(* mutants: the task is copied and not popped, and counted off when it is  *)
(* taken                                                                   *)
TakeWithoutPop(w) ==
  /\ pc[w] = "take" /\ Running /\ TasksTotal # 0 /\ Tasks # << >>
  /\ cur' = [cur EXCEPT ![w] = Head(Tasks)]
  /\ todo' = [todo EXCEPT ![w] = Spawned[Head(Tasks)]]
  /\ holder' = {} /\ Goto(w, "run")
  /\ UNCHANGED <<flags, queue, tails, spurious, parked, arg, script>>

TakeCountsDown(w) ==
  /\ pc[w] = "take" /\ Running /\ TasksTotal # 0 /\ Tasks # << >>
  /\ cur' = [cur EXCEPT ![w] = Head(Tasks)]
  /\ todo' = [todo EXCEPT ![w] = Spawned[Head(Tasks)]]
  /\ Tasks' = Tail(Tasks) /\ TasksTotal' = TasksTotal - 1
  /\ holder' = {} /\ Goto(w, "run")
  /\ UNCHANGED <<flags, tails, spurious, parked, arg, script,
                 pushed, counted, finished>>

(* Past the wait, the worker takes a task when Running && TasksTotal > 0.  *)
(* Tasks.front() of an empty queue is undefined: PopsFromNonEmpty states   *)
(* that the step is never reached with one.                                *)
Take(w) ==
  /\ pc[w] = "take" /\ Running /\ TasksTotal # 0 /\ Tasks # << >>
  /\ cur' = [cur EXCEPT ![w] = Head(Tasks)]
  /\ todo' = [todo EXCEPT ![w] = Spawned[Head(Tasks)]]
  /\ Tasks' = Tail(Tasks)
  /\ holder' = {} /\ Goto(w, "run")
  /\ UNCHANGED <<flags, tails, spurious, TasksTotal, parked, arg, script,
                 pushed, counted, finished>>

TakeNothing(w) ==
  /\ pc[w] = "take" /\ ~(Running /\ TasksTotal # 0)
  /\ holder' = {} /\ Goto(w, "loop")
  /\ UNCHANGED <<flags, queue, tails, local, spurious, parked, script>>

(* The task's own work, after which the worker goes for the mutex. *)
Run(w) ==
  /\ pc[w] = "run" /\ todo[w] = << >>
  /\ Goto(w, "finish")
  /\ UNCHANGED <<flags, queue, tails, sync, local, script>>

Finish(w) ==
  /\ pc[w] = "finish" /\ ~Locked
  /\ TasksTotal' = TasksTotal - 1
  /\ finished' = finished \cup {cur[w]}
  /\ cur' = [cur EXCEPT ![w] = NoTask]
  /\ IF Waiting THEN NotifyOne("TaskDone") ELSE UNCHANGED parked
  /\ Goto(w, "loop")
  /\ UNCHANGED <<flags, tails, spurious, Tasks, holder, arg, todo, script,
                 pushed, counted>>

RunTail(w) ==
  /\ pc[w] = "tail"
  /\ IF w \in TailWorkers
       THEN ~Locked /\ tailed' = tailed \cup {w} /\ Goto(w, "tailFinish")
       ELSE UNCHANGED tailed /\ Goto(w, "exit")
  /\ UNCHANGED <<flags, queue, sync, local, NumTailTasks, bound, script>>

TailFinish(w) ==
  /\ pc[w] = "tailFinish" /\ ~Locked
  /\ NumTailTasks' = NumTailTasks - 1
  /\ IF Waiting THEN NotifyOne("TailTaskDone") ELSE UNCHANGED parked
  /\ Goto(w, "exit")
  /\ UNCHANGED <<flags, queue, local, spurious, bound, holder, script,
                 tailed>>

(* A wait may return without a notification. *)
SpuriousWakeup ==
  /\ spurious < MaxSpurious /\ spurious' = spurious + 1
  /\ \E cv \in CVs : \E t \in parked[cv] :
       parked' = [parked EXCEPT ![cv] = @ \ {t}]
  /\ UNCHANGED <<flags, queue, tails, local, holder, pc, script>>

MainStep ==
  \/ MainPush \/ PushCount(Main) \/ PushNotify(Main)
  \/ SetThreadContext \/ SetNoNewTask
  \/ WaitStart \/ WaitLock \/ DonePred \/ TailPred \/ WaitPark
  \/ DestroyStart \/ DestroyNotify \/ DestroyJoin \/ CreateThreads

WorkerStep(w) ==
  \/ Loop(w) \/ Lock(w) \/ Pred(w) \/ Park(w) \/ Take(w) \/ TakeNothing(w)
  \/ Run(w) \/ WorkerPush(w) \/ PushCount(w) \/ PushNotify(w)
  \/ Finish(w) \/ RunTail(w) \/ TailFinish(w)

Next == MainStep \/ (\E w \in Workers : WorkerStep(w)) \/ SpuriousWakeup

Spec == Init /\ [][Next]_vars

(* Every thread that can run keeps running; nothing is asked of spurious   *)
(* wakeups, nor of the mutex beyond not being free for ever while a thread *)
(* asks for it.                                                            *)
FairSpec == Spec /\ WF_vars(MainStep) /\ \A w \in Workers : WF_vars(WorkerStep(w))

-----------------------------------------------------------------------------
Queued == {Tasks[i] : i \in 1..Len(Tasks)}
InHand == {cur[w] : w \in Workers} \ {NoTask}

(* No task is lost, duplicated or handed to two workers: what was pushed   *)
(* is in exactly one of the queue, the hands of one worker and the         *)
(* finished tasks (pushTask, and the pop in the worker loop).              *)
TasksConserved ==
  /\ pushed = Queued \cup InHand \cup finished
  /\ Queued \cap (InHand \cup finished) = {} /\ InHand \cap finished = {}
  /\ \A i, j \in 1..Len(Tasks) : Tasks[i] = Tasks[j] => i = j
  /\ \A v, w \in Workers : cur[v] = cur[w] /\ cur[v] # NoTask => v = w

(* The worker loop never calls front() on an empty queue, although its     *)
(* predicate lets it past with an empty queue and the second test reads    *)
(* counters that change without the mutex.                                 *)
PopsFromNonEmpty ==
  \A w \in Workers :
    pc[w] = "take" /\ Running /\ TasksTotal # 0 => Tasks # << >>

(* The pool is a queue of tasks: whatever the mutex, the condition          *)
(* variables and the counters do, a task is queued once, taken from the     *)
(* front by one idle worker and run to its end (pushTask, createThreads).   *)
Queue == INSTANCE TaskQueue
ImplementsTaskQueue == Queue!Spec

(* When waitForTasks has passed its first wait, every task has finished.   *)
WaitMeansDone ==
  pc[Main] \in {"tailPred", "tailPark", "tailParked"} => pushed = finished

(* waitForTasks returns only when the tail task of every bound worker has  *)
(* run: the eager compiler reads each context's code next.                 *)
WaitMeansEmitted ==
  [][pc[Main] = "tailPred" /\ pc'[Main] = "ready"
       => TailWorkers \cap bound \subseteq tailed]_vars

(* A task pushed to a pool that is not destroyed is eventually finished:   *)
(* no interleaving of the uncounted push, the late notification and the    *)
(* parking workers leaves it in the queue with every worker asleep.        *)
PushedFinishes == \A t \in TaskIds : t \in pushed ~> (t \in finished \/ ~Running)

(* Every call of the script returns: waitForTasks and destroyThreads do    *)
(* not wait for ever.                                                      *)
ScriptReturns == <>(script = << >> /\ pc[Main] = "ready")
=============================================================================

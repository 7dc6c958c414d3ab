--------------------------- MODULE ThreadPoolProofs ---------------------------
(***************************************************************************)
(* What holds of ThreadPool for any number of workers and tasks and any    *)
(* call sequence of the owner: type correctness, the conservation of       *)
(* tasks, and that the pool implements TaskQueue; then what holds of the   *)
(* eager compiler's use, in which no task pushes another.                  *)
(***************************************************************************)
EXTENDS ThreadPool, FiniteSetTheorems, TLAPS

(* What a push adds to, and a pop removes from, the contents of a queue.   *)
LEMMA AppendContents ==
  ASSUME NEW S, NEW s \in Seq(S), NEW e \in S
  PROVE  LET q == Append(s, e) IN
         /\ q \in Seq(S) /\ q # << >> /\ Len(q) = Len(s) + 1
         /\ \A i \in 1..Len(s) : q[i] = s[i]
         /\ q[Len(s) + 1] = e
  OBVIOUS

(* What popping the queue's head leaves. *)
LEMMA TailContents ==
  ASSUME NEW S, NEW s \in Seq(S), s # << >>
  PROVE  /\ Tail(s) \in Seq(S) /\ Head(s) \in S /\ Head(s) = s[1]
         /\ Len(Tail(s)) = Len(s) - 1 /\ Len(s) \in Nat \ {0}
         /\ \A i \in 1..Len(Tail(s)) : Tail(s)[i] = s[i + 1]
  OBVIOUS

(* The rest of a sequence without repetitions has none.                    *)
LEMMA TailDistinct ==
  ASSUME NEW S, NEW s \in Seq(S), s # << >>,
         \A i, j \in 1..Len(s) : s[i] = s[j] => i = j
  PROVE  \A i, j \in 1..Len(Tail(s)) : Tail(s)[i] = Tail(s)[j] => i = j
<1>1. \A i \in 1..Len(Tail(s)) : Tail(s)[i] = s[i + 1] /\ i + 1 \in 1..Len(s)
  BY TailContents
<1> QED BY <1>1

(* A notification keeps the condition variables' waiters threads.          *)
LEMMA NotifyType ==
  ASSUME parked \in [CVs -> SUBSET Threads], NEW cv \in CVs, NotifyOne(cv)
  PROVE  parked' \in [CVs -> SUBSET Threads]
  BY DEF NotifyOne

(* Main's calls leave a call sequence, and name a task or a worker.        *)
LEMMA ScriptStep ==
  ASSUME script \in Seq(Op), script # << >>
  PROVE  /\ Tail(script) \in Seq(Op)
         /\ Head(script).op = "push" => Head(script).task \in TaskIds
         /\ Head(script).op = "bind" => Head(script).worker \in Workers
<1>1. Head(script) \in Op /\ Tail(script) \in Seq(Op)
  OBVIOUS
<1> QED BY <1>1 DEF Op

PcType == pc \in [Threads -> MainPcs \cup WorkerPcs] /\ pc[Main] \in MainPcs

(* A jump keeps each thread in its own code. *)
LEMMA GotoType ==
  ASSUME PcType
  PROVE  /\ \A l \in MainPcs : Goto(Main, l) => PcType'
         /\ \A w \in Workers, l \in WorkerPcs : Goto(w, l) => PcType'
         /\ \A l \in {"ready", "count", "notify", "waitLock", "donePred",
                      "donePark", "doneParked", "tailPred", "tailPark",
                      "tailParked", "destroyNotify", "join"} : l \in MainPcs
         /\ \A l \in {"loop", "lock", "pred", "park", "parked", "take", "run",
                      "count", "notify", "finish", "tail", "tailFinish",
                      "exit"} : l \in WorkerPcs
<1>1. \A l \in MainPcs : Goto(Main, l) => PcType'
  BY DEF Goto, PcType, Threads
<1>2. \A w \in Workers, l \in WorkerPcs : Goto(w, l) => PcType'
  BY ThreadPoolAssumption DEF Goto, PcType, Threads
<1> QED BY <1>1, <1>2 DEF MainPcs, WorkerPcs

-----------------------------------------------------------------------------
RunPcs == {"run", "count", "notify", "finish"}

(* A thread between the push and the count has a pushed, uncounted task in *)
(* hand, no two the same, and a worker has a task exactly while it runs it.*)
InHandOK ==
  /\ \A t \in Threads : pc[t] = "count" => arg[t] \in pushed \ counted
  /\ \A s, t \in Threads :
       pc[s] = "count" /\ pc[t] = "count" /\ arg[s] = arg[t] => s = t
  /\ counted \subseteq pushed
  /\ \A w \in Workers : pc[w] \in RunPcs <=> cur[w] # NoTask

(* A pool that is not running has no thread once destroyThreads is over. *)
Joined ==
  ~Running /\ pc[Main] \notin {"destroyNotify", "join"}
    => \A w \in Workers : pc[w] = "exit"

(* The types hold initially. *)
LEMMA TypeInit == Init => TypeOK
<1> SUFFICES ASSUME Init PROVE TypeOK
  OBVIOUS
<1> USE ThreadPoolAssumption DEF Init
<1>1. script \in Seq(Op) /\ spurious \in 0..MaxSpurious
  OBVIOUS
<1>2. parked \in [CVs -> SUBSET Threads] /\ Tasks \in Seq(TaskIds)
  OBVIOUS
<1>3. pc \in [Threads -> MainPcs \cup WorkerPcs] /\ pc[Main] \in MainPcs
  BY DEF Threads, MainPcs, WorkerPcs
<1>4. /\ arg \in [Threads -> TaskIds \cup {NoTask}]
      /\ cur \in [Workers -> TaskIds \cup {NoTask}]
      /\ todo \in [Workers -> Seq(TaskIds)]
  OBVIOUS
<1>5. holder \in SUBSET Threads /\ \A s, t \in holder : s = t
  OBVIOUS
<1>6. Running \in BOOLEAN /\ Waiting \in BOOLEAN /\ NoNewTask \in BOOLEAN
  BY Zenon
<1>7. /\ TasksTotal \in Int /\ NumTailTasks \in Int /\ bound \in SUBSET Workers
      /\ pushed \in SUBSET TaskIds /\ counted \in SUBSET TaskIds
      /\ finished \in SUBSET TaskIds /\ tailed \in SUBSET Workers
  OBVIOUS
<1> HIDE DEF Init
<1> QED BY <1>1, <1>2, <1>3, <1>4, <1>5, <1>6, <1>7 DEF TypeOK

(* Every step keeps the types. *)
LEMMA TypeStep == TypeOK /\ InHandOK /\ [Next]_vars => TypeOK'
<1> SUFFICES ASSUME TypeOK, InHandOK, [Next]_vars PROVE TypeOK'
  OBVIOUS
<1> USE ThreadPoolAssumption DEF TypeOK, Threads
<1>0. Main \in Threads /\ Workers \subseteq Threads /\ PcType
  BY DEF PcType
<1>1. CASE MainPush
  <2>1. Head(script).task \in TaskIds /\ script' \in Seq(Op)
    BY <1>1, ScriptStep DEF MainPush, Calls
  <2>2. Tasks' \in Seq(TaskIds) /\ pushed' \in SUBSET TaskIds
        /\ arg' \in [Threads -> TaskIds \cup {NoTask}]
    BY <1>1, <2>1, AppendContents DEF MainPush, PushTask
  <2> QED BY Zenon, <1>0, <1>1, <2>1, <2>2, GotoType DEF PcType, MainPush, PushTask, flags, tails, sync
<1>2. ASSUME NEW t \in Threads, PushCount(t) PROVE TypeOK'
  <2>1. counted' \in SUBSET TaskIds /\ TasksTotal' \in Int
    BY <1>2 DEF PushCount, InHandOK
  <2>2. PcType'
    BY <1>0, <1>2, GotoType DEF PushCount
  <2> QED BY Zenon, <1>2, <2>1, <2>2 DEF PcType, PushCount, flags, tails, sync, local
<1>3. ASSUME NEW t \in Threads, PushNotify(t) PROVE TypeOK'
  <2>1. parked' \in [CVs -> SUBSET Threads] /\ arg' \in [Threads -> TaskIds \cup {NoTask}]
    BY <1>3, NotifyType DEF PushNotify, CVs
  <2>2. PcType'
    BY <1>0, <1>3, GotoType DEF PushNotify
  <2> QED BY Zenon, <1>3, <2>1, <2>2 DEF PcType, PushNotify, flags, queue, tails
<1>4. CASE SetThreadContext
  BY <1>0, <1>4, GotoType, ScriptStep DEF PcType, SetThreadContext, Calls, flags, queue, sync, local
<1>5. CASE SetNoNewTask
  BY <1>0, <1>5, GotoType, ScriptStep DEF PcType, SetNoNewTask, Calls, queue, tails, sync, local
<1>6. CASE WaitStart
  BY Zenon, <1>0, <1>6, GotoType, ScriptStep DEF PcType, WaitStart, Calls, queue, tails, sync, local
<1>7. CASE WaitLock
  BY <1>0, <1>7, GotoType DEF PcType, WaitLock, Locked, flags, queue, tails, local
<1>8. CASE DonePred
  BY Zenon, <1>0, <1>8, GotoType DEF PcType, DonePred, NotifyAll, CVs, flags, queue, tails, local
<1>9. CASE TailPred
  BY Zenon, <1>0, <1>9, GotoType DEF PcType, TailPred, queue, tails, local
<1>10. CASE WaitPark
  <2>1. parked' \in [CVs -> SUBSET Threads]
    BY <1>10 DEF WaitPark, CVs
  <2> QED BY Zenon, <1>0, <1>10, <2>1, GotoType DEF PcType, WaitPark, flags, queue, tails, local
<1>11. CASE DestroyStart
  BY Zenon, <1>0, <1>11, GotoType, ScriptStep DEF PcType, DestroyStart, Calls, queue, tails, sync, local
<1>12. CASE DestroyNotify
  BY <1>0, <1>12, GotoType DEF PcType, DestroyNotify, NotifyAll, CVs, flags, queue, tails, local
<1>13. CASE DestroyJoin
  BY <1>0, <1>13, GotoType DEF PcType, DestroyJoin, flags, queue, tails, sync, local
<1>14. CASE CreateThreads
  BY Zenon, <1>0, <1>14, GotoType, ScriptStep DEF PcType, CreateThreads, Calls, MainPcs, WorkerPcs, queue, sync, local
<1>15. ASSUME NEW w \in Workers, Loop(w) PROVE TypeOK'
  BY Zenon, <1>0, <1>15, GotoType DEF PcType, Loop, flags, queue, tails, sync, local
<1>16. ASSUME NEW w \in Workers, Lock(w) PROVE TypeOK'
  BY Zenon, <1>0, <1>16, GotoType DEF PcType, Lock, Locked, flags, queue, tails, local
<1>17. ASSUME NEW w \in Workers, Pred(w) PROVE TypeOK'
  BY Zenon, <1>0, <1>17, GotoType DEF PcType, Pred, flags, queue, tails, sync, local
<1>18. ASSUME NEW w \in Workers, Park(w) PROVE TypeOK'
  BY Zenon, <1>0, <1>18, GotoType DEF PcType, Park, CVs, flags, queue, tails, local
<1>19. ASSUME NEW w \in Workers, Take(w) PROVE TypeOK'
  <2>1. Head(Tasks) \in TaskIds /\ Tail(Tasks) \in Seq(TaskIds)
    BY <1>19, TailContents DEF Take
  <2>2. todo' \in [Workers -> Seq(TaskIds)] /\ cur' \in [Workers -> TaskIds \cup {NoTask}]
    BY <1>19, <2>1 DEF Take
  <2> QED BY Zenon, <1>0, <1>19, <2>1, <2>2, GotoType DEF PcType, Take, flags, tails
<1>20. ASSUME NEW w \in Workers, Run(w) PROVE TypeOK'
  BY Zenon, <1>0, <1>20, GotoType DEF PcType, Run, flags, queue, tails, sync, local
<1>21. ASSUME NEW w \in Workers, WorkerPush(w) PROVE TypeOK'
  <2>1. Head(todo[w]) \in TaskIds /\ Tail(todo[w]) \in Seq(TaskIds)
    BY <1>21, TailContents DEF WorkerPush
  <2>2. Tasks' \in Seq(TaskIds) /\ todo' \in [Workers -> Seq(TaskIds)]
        /\ arg' \in [Threads -> TaskIds \cup {NoTask}] /\ pushed' \in SUBSET TaskIds
    BY <1>21, <2>1, AppendContents DEF WorkerPush, PushTask
  <2> QED BY Zenon, <1>0, <1>21, <2>2, GotoType DEF PcType, WorkerPush, PushTask, flags, tails, sync
<1>22. ASSUME NEW w \in Workers, Finish(w) PROVE TypeOK'
  <2>1. parked' \in [CVs -> SUBSET Threads] /\ TasksTotal' \in Int
    BY <1>22, NotifyType DEF Finish, CVs
  <2>2. cur' \in [Workers -> TaskIds \cup {NoTask}] /\ finished' \in SUBSET TaskIds
    BY <1>22 DEF Finish, InHandOK, RunPcs
  <2> QED BY Zenon, <1>0, <1>22, <2>1, <2>2, GotoType DEF PcType, Finish, flags, tails
<1>23. ASSUME NEW w \in Workers, RunTail(w) PROVE TypeOK'
  BY Zenon, <1>0, <1>23, GotoType DEF PcType, RunTail, flags, queue, sync, local
<1>24. ASSUME NEW w \in Workers, TailFinish(w) PROVE TypeOK'
  <2>1. parked' \in [CVs -> SUBSET Threads]
    BY <1>24, NotifyType DEF TailFinish, CVs
  <2>2. NumTailTasks' \in Int
    BY <1>24 DEF TailFinish
  <2> QED BY Zenon, <1>0, <1>24, <2>1, <2>2, GotoType DEF PcType, TailFinish, flags, queue, local
<1>25. CASE SpuriousWakeup
  BY <1>0, <1>25, GotoType DEF PcType, SpuriousWakeup, CVs, flags, queue, tails, local
<1>27. ASSUME NEW w \in Workers, TakeNothing(w) PROVE TypeOK'
  BY Zenon, <1>0, <1>27, GotoType DEF PcType, TakeNothing, flags, queue, tails, local
<1>26. CASE UNCHANGED vars
  BY <1>26 DEF vars, flags, queue, tails, sync, local
<1> QED BY Zenon, <1>0, <1>1, <1>2, <1>3, <1>4, <1>5, <1>6, <1>7, <1>8, <1>9, <1>10, <1>11, <1>12, <1>13, <1>14, <1>15, <1>16, <1>17, <1>18, <1>19, <1>20, <1>21, <1>22, <1>23, <1>24, <1>25, <1>26, <1>27 DEF Next, MainStep, WorkerStep

-----------------------------------------------------------------------------
(* Initially nothing is in hand, and the pool is running. *)
LEMMA InHandInit == Init => InHandOK /\ Joined
  BY ThreadPoolAssumption DEF Init, InHandOK, Joined, RunPcs, Threads

(* The steps that neither push, count, take nor finish a task move no task *)
(* from hand to hand.                                                      *)
LEMMA InHandQuiet ==
  ASSUME TypeOK, InHandOK, UNCHANGED <<pushed, counted, arg, cur>>,
         PcType', \A t \in Threads : pc'[t] = "count" <=> pc[t] = "count",
         \A w \in Workers : pc'[w] \in RunPcs <=> pc[w] \in RunPcs
  PROVE  InHandOK'
  BY DEF InHandOK, TypeOK

(* Pushing a task keeps the tasks in hand apart: the task is a new one. *)
LEMMA InHandPush ==
  ASSUME TypeOK, TypeOK', InHandOK, NEW t \in Threads, NEW task \in TaskIds,
         PushTask(t, task), (pc[t] = "ready" /\ t = Main) \/ pc[t] = "run"
  PROVE  InHandOK'
<1> USE ThreadPoolAssumption DEF TypeOK, InHandOK, PushTask, Goto, Threads
<1>1. \A s \in Threads : pc'[s] = "count" <=> s = t \/ pc[s] = "count"
  OBVIOUS
<1>2. /\ arg'[t] = task /\ task \in pushed' \ counted'
      /\ \A s \in Threads \ {t} : arg'[s] = arg[s]
  OBVIOUS
<1>3. \A s \in Threads : pc'[s] = "count" => arg'[s] \in pushed' \ counted'
  BY <1>1, <1>2
<1>4. \A s, u \in Threads :
        pc'[s] = "count" /\ pc'[u] = "count" /\ arg'[s] = arg'[u] => s = u
  BY <1>1, <1>2
<1>5. \A w \in Workers : pc'[w] \in RunPcs <=> cur'[w] # NoTask
  BY DEF RunPcs
<1> QED BY <1>3, <1>4, <1>5

(* Every step keeps a pushed, uncounted task with each thread about to
   count it, and a task with exactly the workers that run one. *)
LEMMA InHandStep ==
  TypeOK /\ TypeOK' /\ InHandOK /\ Joined /\ [Next]_vars => InHandOK'
<1> SUFFICES ASSUME TypeOK, TypeOK', InHandOK, Joined, [Next]_vars
             PROVE  InHandOK'
  OBVIOUS
<1> USE ThreadPoolAssumption DEF Threads
<1>0. PcType' /\ pc \in [Threads -> MainPcs \cup WorkerPcs] /\ pc[Main] \in MainPcs
  BY DEF TypeOK, PcType
<1>1. CASE MainPush
  BY <1>1, InHandPush, ScriptStep DEF MainPush, Calls, TypeOK
<1>2. ASSUME NEW w \in Workers, WorkerPush(w) PROVE InHandOK'
  <2>1. Head(todo[w]) \in TaskIds
    BY <1>2, TailContents DEF WorkerPush, TypeOK
  <2> QED BY <1>2, <2>1, InHandPush DEF WorkerPush
<1>3. ASSUME NEW t \in Threads, PushCount(t) PROVE InHandOK'
  <2> USE <1>3 DEF PushCount, TypeOK, InHandOK, Goto, local
  <2>1. \A s \in Threads : pc'[s] = "count" <=> s # t /\ pc[s] = "count"
    OBVIOUS
  <2>2. \A s \in Threads : pc'[s] = "count" => arg'[s] \in pushed' \ counted'
    BY <2>1
  <2>3. \A w \in Workers : pc'[w] \in RunPcs <=> cur'[w] # NoTask
    BY DEF RunPcs
  <2> QED BY <2>1, <2>2, <2>3
<1>4. ASSUME NEW t \in Threads, PushNotify(t) PROVE InHandOK'
  <2> USE <1>4 DEF PushNotify, TypeOK, InHandOK, Goto, queue
  <2>1. \A s \in Threads : /\ pc'[s] = "count" <=> pc[s] = "count"
                           /\ pc[s] = "count" => arg'[s] = arg[s]
    OBVIOUS
  <2>2. \A w \in Workers : pc'[w] \in RunPcs <=> cur'[w] # NoTask
    BY DEF RunPcs
  <2> QED BY <2>1, <2>2
<1>5. ASSUME NEW w \in Workers, Take(w) PROVE InHandOK'
  <2>1. /\ \A s \in Threads : pc'[s] = "count" <=> pc[s] = "count"
        /\ pc'[w] = "run" /\ cur'[w] = Head(Tasks) /\ Head(Tasks) \in TaskIds
        /\ \A v \in Workers \ {w} : pc'[v] = pc[v] /\ cur'[v] = cur[v]
    BY <1>5, TailContents DEF Take, TypeOK, Goto
  <2>2. \A v \in Workers : pc'[v] \in RunPcs <=> cur'[v] # NoTask
    BY <2>1 DEF RunPcs, InHandOK
  <2> QED BY <1>5, <2>1, <2>2 DEF Take, InHandOK
<1>6. ASSUME NEW w \in Workers, Finish(w) PROVE InHandOK'
  <2> USE <1>6 DEF Finish, TypeOK, InHandOK, Goto
  <2>1. \A s \in Threads : pc'[s] = "count" <=> pc[s] = "count"
    OBVIOUS
  <2>2. \A v \in Workers : pc'[v] \in RunPcs <=> cur'[v] # NoTask
    BY DEF RunPcs
  <2> QED BY <2>1, <2>2
<1>7. CASE CreateThreads
  <2>1. /\ \A w \in Workers : pc[w] = "exit" /\ pc'[w] = "loop"
        /\ pc[Main] = "ready" /\ pc'[Main] = "ready"
    BY <1>7 DEF CreateThreads, Calls, Joined
  <2> QED BY <1>0, <1>7, <2>1, InHandQuiet DEF CreateThreads, RunPcs, queue, local
<1>8. CASE SpuriousWakeup \/ UNCHANGED vars
  <2>1. UNCHANGED <<pc, pushed, counted, arg, cur>>
    BY <1>8 DEF SpuriousWakeup, vars, queue, local
  <2> QED BY <1>0, <2>1, InHandQuiet
<1>9. CASE SetThreadContext
  BY <1>0, <1>9, InHandQuiet DEF SetThreadContext, RunPcs, queue, local
<1>10. CASE SetNoNewTask
  BY <1>0, <1>10, InHandQuiet DEF SetNoNewTask, RunPcs, queue, local
<1>11. CASE WaitStart
  BY <1>0, <1>11, InHandQuiet DEF WaitStart, RunPcs, queue, local, Calls, Goto
<1>12. CASE WaitLock
  BY <1>0, <1>12, InHandQuiet DEF WaitLock, RunPcs, queue, local, Goto
<1>13. CASE DonePred
  BY <1>0, <1>13, InHandQuiet DEF DonePred, RunPcs, queue, local, Goto
<1>14. CASE TailPred
  BY <1>0, <1>14, InHandQuiet DEF TailPred, RunPcs, queue, local, Goto
<1>15. CASE WaitPark
  BY <1>0, <1>15, InHandQuiet DEF WaitPark, RunPcs, queue, local, Goto
<1>16. CASE DestroyStart
  BY <1>0, <1>16, InHandQuiet DEF DestroyStart, RunPcs, queue, local, Calls, Goto
<1>17. CASE DestroyNotify
  BY <1>0, <1>17, InHandQuiet DEF DestroyNotify, RunPcs, queue, local, Goto
<1>18. CASE DestroyJoin
  BY <1>0, <1>18, InHandQuiet DEF DestroyJoin, RunPcs, queue, local, Goto
<1>19. ASSUME NEW w \in Workers, Loop(w) PROVE InHandOK'
  BY <1>0, <1>19, InHandQuiet DEF Loop, RunPcs, queue, local, Goto
<1>20. ASSUME NEW w \in Workers, Lock(w) PROVE InHandOK'
  BY <1>0, <1>20, InHandQuiet DEF Lock, RunPcs, queue, local, Goto
<1>21. ASSUME NEW w \in Workers, Pred(w) PROVE InHandOK'
  BY <1>0, <1>21, InHandQuiet DEF Pred, RunPcs, queue, local, Goto
<1>22. ASSUME NEW w \in Workers, Park(w) PROVE InHandOK'
  BY <1>0, <1>22, InHandQuiet DEF Park, RunPcs, queue, local, Goto
<1>23. ASSUME NEW w \in Workers, Run(w) PROVE InHandOK'
  BY <1>0, <1>23, InHandQuiet DEF Run, RunPcs, queue, local, Goto
<1>24. ASSUME NEW w \in Workers, RunTail(w) PROVE InHandOK'
  BY <1>0, <1>24, InHandQuiet DEF RunTail, RunPcs, queue, local, Goto
<1>25. ASSUME NEW w \in Workers, TailFinish(w) PROVE InHandOK'
  BY <1>0, <1>25, InHandQuiet DEF TailFinish, RunPcs, queue, local, Goto
<1>26. ASSUME NEW w \in Workers, TakeNothing(w) PROVE InHandOK'
  BY <1>0, <1>26, InHandQuiet DEF TakeNothing, RunPcs, queue, local, Goto
<1> QED
  BY <1>1, <1>2, <1>3, <1>4, <1>5, <1>6, <1>7, <1>8, <1>9, <1>10, <1>11,
     <1>12, <1>13, <1>14, <1>15, <1>16, <1>17, <1>18, <1>19, <1>20, <1>21,
     <1>22, <1>23, <1>24, <1>25, <1>26
     DEF Next, MainStep, WorkerStep

(* Every step keeps that a pool not running, past destroyThreads, has no
   thread left. *)
LEMMA JoinedStep == TypeOK /\ Joined /\ [Next]_vars => Joined'
<1> SUFFICES ASSUME TypeOK, Joined, [Next]_vars PROVE Joined'
  OBVIOUS
<1> USE ThreadPoolAssumption DEF Threads, Joined
<1>0. pc \in [Threads -> MainPcs \cup WorkerPcs]
  BY DEF TypeOK
<1>1. CASE DestroyStart
  BY <1>0, <1>1 DEF DestroyStart, Goto
<1>2. ASSUME MainStep, ~DestroyStart, ~CreateThreads
      PROVE  /\ Running' = Running /\ \A w \in Workers : pc'[w] = pc[w]
             /\ \/ pc[Main] \notin {"destroyNotify", "join"} \/ pc'[Main] = "join"
                \/ \A w \in Workers : pc[w] = "exit"
  <2>1. CASE MainPush \/ PushCount(Main) \/ PushNotify(Main)
    BY <1>0, <2>1 DEF MainPush, PushTask, PushCount, PushNotify, Calls, Goto, flags
  <2>2. CASE SetThreadContext \/ SetNoNewTask \/ WaitStart
    BY <1>0, <2>2, Zenon DEF SetThreadContext, SetNoNewTask, WaitStart, Calls, Goto, flags
  <2>3. CASE WaitLock \/ DonePred \/ TailPred \/ WaitPark
    BY <1>0, <2>3 DEF WaitLock, DonePred, TailPred, WaitPark, Goto, flags
  <2>4. CASE DestroyNotify \/ DestroyJoin
    BY <1>0, <2>4 DEF DestroyNotify, DestroyJoin, Goto, flags
  <2> QED BY <1>2, <2>1, <2>2, <2>3, <2>4 DEF MainStep
<1>3. CASE CreateThreads
  BY <1>3 DEF CreateThreads
<1>4. ASSUME NEW w \in Workers, WorkerStep(w) PROVE Joined'
  <2>1. pc[w] # "exit" /\ Running' = Running /\ pc'[Main] = pc[Main]
    BY <1>0, <1>4, Zenon DEF WorkerStep, Loop, Lock, Pred, Park, Take, TakeNothing, Run, WorkerPush,
       PushTask, PushCount, PushNotify, Finish, RunTail, TailFinish, Goto, flags
  <2> QED BY <2>1
<1>5. CASE SpuriousWakeup \/ UNCHANGED vars
  BY <1>5 DEF SpuriousWakeup, vars, flags
<1> QED BY <1>1, <1>2, <1>3, <1>4, <1>5 DEF Next

(* Type correctness: no step of any thread leaves the state space; in      *)
(* particular TasksMutex never has two holders.                            *)
THEOREM TypeCorrect == Spec => []TypeOK
<1>1. Init => TypeOK /\ InHandOK /\ Joined
  BY TypeInit, InHandInit
<1>2. TypeOK /\ InHandOK /\ Joined /\ [Next]_vars => (TypeOK /\ InHandOK /\ Joined)'
  BY TypeStep, InHandStep, JoinedStep
<1> QED BY <1>1, <1>2, PTL DEF Spec

-----------------------------------------------------------------------------
(* No task exists initially. *)
LEMMA ConservedInit == Init => TasksConserved
  BY DEF Init, TasksConserved, Queued, InHand

(* A push adds its task to the queue once. *)
LEMMA ConservedPush ==
  ASSUME TypeOK, TasksConserved, NEW t \in Threads, NEW task \in TaskIds,
         PushTask(t, task)
  PROVE  TasksConserved'
<1> USE DEF PushTask, TypeOK
<1>1. /\ Len(Tasks') = Len(Tasks) + 1 /\ Len(Tasks) \in Nat
      /\ \A i \in 1..Len(Tasks) : Tasks'[i] = Tasks[i]
      /\ Tasks'[Len(Tasks) + 1] = task
  BY AppendContents
<1>2. Queued' = Queued \cup {task} /\ InHand' = InHand
  BY <1>1 DEF Queued, InHand
<1>3. task \notin Queued \cup InHand \cup finished
  BY DEF TasksConserved
<1>4. \A i, j \in 1..Len(Tasks') : Tasks'[i] = Tasks'[j] => i = j
  <2>1. \A i \in 1..Len(Tasks) : Tasks[i] # task
    BY <1>3 DEF Queued
  <2> QED BY <1>1, <2>1 DEF TasksConserved
<1> QED BY <1>2, <1>3, <1>4 DEF TasksConserved

(* Every step keeps each pushed task in exactly one place. *)
LEMMA ConservedStep ==
  TypeOK /\ InHandOK /\ TasksConserved /\ [Next]_vars => TasksConserved'
<1> SUFFICES ASSUME TypeOK, InHandOK, TasksConserved, [Next]_vars
             PROVE  TasksConserved'
  OBVIOUS
<1> USE ThreadPoolAssumption DEF Threads
<1>1. CASE MainPush
  BY <1>1, ConservedPush, ScriptStep DEF MainPush, Calls, TypeOK
<1>2. ASSUME NEW w \in Workers, WorkerPush(w) PROVE TasksConserved'
  <2>1. Head(todo[w]) \in TaskIds
    BY <1>2, TailContents DEF WorkerPush, TypeOK
  <2> QED BY <1>2, <2>1, ConservedPush DEF WorkerPush
<1>3. ASSUME UNCHANGED <<Tasks, pushed, finished, cur>> PROVE TasksConserved'
  <2>1. Queued' = Queued /\ InHand' = InHand
    BY <1>3 DEF Queued, InHand
  <2> QED BY <1>3, <2>1, Zenon DEF TasksConserved
<1>4. ASSUME NEW w \in Workers, Take(w) PROVE TasksConserved'
  <2> DEFINE h == Head(Tasks)
  <2>1. /\ Tasks' = Tail(Tasks) /\ h \in TaskIds /\ h = Tasks[1]
        /\ Len(Tasks') = Len(Tasks) - 1 /\ Len(Tasks) \in Nat \ {0}
        /\ \A i \in 1..Len(Tasks') : Tasks'[i] = Tasks[i + 1]
    BY <1>4, TailContents DEF Take, TypeOK
  <2>2. /\ cur[w] = NoTask /\ cur'[w] = h
        /\ \A v \in Workers \ {w} : cur'[v] = cur[v]
        /\ UNCHANGED <<pushed, finished>>
    BY Zenon, <1>4 DEF Take, InHandOK, RunPcs, TypeOK
  <2> HIDE DEF h
  <2>3. \A i, j \in 1..Len(Tasks') : Tasks'[i] = Tasks'[j] => i = j
    BY <1>4, TailDistinct DEF Take, TypeOK, TasksConserved
  <2>4. Queued = Queued' \cup {h} /\ h \notin Queued'
    <3>1. \A i \in 1..Len(Tasks') : Tasks'[i] # h /\ i + 1 \in 1..Len(Tasks)
      <4>1. ASSUME NEW i \in 1..Len(Tasks')
            PROVE  i + 1 \in 1..Len(Tasks) /\ 1 \in 1..Len(Tasks) /\ i + 1 # 1
        BY <2>1
      <4>2. \A i, j \in 1..Len(Tasks) : Tasks[i] = Tasks[j] => i = j
        BY Zenon DEF TasksConserved
      <4> QED BY Zenon, <2>1, <4>1, <4>2
    <3>2. \A j \in 1..Len(Tasks) : j = 1 \/ (j - 1 \in 1..Len(Tasks') /\ Tasks'[j - 1] = Tasks[j])
      BY <2>1
    <3>3. 1 \in 1..Len(Tasks) /\ Tasks[1] = h
      BY <2>1
    <3>4. Queued' \subseteq Queued /\ h \notin Queued' /\ h \in Queued
      BY <2>1, <3>1, <3>3 DEF Queued
    <3>5. Queued \subseteq Queued' \cup {h}
      BY <3>2, <3>3 DEF Queued
    <3> QED BY <3>4, <3>5
  <2>5. InHand' = InHand \cup {h} /\ h \notin InHand
    <3>1. h \in Queued
      BY <2>4
    <3>2. h \notin InHand /\ h # NoTask
      BY <2>1, <3>1 DEF TasksConserved
    <3>3. \A v \in Workers : cur'[v] = IF v = w THEN h ELSE cur[v]
      BY <2>2
    <3> QED BY <2>2, <3>2, <3>3 DEF InHand
  <2>6. \A u, v \in Workers : cur'[u] = cur'[v] /\ cur'[u] # NoTask => u = v
    BY <2>2, <2>5 DEF TasksConserved, InHand
  <2> QED BY <2>2, <2>3, <2>4, <2>5, <2>6 DEF TasksConserved
<1>5. ASSUME NEW w \in Workers, Finish(w) PROVE TasksConserved'
  <2>1. /\ cur[w] # NoTask /\ cur'[w] = NoTask
        /\ \A v \in Workers \ {w} : cur'[v] = cur[v]
        /\ UNCHANGED <<pushed, Tasks>> /\ finished' = finished \cup {cur[w]}
    BY <1>5 DEF Finish, InHandOK, RunPcs, TypeOK
  <2>2. InHand = InHand' \cup {cur[w]} /\ cur[w] \notin InHand'
    <3>1. \A v \in Workers \ {w} : cur[v] # cur[w]
      BY Zenon, <2>1 DEF TasksConserved
    <3>2. InHand' = {cur[v] : v \in Workers \ {w}} \ {NoTask}
      BY <2>1 DEF InHand
    <3> QED BY <2>1, <3>1, <3>2, Zenon DEF InHand
  <2>3. Queued' = Queued
    BY Zenon, <2>1 DEF Queued
  <2> QED BY <2>1, <2>2, <2>3 DEF TasksConserved
<1>6. CASE MainStep /\ ~MainPush
  <2>1. CASE PushCount(Main) \/ PushNotify(Main) \/ SetThreadContext \/ SetNoNewTask
    BY Zenon, <1>3, <2>1 DEF PushCount, PushNotify, SetThreadContext, SetNoNewTask, queue, local
  <2>2. CASE WaitStart \/ WaitLock \/ DonePred \/ TailPred \/ WaitPark
    BY Zenon, <1>3, <2>2 DEF WaitStart, WaitLock, DonePred, TailPred, WaitPark, queue, local
  <2>3. CASE DestroyStart \/ DestroyNotify \/ DestroyJoin \/ CreateThreads
    BY Zenon, <1>3, <2>3 DEF DestroyStart, DestroyNotify, DestroyJoin, CreateThreads, queue, local
  <2> QED BY <1>6, <2>1, <2>2, <2>3 DEF MainStep
<1>7. ASSUME NEW w \in Workers, WorkerStep(w), ~WorkerPush(w), ~Take(w), ~Finish(w)
      PROVE  TasksConserved'
  BY Zenon, <1>3, <1>7 DEF WorkerStep, Loop, Lock, Pred, Park, TakeNothing, Run, PushCount, PushNotify,
     RunTail, TailFinish, queue, local
<1>8. CASE SpuriousWakeup \/ UNCHANGED vars
  BY <1>3, <1>8 DEF SpuriousWakeup, vars, queue, local
<1> QED BY <1>1, <1>2, <1>4, <1>5, <1>6, <1>7, <1>8 DEF Next, WorkerStep

(* Conservation: whatever the owner calls and the tasks push, no task is   *)
(* lost between pushTask and the worker loop, run twice or by two workers. *)
THEOREM NoTaskLost == Spec => []TasksConserved
<1> DEFINE Inv == TypeOK /\ InHandOK /\ Joined /\ TasksConserved
<1>1. Init => Inv
  BY TypeInit, InHandInit, ConservedInit
<1>2. Inv /\ [Next]_vars => Inv'
  BY TypeStep, InHandStep, JoinedStep, ConservedStep
<1> QED BY <1>1, <1>2, PTL DEF Spec

(* Every step of the pool is a push, a take or a finish of the queue it    *)
(* promises, or leaves the queue and the workers' tasks alone.             *)
LEMMA QueueStep ==
  TypeOK /\ InHandOK /\ [Next]_vars => [Queue!Next]_<<Tasks, cur>>
<1> SUFFICES ASSUME TypeOK, InHandOK, [Next]_vars
             PROVE  Queue!Next \/ UNCHANGED <<Tasks, cur>>
  OBVIOUS
<1> USE ThreadPoolAssumption
<1>1. CASE MainPush
  <2>1. Head(script).task \in TaskIds
    BY <1>1, ScriptStep DEF MainPush, Calls, TypeOK
  <2> QED BY <1>1, <2>1, Zenon DEF MainPush, PushTask, Queue!Next, Queue!Push
<1>2. ASSUME NEW w \in Workers, WorkerPush(w) PROVE Queue!Next
  <2>1. Head(todo[w]) \in TaskIds
    BY <1>2, TailContents DEF WorkerPush, TypeOK
  <2> QED BY <1>2, <2>1, Zenon DEF WorkerPush, PushTask, Queue!Next, Queue!Push
<1>3. ASSUME NEW w \in Workers, Take(w) PROVE Queue!Next
  <2>1. cur[w] = NoTask
    BY Zenon, <1>3 DEF Take, InHandOK, RunPcs
  <2> QED BY Zenon, <1>3, <2>1 DEF Take, Queue!Next, Queue!Take
<1>4. ASSUME NEW w \in Workers, Finish(w) PROVE Queue!Next
  <2>1. cur[w] # NoTask
    BY Zenon, <1>4 DEF Finish, InHandOK, RunPcs
  <2> QED BY Zenon, <1>4, <2>1 DEF Finish, Queue!Next, Queue!Finish
<1>5. CASE MainStep /\ ~MainPush
  <2>1. CASE PushCount(Main) \/ PushNotify(Main) \/ SetThreadContext \/ SetNoNewTask
    BY Zenon, <2>1 DEF PushCount, PushNotify, SetThreadContext, SetNoNewTask, queue, local
  <2>2. CASE WaitStart \/ WaitLock \/ DonePred \/ TailPred \/ WaitPark
    BY Zenon, <2>2 DEF WaitStart, WaitLock, DonePred, TailPred, WaitPark, queue, local
  <2>3. CASE DestroyStart \/ DestroyNotify \/ DestroyJoin \/ CreateThreads
    BY Zenon, <2>3 DEF DestroyStart, DestroyNotify, DestroyJoin, CreateThreads, queue, local
  <2> QED BY <1>5, <2>1, <2>2, <2>3 DEF MainStep
<1>6. ASSUME NEW w \in Workers, WorkerStep(w), ~WorkerPush(w), ~Take(w), ~Finish(w)
      PROVE  UNCHANGED <<Tasks, cur>>
  BY Zenon, <1>6 DEF WorkerStep, Loop, Lock, Pred, Park, TakeNothing, Run, PushCount,
     PushNotify, RunTail, TailFinish, queue, local
<1>7. CASE SpuriousWakeup \/ UNCHANGED vars
  BY Zenon, <1>7 DEF SpuriousWakeup, vars, queue, local
<1> QED BY Zenon, <1>1, <1>2, <1>3, <1>4, <1>5, <1>6, <1>7 DEF Next, WorkerStep

(* The pool implements the task queue, whatever is called and pushed.      *)
THEOREM PoolIsTaskQueue == Spec => ImplementsTaskQueue
<1> DEFINE Inv == TypeOK /\ InHandOK /\ Joined
<1>1. Init => Inv
  BY TypeInit, InHandInit
<1>2. Inv /\ [Next]_vars => Inv'
  BY TypeStep, InHandStep, JoinedStep
<1>3. Init => Queue!Init
  BY DEF Init, Queue!Init
<1>4. Inv /\ [Next]_vars => [Queue!Next]_<<Tasks, cur>>
  BY QueueStep
<1> QED BY <1>1, <1>2, <1>3, <1>4, PTL DEF Spec, ImplementsTaskQueue, Queue!Spec

-----------------------------------------------------------------------------
(* What holds when tasks push no tasks, which is the eager compiler's use:
   waitForTasks means done, and no worker pops an empty queue.  Only Main
   adds to TasksTotal, so it counts the unfinished tasks exactly whenever
   Main is not pushing, and the mutex freezes what a worker's wait has seen
   until it takes. *)

(* The eager compiler's use: no task pushes another. *)
NoTaskPushes == \A t \in TaskIds : Spawned[t] = << >>

WaitPcs == {"waitLock", "donePred", "donePark", "doneParked", "tailPred",
            "tailPark", "tailParked"}
TailPcs == {"tailPred", "tailPark", "tailParked"}

(* Only Main pushes, so the tasks not yet counted are the one in its hand. *)
MainPushes ==
  /\ \A w \in Workers : todo[w] = << >> /\ pc[w] \notin {"count", "notify"}
  /\ pushed = counted \cup (IF pc[Main] = "count" THEN {arg[Main]} ELSE {})

(* TasksTotal is the number of counted tasks that have not finished. *)
Counting == TasksTotal = Cardinality(counted) - Cardinality(finished)

(* The code between a lock and its unlock runs with the mutex. *)
HoldsMutex ==
  /\ \A w \in Workers : pc[w] \in {"pred", "park", "take"} => holder = {w}
  /\ pc[Main] \in {"donePred", "donePark", "tailPred", "tailPark"} => holder = {Main}

WaitingIsMain == Waiting => pc[Main] \in WaitPcs

(* What a worker knows past its wait, with the mutex still in its hand. *)
Available ==
  \A w \in Workers : pc[w] = "take"
    => Tasks # << >> \/ ~Running \/ (Waiting /\ TasksTotal = 0)

(* Every step keeps the mutex with the thread that is inside a critical
   section. *)
LEMMA HoldsMutexStep == TypeOK /\ HoldsMutex /\ Joined /\ [Next]_vars => HoldsMutex'
<1> SUFFICES ASSUME TypeOK, HoldsMutex, Joined, [Next]_vars PROVE HoldsMutex'
  OBVIOUS
<1> USE ThreadPoolAssumption DEF Threads, HoldsMutex
<1>0. pc \in [Threads -> MainPcs \cup WorkerPcs]
  BY DEF TypeOK
<1>1. CASE MainStep /\ ~CreateThreads
  <2>1. /\ \A w \in Workers : pc'[w] = pc[w]
        /\ \/ holder' = holder /\ (pc'[Main] \in {"donePred", "donePark", "tailPred", "tailPark"}
                                     => pc[Main] \in {"donePred", "tailPred"})
           \/ holder = {} /\ holder' = {Main}
           \/ /\ pc[Main] \in {"donePark", "tailPark", "tailPred"} /\ holder' = {}
              /\ pc'[Main] \in {"doneParked", "tailParked", "ready"}
    <3>1. CASE WaitLock
      BY <1>0, <3>1 DEF WaitLock, Goto, Locked
    <3>2. CASE TailPred
      BY <1>0, <3>2 DEF TailPred, Goto
    <3>3. CASE WaitPark
      BY <1>0, <3>3 DEF WaitPark, Goto
    <3>4. CASE MainPush \/ PushCount(Main) \/ PushNotify(Main)
      BY <1>0, <3>4 DEF MainPush, PushTask, PushCount, PushNotify, Goto, sync
    <3>5. CASE SetThreadContext \/ SetNoNewTask \/ WaitStart
      BY <1>0, <3>5 DEF SetThreadContext, SetNoNewTask, WaitStart, Calls, Goto, sync
    <3>6. CASE DonePred \/ DestroyStart \/ DestroyNotify \/ DestroyJoin
      BY <1>0, <3>6 DEF DonePred, DestroyStart, DestroyNotify, DestroyJoin, Calls, Goto, sync
    <3> QED BY Zenon, <1>1, <3>1, <3>2, <3>3, <3>4, <3>5, <3>6 DEF MainStep
  <2> QED BY Zenon, <2>1
<1>2. CASE CreateThreads
  BY <1>2 DEF CreateThreads
<1>3. ASSUME NEW w \in Workers, WorkerStep(w) PROVE HoldsMutex'
  <2>1. /\ \A t \in Threads \ {w} : pc'[t] = pc[t]
        /\ \/ holder' = holder /\ (pc'[w] \in {"pred", "park", "take"} => pc[w] = "pred")
           \/ holder = {} /\ holder' = {w}
           \/ pc[w] \in {"park", "take"} /\ holder' = {} /\ pc'[w] \notin {"pred", "park", "take"}
    <3>1. CASE Lock(w)
      BY <1>0, <3>1 DEF Lock, Goto, Locked
    <3>2. CASE Park(w) \/ Take(w) \/ TakeNothing(w)
      BY <1>0, <3>2 DEF Park, Take, TakeNothing, Goto
    <3>3. CASE Loop(w) \/ Pred(w) \/ Run(w) \/ RunTail(w)
      BY <1>0, <3>3 DEF Loop, Pred, Run, RunTail, Goto, sync
    <3>4. CASE WorkerPush(w) \/ PushCount(w) \/ PushNotify(w)
      BY <1>0, <3>4 DEF WorkerPush, PushTask, PushCount, PushNotify, Goto, sync
    <3>5. CASE Finish(w) \/ TailFinish(w)
      BY <1>0, <3>5, Zenon DEF Finish, TailFinish, Goto
    <3> QED BY <1>3, <3>1, <3>2, <3>3, <3>4, <3>5, Zenon DEF WorkerStep
  <2> QED BY Zenon, <2>1
<1>4. CASE SpuriousWakeup \/ UNCHANGED vars
  BY <1>4 DEF SpuriousWakeup, vars, sync
<1> QED BY <1>1, <1>2, <1>3, <1>4 DEF Next

(* Only the owner ever waits for the tasks. *)
LEMMA WaitingIsMainStep == TypeOK /\ WaitingIsMain /\ [Next]_vars => WaitingIsMain'
<1> SUFFICES ASSUME TypeOK, WaitingIsMain, [Next]_vars PROVE WaitingIsMain'
  OBVIOUS
<1> USE ThreadPoolAssumption DEF Threads, WaitingIsMain, WaitPcs
<1>0. pc \in [Threads -> MainPcs \cup WorkerPcs]
  BY DEF TypeOK
<1>1. CASE MainPush \/ PushCount(Main) \/ PushNotify(Main)
  BY Zenon, <1>0, <1>1 DEF MainPush, PushTask, PushCount, PushNotify, Calls, flags
<1>2. CASE SetThreadContext \/ SetNoNewTask \/ WaitStart
  BY Zenon, <1>0, <1>2 DEF SetThreadContext, SetNoNewTask, WaitStart, Goto, flags
<1>3. CASE WaitLock \/ DonePred \/ TailPred \/ WaitPark
  BY Zenon, <1>0, <1>3 DEF WaitLock, DonePred, TailPred, WaitPark, Goto, flags
<1>4. CASE DestroyStart \/ DestroyNotify \/ DestroyJoin \/ CreateThreads
  BY Zenon, <1>0, <1>4 DEF DestroyStart, DestroyNotify, DestroyJoin, CreateThreads, Calls, flags
<1>5. ASSUME NEW w \in Workers, WorkerStep(w) PROVE Waiting' = Waiting /\ pc'[Main] = pc[Main]
  BY <1>0, <1>5, Zenon DEF WorkerStep, Loop, Lock, Pred, Park, Take, TakeNothing, Run, WorkerPush,
     PushTask, PushCount, PushNotify, Finish, RunTail, TailFinish, Goto, flags
<1>6. CASE SpuriousWakeup \/ UNCHANGED vars
  BY Zenon, <1>6 DEF SpuriousWakeup, vars, flags
<1> QED BY Zenon, <1>1, <1>2, <1>3, <1>4, <1>5, <1>6 DEF Next, MainStep

(* MainPushes and Counting are kept by every step once tasks push none. *)
LEMMA CountingStep ==
  ASSUME NoTaskPushes, TypeOK, TypeOK', InHandOK, TasksConserved, Joined,
         MainPushes, Counting, [Next]_vars
  PROVE  MainPushes' /\ Counting'
<1> USE ThreadPoolAssumption DEF Threads
<1>0. pc \in [Threads -> MainPcs \cup WorkerPcs]
  BY DEF TypeOK
<1>1. IsFiniteSet(counted) /\ IsFiniteSet(finished)
      /\ Cardinality(counted) \in Nat /\ Cardinality(finished) \in Nat
  BY FS_Subset, FS_CardinalityType DEF TypeOK
<1>m. Main \in Threads /\ Main \notin Workers
  OBVIOUS
<1>2. CASE MainPush
  <2> DEFINE task == Head(script).task
  <2>1. /\ pc[Main] = "ready" /\ pushed' = pushed \cup {task} /\ counted' = counted
        /\ finished' = finished /\ TasksTotal' = TasksTotal /\ todo' = todo
        /\ pc' = [pc EXCEPT ![Main] = "count"] /\ arg' = [arg EXCEPT ![Main] = task]
    BY Zenon, <1>2 DEF MainPush, PushTask, Calls, Goto
  <2> HIDE DEF task
  <2>2. /\ pc'[Main] = "count" /\ arg'[Main] = task
        /\ \A w \in Workers : pc'[w] = pc[w]
    BY <1>0, <1>m, <2>1 DEF TypeOK
  <2>3. pushed = counted
    BY <2>1 DEF MainPushes
  <2> QED BY Zenon, <2>1, <2>2, <2>3 DEF MainPushes, Counting
<1>3. CASE PushCount(Main)
  <2>1. arg[Main] \notin counted /\ pc[Main] = "count"
    BY <1>3, Zenon DEF PushCount, InHandOK
  <2>2. Cardinality(counted') = Cardinality(counted) + 1
    BY Zenon, <1>1, <1>3, <2>1, FS_AddElement DEF PushCount
  <2>3. Counting'
    <3>1. TasksTotal' = TasksTotal + 1 /\ finished' = finished
      BY Zenon, <1>3 DEF PushCount
    <3> QED BY <1>1, <2>2, <3>1 DEF Counting
  <2>4. MainPushes'
    BY <1>0, <1>3, <2>1, Zenon DEF PushCount, MainPushes, Goto, local
  <2> QED BY <2>3, <2>4
<1>4. ASSUME NEW w \in Workers, Finish(w) PROVE MainPushes' /\ Counting'
  <2>1. cur[w] \notin finished
    <3>1. pc[w] \in RunPcs
      BY Zenon, <1>4 DEF Finish, RunPcs
    <3>2. cur[w] \in InHand
      BY Zenon, <3>1 DEF InHandOK, InHand
    <3> QED BY Zenon, <3>2 DEF TasksConserved
  <2>2. Cardinality(finished') = Cardinality(finished) + 1
    BY Zenon, <1>1, <1>4, <2>1, FS_AddElement DEF Finish
  <2>3. Counting'
    <3>1. TasksTotal' = TasksTotal - 1 /\ counted' = counted
      BY Zenon, <1>4 DEF Finish
    <3> QED BY <1>1, <2>2, <3>1 DEF Counting
  <2>4. MainPushes'
    BY <1>0, <1>4, Zenon DEF Finish, MainPushes, Goto
  <2> QED BY <2>3, <2>4
<1>5. ASSUME NEW w \in Workers, Take(w) PROVE MainPushes' /\ Counting'
  <2>1. Spawned[Head(Tasks)] = << >>
    BY <1>5, TailContents, Zenon DEF Take, NoTaskPushes, TypeOK
  <2>2. /\ \A v \in Workers : todo'[v] = << >> /\ pc'[v] \notin {"count", "notify"}
        /\ pc'[Main] = pc[Main]
    <3>1. /\ pc' = [pc EXCEPT ![w] = "run"]
          /\ todo' = [todo EXCEPT ![w] = << >>]
      BY Zenon, <1>5, <2>1 DEF Take, Goto
    <3>2. /\ \A v \in Workers : pc'[v] = "run" \/ pc'[v] = pc[v]
          /\ \A v \in Workers : todo'[v] = << >> \/ todo'[v] = todo[v]
          /\ pc'[Main] = pc[Main]
      BY <1>0, <1>m, <3>1 DEF TypeOK
    <3>3. "run" \notin {"count", "notify"}
      OBVIOUS
    <3> QED BY Zenon, <3>2, <3>3 DEF MainPushes
  <2>3. UNCHANGED <<pushed, counted, finished, TasksTotal, arg>>
    BY Zenon, <1>5 DEF Take
  <2> QED BY Zenon, <2>2, <2>3 DEF MainPushes, Counting
<1>6. CASE CreateThreads
  BY <1>6, Zenon DEF CreateThreads, Calls, MainPushes, Counting, queue, local
<1>7. ASSUME UNCHANGED <<pushed, counted, finished, TasksTotal, todo>>,
             UNCHANGED arg \/ (pc[Main] # "count" /\ pc'[Main] # "count"),
             pc'[Main] = "count" <=> pc[Main] = "count",
             \A w \in Workers : pc'[w] \notin {"count", "notify"}
      PROVE  MainPushes' /\ Counting'
  BY <1>7 DEF MainPushes, Counting
<1>p. ASSUME UNCHANGED <<queue, todo, arg, pc>> PROVE MainPushes' /\ Counting'
  BY Zenon, <1>7, <1>p DEF MainPushes, queue
<1>q. ASSUME NEW l, l # "count", Goto(Main, l), pc[Main] # "count", UNCHANGED <<queue, todo>>
      PROVE  MainPushes' /\ Counting'
  <2>1. pc'[Main] = l /\ \A w \in Workers : pc'[w] = pc[w]
    BY <1>0, <1>m, <1>q DEF Goto
  <2> QED BY Zenon, <1>7, <1>q, <2>1 DEF MainPushes, queue
<1>8. CASE PushNotify(Main) \/ SetThreadContext \/ SetNoNewTask \/ WaitStart
  <2>1. CASE PushNotify(Main)
    BY Zenon, <1>q, <2>1 DEF PushNotify
  <2>2. CASE SetThreadContext \/ SetNoNewTask
    BY Zenon, <1>p, <2>2 DEF SetThreadContext, SetNoNewTask, local
  <2>3. CASE WaitStart
    BY Zenon, <1>p, <1>q, <2>3 DEF WaitStart, Calls, local
  <2> QED BY Zenon, <1>8, <2>1, <2>2, <2>3
<1>9. CASE WaitLock \/ DonePred \/ TailPred \/ WaitPark
  <2>1. CASE WaitLock
    BY Zenon, <1>q, <2>1 DEF WaitLock, local
  <2>2. CASE DonePred \/ TailPred
    BY Zenon, <1>q, <2>2 DEF DonePred, TailPred, local
  <2>3. CASE WaitPark
    BY Zenon, <1>q, <2>3 DEF WaitPark, local
  <2> QED BY Zenon, <1>9, <2>1, <2>2, <2>3
<1>10. CASE DestroyStart \/ DestroyNotify \/ DestroyJoin
  <2>1. CASE DestroyStart
    BY Zenon, <1>p, <1>q, <2>1 DEF DestroyStart, Calls, local
  <2>2. CASE DestroyNotify \/ DestroyJoin
    BY Zenon, <1>q, <2>2 DEF DestroyNotify, DestroyJoin, local
  <2> QED BY Zenon, <1>10, <2>1, <2>2
<1>11. ASSUME NEW w \in Workers,
              Loop(w) \/ Lock(w) \/ Pred(w) \/ Park(w) \/ TakeNothing(w)
              \/ Run(w) \/ RunTail(w) \/ TailFinish(w)
       PROVE  MainPushes' /\ Counting'
  BY <1>0, <1>7, <1>11, Zenon DEF Loop, Lock, Pred, Park, TakeNothing, Run, RunTail, TailFinish, Goto,
     MainPushes, queue, local
<1>12. ASSUME NEW w \in Workers PROVE ~WorkerPush(w) /\ ~PushCount(w) /\ ~PushNotify(w)
  BY Zenon DEF MainPushes, WorkerPush, PushCount, PushNotify
<1>13. CASE SpuriousWakeup \/ UNCHANGED vars
  BY <1>7, <1>13, Zenon DEF SpuriousWakeup, vars, MainPushes, queue, local
<1> QED BY Zenon, <1>2, <1>3, <1>4, <1>5, <1>6, <1>8, <1>9, <1>10, <1>11, <1>12, <1>13
        DEF Next, MainStep, WorkerStep

(* Every step keeps what a worker past its wait knows: there is a task,
   or it is to stop, or the owner waits and nothing is left. *)
LEMMA AvailableStep ==
  ASSUME TypeOK, MainPushes \/ ~Waiting, HoldsMutex, WaitingIsMain, Available, [Next]_vars
  PROVE  Available'
<1> USE ThreadPoolAssumption DEF Threads
<1>0. pc \in [Threads -> MainPcs \cup WorkerPcs]
  BY DEF TypeOK
<1> SUFFICES ASSUME NEW v \in Workers, pc'[v] = "take"
             PROVE  (Tasks # << >> \/ ~Running \/ (Waiting /\ TasksTotal = 0))'
  BY DEF Available
<1>1. CASE Pred(v)
  BY <1>0, <1>1 DEF Pred, AvailablePred, Goto, flags, queue
<1>2. CASE CreateThreads
  BY <1>2 DEF CreateThreads
<1>3. CASE ~Pred(v) /\ ~CreateThreads
  <2>1. pc[v] = "take" /\ holder = {v}
    <3>1. ASSUME NEW w \in Workers, WorkerStep(w) PROVE pc[v] = "take"
      <4>1. CASE w # v
        <5>1. \E l : Goto(w, l)
          BY Zenon, <3>1 DEF WorkerStep, Loop, Lock, Pred, Park, Take, TakeNothing, Run, WorkerPush,
             PushTask, PushCount, PushNotify, Finish, RunTail, TailFinish
        <5>2. pc'[v] = pc[v]
          BY <1>0, <4>1, <5>1 DEF Goto
        <5> QED BY Zenon, <5>2
      <4>2. CASE w = v
        BY <1>0, <1>3, <3>1, <4>2, Zenon DEF WorkerStep, Loop, Lock, Park, Take, TakeNothing, Run, WorkerPush,
           PushTask, PushCount, PushNotify, Finish, RunTail, TailFinish, Goto
      <4> QED BY Zenon, <4>1, <4>2
    <3>2. ASSUME MainStep PROVE pc[v] = "take"
      <4>1. CASE MainPush \/ PushCount(Main) \/ PushNotify(Main) \/ WaitStart \/ WaitLock
        BY <1>0, <4>1, Zenon DEF MainPush, PushTask, PushCount, PushNotify, WaitStart, WaitLock, Goto
      <4>2. CASE DonePred \/ TailPred \/ WaitPark \/ DestroyNotify \/ DestroyJoin
        BY <1>0, <4>2 DEF DonePred, TailPred, WaitPark, DestroyNotify, DestroyJoin, Goto
      <4>3. CASE SetThreadContext \/ SetNoNewTask \/ DestroyStart
        BY <1>0, <4>3 DEF SetThreadContext, SetNoNewTask, DestroyStart, Goto
      <4> QED BY Zenon, <1>3, <3>2, <4>1, <4>2, <4>3 DEF MainStep
    <3>3. ASSUME SpuriousWakeup \/ UNCHANGED vars PROVE pc[v] = "take"
      BY <3>3 DEF SpuriousWakeup, vars
    <3> QED BY <3>1, <3>2, <3>3 DEF Next, HoldsMutex
  <2>2. Tasks # << >> \/ ~Running \/ (Waiting /\ TasksTotal = 0)
    BY <2>1 DEF Available
  <2>3. ASSUME UNCHANGED <<Tasks, Running, TasksTotal>>, Waiting => Waiting'
        PROVE  (Tasks # << >> \/ ~Running \/ (Waiting /\ TasksTotal = 0))'
    BY <2>2, <2>3
  <2>4. CASE PushCount(Main)
    <3>1. ~Waiting
      BY <2>4 DEF PushCount, WaitingIsMain, WaitPcs
    <3> QED BY <2>2, <2>4, <3>1 DEF PushCount, flags
  <2>5. CASE MainStep /\ ~PushCount(Main)
    <3>1. ~MainPush /\ ~TailPred
      BY <2>1 DEF MainPush, PushTask, Locked, TailPred, HoldsMutex
    <3>2. CASE DestroyStart
      BY <2>2, <3>2 DEF DestroyStart, queue
    <3>3. CASE PushNotify(Main) \/ SetThreadContext \/ SetNoNewTask
      BY Zenon, <2>3, <3>3 DEF PushNotify, SetThreadContext, SetNoNewTask, queue, flags
    <3>4. CASE WaitStart \/ WaitLock \/ WaitPark
      BY Zenon, <2>3, <3>4 DEF WaitStart, WaitLock, WaitPark, queue, flags
    <3>5. CASE DonePred \/ DestroyNotify \/ DestroyJoin
      BY Zenon, <2>3, <3>5 DEF DonePred, DestroyNotify, DestroyJoin, queue, flags
    <3> QED BY <1>3, <2>5, <3>1, <3>2, <3>3, <3>4, <3>5 DEF MainStep
  <2>6. ASSUME NEW w \in Workers, WorkerStep(w)
        PROVE  (Tasks # << >> \/ ~Running \/ (Waiting /\ TasksTotal = 0))'
    <3>1. ~WorkerPush(w) /\ ~Finish(w)
      BY <2>1 DEF WorkerPush, PushTask, Finish, Locked
    <3>2. CASE PushCount(w) \/ PushNotify(w)
      <4>1. CASE MainPushes
        BY <3>2, <4>1, Zenon DEF MainPushes, PushCount, PushNotify
      <4>2. CASE ~Waiting
        BY <2>2, <3>2, <4>2, Zenon DEF PushCount, PushNotify, queue, flags
      <4>. QED BY <4>1, <4>2, Zenon
    <3>3. ~Take(w)
      <4>1. CASE w = v
        BY <1>0, <2>1, <4>1 DEF Take, Goto
      <4>2. CASE w # v
        BY Zenon, <2>1, <4>2 DEF Take, HoldsMutex
      <4> QED BY <4>1, <4>2
    <3>4. CASE Loop(w) \/ Lock(w) \/ Pred(w) \/ Park(w)
      BY Zenon, <2>3, <3>4 DEF Loop, Lock, Pred, Park, queue, flags
    <3>5. CASE TakeNothing(w) \/ Run(w) \/ RunTail(w) \/ TailFinish(w)
      BY Zenon, <2>3, <3>5 DEF TakeNothing, Run, RunTail, TailFinish, queue, flags
    <3> QED BY <2>6, <3>1, <3>2, <3>3, <3>4, <3>5 DEF WorkerStep
  <2>7. CASE SpuriousWakeup \/ UNCHANGED vars
    BY <2>3, <2>7 DEF SpuriousWakeup, vars, queue, flags
  <2> QED BY <2>4, <2>5, <2>6, <2>7 DEF Next
<1> QED BY <1>1, <1>2, <1>3

(* Every step keeps that a finished wait has seen all tasks done. *)
LEMMA WaitMeansDoneStep ==
  ASSUME TypeOK, InHandOK, TasksConserved, MainPushes, Counting, WaitMeansDone,
         [Next]_vars
  PROVE  WaitMeansDone'
<1> USE ThreadPoolAssumption DEF Threads
<1>0. pc \in [Threads -> MainPcs \cup WorkerPcs]
  BY DEF TypeOK
<1>1. CASE DonePred
  <2>1. CASE TasksTotal = 0
    <3>1. pushed = counted /\ finished \subseteq pushed
      BY <1>1 DEF DonePred, MainPushes, TasksConserved
    <3>2. IsFiniteSet(counted) /\ IsFiniteSet(finished)
      BY FS_Subset, FS_CardinalityType DEF TypeOK
    <3>3. Cardinality(counted) = Cardinality(finished)
      BY <2>1, <3>2, FS_CardinalityType DEF Counting
    <3>4. pushed = finished
      BY <3>1, <3>2, <3>3, FS_Subset
    <3> QED BY <1>1, <3>4, Zenon DEF DonePred, WaitMeansDone, queue
  <2>2. CASE TasksTotal # 0
    BY <1>0, <1>1, <2>2 DEF DonePred, WaitMeansDone, Goto
  <2> QED BY <2>1, <2>2
<1>2. ASSUME UNCHANGED <<pushed, finished>>, pc'[Main] \in TailPcs => pc[Main] \in TailPcs
      PROVE  WaitMeansDone'
  BY <1>2 DEF WaitMeansDone, TailPcs
<1>3. CASE MainPush \/ PushCount(Main) \/ PushNotify(Main)
  BY <1>0, <1>3 DEF MainPush, PushTask, PushCount, PushNotify, Goto, WaitMeansDone
<1>4. CASE SetThreadContext \/ SetNoNewTask \/ WaitStart \/ WaitLock
  BY <1>0, <1>2, <1>4 DEF SetThreadContext, SetNoNewTask, WaitStart, WaitLock, Calls,
     Goto, TailPcs, queue
<1>5. CASE TailPred \/ WaitPark \/ DestroyStart \/ DestroyNotify \/ DestroyJoin
  BY <1>0, <1>2, <1>5 DEF TailPred, WaitPark, DestroyStart, DestroyNotify, DestroyJoin,
     Goto, TailPcs, queue
<1>6. CASE CreateThreads
  BY <1>6 DEF CreateThreads, WaitMeansDone
<1>7. ASSUME NEW w \in Workers, WorkerStep(w) PROVE WaitMeansDone'
  <2>1. ~WorkerPush(w) /\ ~PushCount(w) /\ ~PushNotify(w)
    BY Zenon DEF MainPushes, WorkerPush, PushCount, PushNotify
  <2>2. CASE Finish(w)
    <3>1. cur[w] \in pushed \ finished
      <4>1. pc[w] \in RunPcs
        BY Zenon, <2>2 DEF Finish, RunPcs
      <4>2. cur[w] \in InHand
        BY Zenon, <4>1 DEF InHandOK, InHand
      <4> QED BY Zenon, <4>2 DEF TasksConserved
    <3> QED BY <1>0, <2>2, <3>1 DEF Finish, Goto, WaitMeansDone
  <2>3. CASE ~Finish(w)
    BY <1>0, <1>2, <1>7, <2>1, <2>3, Zenon DEF WorkerStep, Loop, Lock, Pred, Park, Take, TakeNothing, Run,
       RunTail, TailFinish, Goto, queue
  <2> QED BY <2>2, <2>3
<1>8. CASE SpuriousWakeup \/ UNCHANGED vars
  BY <1>2, <1>8 DEF SpuriousWakeup, vars, queue
<1> QED BY <1>1, <1>3, <1>4, <1>5, <1>6, <1>7, <1>8 DEF Next, MainStep

EagerInv == /\ TypeOK /\ InHandOK /\ Joined /\ TasksConserved
            /\ MainPushes /\ Counting /\ HoldsMutex
            /\ WaitingIsMain /\ Available /\ WaitMeansDone

(* The conjuncts of EagerInv are inductive together. *)
LEMMA EagerInvariance == ASSUME NoTaskPushes PROVE Spec => []EagerInv
<1>1. Init => EagerInv
  <2> SUFFICES ASSUME Init PROVE EagerInv
    OBVIOUS
  <2>1. TypeOK /\ InHandOK /\ Joined /\ TasksConserved
    BY TypeInit, InHandInit, ConservedInit
  <2>2. Counting
    BY FS_EmptySet DEF Init, Counting
  <2>3. MainPushes /\ HoldsMutex /\ WaitingIsMain /\ Available /\ WaitMeansDone
    BY ThreadPoolAssumption DEF Init, MainPushes, HoldsMutex, WaitingIsMain,
       Available, WaitMeansDone, Threads
  <2> QED BY <2>1, <2>2, <2>3 DEF EagerInv
<1>2. EagerInv /\ [Next]_vars => EagerInv'
  <2> SUFFICES ASSUME EagerInv, [Next]_vars PROVE EagerInv'
    OBVIOUS
  <2>0. /\ TypeOK /\ InHandOK /\ Joined /\ TasksConserved /\ MainPushes /\ Counting
        /\ HoldsMutex /\ WaitingIsMain /\ Available /\ WaitMeansDone
    BY Zenon DEF EagerInv
  <2>1. TypeOK' /\ InHandOK' /\ Joined' /\ TasksConserved'
    BY <2>0, TypeStep, InHandStep, JoinedStep, ConservedStep, Zenon
  <2>2. MainPushes' /\ Counting'
    BY <2>0, <2>1, CountingStep, Zenon
  <2>3. HoldsMutex' /\ WaitingIsMain'
    BY <2>0, HoldsMutexStep, WaitingIsMainStep, Zenon
  <2>4. Available' /\ WaitMeansDone'
    BY <2>0, AvailableStep, WaitMeansDoneStep, Zenon
  <2> QED BY <2>1, <2>2, <2>3, <2>4, Zenon DEF EagerInv
<1> QED BY <1>1, <1>2, PTL DEF Spec

(* When tasks push no tasks, waitForTasks passes its first wait only when  *)
(* every task has finished.                                                *)
THEOREM EagerWaits == ASSUME NoTaskPushes PROVE Spec => []WaitMeansDone
<1>1. EagerInv => WaitMeansDone
  BY Zenon DEF EagerInv
<1> QED BY <1>1, EagerInvariance, PTL

(* When tasks push no tasks, no worker calls front() on an empty queue.    *)
THEOREM EagerPops == ASSUME NoTaskPushes PROVE Spec => []PopsFromNonEmpty
<1>1. EagerInv => PopsFromNonEmpty
  BY Zenon DEF EagerInv, Available, PopsFromNonEmpty
<1> QED BY <1>1, EagerInvariance, PTL

-----------------------------------------------------------------------------
(* What holds when the owner never calls waitForTasks, which is the lazy    *)
(* compiler's use: its tasks do push tasks, and with Waiting never raised   *)
(* a worker passes its wait on a task or on the end only.                   *)
NoCallWaits == \A s \in Scripts : \A i \in 1..Len(s) : s[i].op # "wait"

LazyInv == /\ TypeOK /\ InHandOK /\ Joined /\ HoldsMutex /\ WaitingIsMain /\ Available
           /\ ~Waiting /\ \A i \in 1..Len(script) : script[i].op # "wait"

(* The calls that remain are calls of the script. *)
LEMMA RemainingCalls ==
  ASSUME TypeOK, [Next]_vars
  PROVE  script' = script \/ (script # << >> /\ script' = Tail(script))
<1>1. CASE MainStep
  BY <1>1, Zenon DEF MainStep, MainPush, PushCount, PushNotify, SetThreadContext, SetNoNewTask,
     WaitStart, WaitLock, DonePred, TailPred, WaitPark, DestroyStart, DestroyNotify, DestroyJoin,
     CreateThreads, Calls
<1>2. ASSUME NEW w \in Workers, WorkerStep(w) PROVE script' = script
  BY <1>2, Zenon DEF WorkerStep, Loop, Lock, Pred, Park, Take, TakeNothing, Run, WorkerPush,
     PushCount, PushNotify, Finish, RunTail, TailFinish
<1>3. CASE SpuriousWakeup \/ UNCHANGED vars
  BY <1>3, Zenon DEF SpuriousWakeup, vars
<1>. QED BY <1>1, <1>2, <1>3, Zenon DEF Next

(* A pool whose owner never waits hands out tasks from a queue that has    *)
(* them, although tasks push tasks.                                        *)
THEOREM LazyPops == ASSUME NoCallWaits PROVE Spec => []PopsFromNonEmpty
<1>1. Init => LazyInv
  <2> SUFFICES ASSUME Init PROVE LazyInv
    OBVIOUS
  <2>1. TypeOK /\ InHandOK /\ Joined
    BY TypeInit, InHandInit
  <2>2. HoldsMutex /\ WaitingIsMain /\ Available /\ ~Waiting
    BY ThreadPoolAssumption DEF Init, HoldsMutex, WaitingIsMain, Available, Threads
  <2>3. \A i \in 1..Len(script) : script[i].op # "wait"
    BY Zenon DEF Init, NoCallWaits
  <2> QED BY <2>1, <2>2, <2>3, Zenon DEF LazyInv
<1>2. LazyInv /\ [Next]_vars => LazyInv'
  <2> SUFFICES ASSUME LazyInv, [Next]_vars PROVE LazyInv'
    OBVIOUS
  <2>0. /\ TypeOK /\ InHandOK /\ Joined /\ HoldsMutex /\ WaitingIsMain /\ Available
        /\ ~Waiting /\ \A i \in 1..Len(script) : script[i].op # "wait"
    BY Zenon DEF LazyInv
  <2>1. TypeOK' /\ InHandOK' /\ Joined' /\ HoldsMutex' /\ WaitingIsMain' /\ Available'
    BY <2>0, TypeStep, InHandStep, JoinedStep, HoldsMutexStep, WaitingIsMainStep, AvailableStep, Zenon
  <2>2. \A i \in 1..Len(script') : script'[i].op # "wait"
    <3>1. CASE script' = script
      BY <2>0, <3>1, Zenon
    <3>2. CASE script # << >> /\ script' = Tail(script)
      <4>1. script \in Seq(Op)
        BY <2>0, Zenon DEF TypeOK
      <4>2. Len(script') = Len(script) - 1 /\ \A i \in 1..Len(script') : script'[i] = script[i + 1]
        BY <3>2, <4>1
      <4>3. \A i \in 1..Len(script') : i + 1 \in 1..Len(script)
        BY <4>1, <4>2
      <4>. QED BY <2>0, <4>2, <4>3, Zenon
    <3>. QED BY <2>0, <3>1, <3>2, RemainingCalls, Zenon
  <2>3. ~Waiting'
    <3>1. ~WaitStart
      <4>1. script # << >> => Head(script).op # "wait"
        BY <2>0 DEF TypeOK
      <4>. QED BY <4>1, Zenon DEF WaitStart, Calls
    <3>2. ASSUME MainStep PROVE ~Waiting'
      BY <2>0, <3>1, <3>2, Zenon DEF MainStep, MainPush, PushTask, PushCount, PushNotify,
         SetThreadContext, SetNoNewTask, WaitLock, DonePred, TailPred, WaitPark, DestroyStart,
         DestroyNotify, DestroyJoin, CreateThreads, flags
    <3>3. ASSUME NEW w \in Workers, WorkerStep(w) PROVE ~Waiting'
      BY <2>0, <3>3, Zenon DEF WorkerStep, Loop, Lock, Pred, Park, Take, TakeNothing, Run,
         WorkerPush, PushTask, PushCount, PushNotify, Finish, RunTail, TailFinish, flags
    <3>4. CASE SpuriousWakeup \/ UNCHANGED vars
      BY <2>0, <3>4, Zenon DEF SpuriousWakeup, vars, flags
    <3>. QED BY <3>2, <3>3, <3>4, Zenon DEF Next
  <2>. QED BY <2>1, <2>2, <2>3, Zenon DEF LazyInv
<1>3. LazyInv => PopsFromNonEmpty
  BY Zenon DEF LazyInv, Available, PopsFromNonEmpty
<1>. QED BY <1>1, <1>2, <1>3, PTL DEF Spec

-----------------------------------------------------------------------------
(* The tail tasks.  An owner binds its workers first: between the creation  *)
(* of the threads and the next, every worker with a tail task is bound      *)
(* once, before the owner stops the work or waits for it.                   *)
Binds(s, i, w) == s[i].op = "bind" /\ s[i].worker = w
NoRecreate(s, i, j) == \A k \in i..j : s[k].op # "recreate"
BindsAll(s, k) == \A w \in TailWorkers :
                    \E i \in (k + 1)..Len(s) : Binds(s, i, w) /\ NoRecreate(s, k + 1, i)

BindsFirst(s) ==
  /\ \A i, j \in 1..Len(s) :
       i < j /\ s[i].op \in {"noNewTask", "wait", "destroy"} /\ s[j].op = "bind"
         => ~NoRecreate(s, i, j)
  /\ \A i, j \in 1..Len(s) : \A w \in Workers :
       i < j /\ Binds(s, i, w) /\ Binds(s, j, w) => ~NoRecreate(s, i, j)
  /\ \A k \in 1..Len(s) : s[k].op = "recreate" => BindsAll(s, k)

EagerScript(s) == BindsFirst(s) /\ BindsAll(s, 0)

(* The workers still to be bound to the present threads. *)
ToBind(s) == {w \in Workers : \E i \in 1..Len(s) : Binds(s, i, w) /\ NoRecreate(s, 1, i)}

(* The workers with a tail task that have run it and left. *)
TailDone == {w \in TailWorkers : pc[w] = "exit"}

(* NumTailTasks counts the tail tasks bound and not yet run. *)
TailCount == NumTailTasks = Cardinality(TailWorkers \ ToBind(script)) - Cardinality(TailDone)

(* Nothing is left to bind once the work is stopped or waited for; only     *)
(* then do workers leave, and not before their tail task has run.           *)
TailOrder ==
  /\ BindsFirst(script)
  /\ NoNewTask \/ ~Running \/ pc[Main] \in WaitPcs => ToBind(script) = {}
  /\ \A w \in Workers : pc[w] \in {"tail", "tailFinish", "exit"} => NoNewTask \/ ~Running
  /\ \A w \in TailWorkers : pc[w] \in {"tailFinish", "exit"} => w \in tailed
  /\ \A w \in Workers : pc[w] = "tailFinish" => w \in TailWorkers

(* What one call takes off what is left to bind. *)
LEMMA BindNext ==
  ASSUME NEW s \in Seq(Op), s # << >>, BindsFirst(s)
  PROVE  LET h == Head(s)
             t == Tail(s)
         IN  /\ BindsFirst(t)
             /\ h.op = "bind" => /\ h.worker \in Workers /\ h.worker \notin ToBind(t)
                                 /\ ToBind(s) = ToBind(t) \cup {h.worker}
             /\ h.op \notin {"bind", "recreate"} => ToBind(t) = ToBind(s)
             /\ h.op = "recreate" => ToBind(s) = {} /\ TailWorkers \subseteq ToBind(t)
             /\ h.op \in {"noNewTask", "wait", "destroy"} => ToBind(t) = {}
<1>. DEFINE h == Head(s)
            t == Tail(s)
<1>1. /\ Len(s) \in Nat /\ Len(s) >= 1 /\ Len(t) = Len(s) - 1 /\ s[1] = h
      /\ \A i \in 1..Len(t) : t[i] = s[i + 1] /\ i + 1 \in 1..Len(s)
      /\ \A i \in 2..Len(s) : s[i] = t[i - 1] /\ i - 1 \in 1..Len(t)
  OBVIOUS
<1>. HIDE DEF h, t
<1>2. \A i, j \in 1..Len(t) : NoRecreate(t, i, j) <=> NoRecreate(s, i + 1, j + 1)
  <2>. SUFFICES ASSUME NEW i \in 1..Len(t), NEW j \in 1..Len(t)
                PROVE  NoRecreate(t, i, j) <=> NoRecreate(s, i + 1, j + 1)
    OBVIOUS
  <2>1. \A k \in i..j : k + 1 \in (i + 1)..(j + 1) /\ t[k] = s[k + 1]
    BY <1>1
  <2>2. \A k \in (i + 1)..(j + 1) : k - 1 \in i..j /\ s[k] = t[k - 1]
    BY <1>1
  <2>. QED BY <2>1, <2>2, Zenon DEF NoRecreate
<1>3. \A i \in 1..Len(t) : \A w : Binds(t, i, w) <=> Binds(s, i + 1, w)
  BY <1>1, Zenon DEF Binds
<1>4. \A i \in 1..Len(s) : NoRecreate(s, 1, i) <=> h.op # "recreate" /\ NoRecreate(s, 2, i)
  <2>. SUFFICES ASSUME NEW i \in 1..Len(s)
                PROVE  NoRecreate(s, 1, i) <=> h.op # "recreate" /\ NoRecreate(s, 2, i)
    OBVIOUS
  <2>1. 1 \in 1..i /\ (\A k \in 2..i : k \in 1..i) /\ \A k \in 1..i : k = 1 \/ k \in 2..i
    BY <1>1
  <2>. QED BY <1>1, <2>1, Zenon DEF NoRecreate
<1>5. \A i \in 1..Len(t) : NoRecreate(s, 1, i + 1) <=> h.op # "recreate" /\ NoRecreate(t, 1, i)
  <2>. SUFFICES ASSUME NEW i \in 1..Len(t)
                PROVE  NoRecreate(s, 1, i + 1) <=> h.op # "recreate" /\ NoRecreate(t, 1, i)
    OBVIOUS
  <2>1. 1 \in 1..Len(t) /\ 1 + 1 = 2 /\ i + 1 \in 1..Len(s)
    BY <1>1
  <2>. QED BY <1>2, <1>4, <2>1, Zenon
<1>6. BindsFirst(t)
  <2>1. ASSUME NEW i \in 1..Len(t), NEW j \in 1..Len(t), i < j,
               t[i].op \in {"noNewTask", "wait", "destroy"}, t[j].op = "bind"
        PROVE  ~NoRecreate(t, i, j)
    <3>1. /\ i + 1 \in 1..Len(s) /\ j + 1 \in 1..Len(s) /\ i + 1 < j + 1
          /\ t[i] = s[i + 1] /\ t[j] = s[j + 1]
      BY <1>1, <2>1
    <3>. QED BY <1>2, <2>1, <3>1, Zenon DEF BindsFirst
  <2>2. ASSUME NEW i \in 1..Len(t), NEW j \in 1..Len(t), NEW w \in Workers, i < j,
               Binds(t, i, w), Binds(t, j, w)
        PROVE  ~NoRecreate(t, i, j)
    <3>1. i + 1 \in 1..Len(s) /\ j + 1 \in 1..Len(s) /\ i + 1 < j + 1
      BY <1>1, <2>2
    <3>. QED BY <1>2, <1>3, <2>2, <3>1, Zenon DEF BindsFirst
  <2>3. ASSUME NEW k \in 1..Len(t), t[k].op = "recreate", NEW w \in TailWorkers
        PROVE  \E i \in (k + 1)..Len(t) : Binds(t, i, w) /\ NoRecreate(t, k + 1, i)
    <3>1. k + 1 \in 1..Len(s) /\ s[k + 1] = t[k]
      BY <1>1
    <3>2. PICK i \in ((k + 1) + 1)..Len(s) : Binds(s, i, w) /\ NoRecreate(s, (k + 1) + 1, i)
      BY <2>3, <3>1, Zenon DEF BindsFirst, BindsAll
    <3>3. /\ i - 1 \in (k + 1)..Len(t) /\ i - 1 \in 1..Len(t) /\ (i - 1) + 1 = i
          /\ k + 1 \in 1..Len(t)
      BY <1>1
    <3>. QED BY <1>2, <1>3, <3>2, <3>3, Zenon
  <2>. QED BY <2>1, <2>2, <2>3, Zenon DEF BindsFirst, BindsAll
<1>. DEFINE Left(w) == (h.op = "bind" /\ h.worker = w) \/ (h.op # "recreate" /\ w \in ToBind(t))
<1>7. \A w \in Workers : w \in ToBind(s) <=> Left(w)
  <2>. SUFFICES ASSUME NEW w \in Workers
                PROVE  w \in ToBind(s) <=> Left(w)
    OBVIOUS
  <2>1. ASSUME w \in ToBind(s) PROVE Left(w)
    <3>1. PICK i \in 1..Len(s) : Binds(s, i, w) /\ NoRecreate(s, 1, i)
      BY <2>1, Zenon DEF ToBind
    <3>2. CASE i = 1
      BY <1>1, <3>1, <3>2, Zenon DEF Binds
    <3>3. CASE i # 1
      <4>1. i - 1 \in 1..Len(t) /\ (i - 1) + 1 = i
        BY <1>1, <3>3
      <4>. QED BY <1>3, <1>5, <3>1, <4>1, Zenon DEF ToBind
    <3>. QED BY <3>2, <3>3
  <2>2. ASSUME h.op = "bind", h.worker = w PROVE w \in ToBind(s)
    <3>1. 1 \in 1..Len(s) /\ \A k \in 1..1 : k = 1
      BY <1>1
    <3>2. h.op # "recreate"
      BY <2>2
    <3>3. Binds(s, 1, w) /\ NoRecreate(s, 1, 1)
      BY <1>1, <2>2, <3>1, <3>2, Zenon DEF Binds, NoRecreate
    <3>. QED BY <3>1, <3>3, Zenon DEF ToBind
  <2>3. ASSUME h.op # "recreate", w \in ToBind(t) PROVE w \in ToBind(s)
    <3>1. PICK i \in 1..Len(t) : Binds(t, i, w) /\ NoRecreate(t, 1, i)
      BY <2>3, Zenon DEF ToBind
    <3>2. i + 1 \in 1..Len(s)
      BY <1>1
    <3>. QED BY <1>3, <1>5, <2>3, <3>1, <3>2, Zenon DEF ToBind
  <2>. QED BY <2>1, <2>2, <2>3, Zenon
<1>8. h.op = "bind" => h.worker \in Workers /\ h.worker \notin ToBind(t)
  <2>. SUFFICES ASSUME h.op = "bind" PROVE h.worker \in Workers /\ h.worker \notin ToBind(t)
    OBVIOUS
  <2>1. h \in Op
    BY <1>1
  <2>2. h.worker \in Workers
    BY <2>1 DEF Op
  <2>3. ASSUME h.worker \in ToBind(t) PROVE FALSE
    <3>1. PICK i \in 1..Len(t) : Binds(t, i, h.worker) /\ NoRecreate(t, 1, i)
      BY <2>3, Zenon DEF ToBind
    <3>2. 1 \in 1..Len(s) /\ i + 1 \in 1..Len(s) /\ 1 < i + 1
      BY <1>1
    <3>3. Binds(s, 1, h.worker) /\ Binds(s, i + 1, h.worker) /\ h.op # "recreate"
      BY <1>1, <1>3, <3>1, Zenon DEF Binds
    <3>. QED BY <1>5, <2>2, <3>1, <3>2, <3>3, Zenon DEF BindsFirst
  <2>. QED BY <2>2, <2>3, Zenon
<1>9. h.op = "recreate" => ToBind(s) = {} /\ TailWorkers \subseteq ToBind(t)
  <2>. SUFFICES ASSUME h.op = "recreate" PROVE ToBind(s) = {} /\ TailWorkers \subseteq ToBind(t)
    OBVIOUS
  <2>1. ToBind(s) \subseteq Workers /\ h.op # "bind"
    BY DEF ToBind
  <2>2. ToBind(s) = {}
    BY <1>7, <2>1, Zenon
  <2>3. ASSUME NEW w \in TailWorkers PROVE w \in ToBind(t)
    <3>1. 1 \in 1..Len(s)
      BY <1>1
    <3>2. PICK i \in (1 + 1)..Len(s) : Binds(s, i, w) /\ NoRecreate(s, 1 + 1, i)
      BY <1>1, <3>1, Zenon DEF BindsFirst, BindsAll
    <3>3. i - 1 \in 1..Len(t) /\ (i - 1) + 1 = i /\ 1 \in 1..Len(t)
      BY <1>1
    <3>4. w \in Workers
      BY ThreadPoolAssumption, Zenon
    <3>. QED BY <1>2, <1>3, <3>2, <3>3, <3>4, Zenon DEF ToBind
  <2>. QED BY <2>2, <2>3, Zenon
<1>10. h.op \in {"noNewTask", "wait", "destroy"} => ToBind(t) = {}
  <2>. SUFFICES ASSUME h.op \in {"noNewTask", "wait", "destroy"}, NEW w \in ToBind(t) PROVE FALSE
    BY Zenon
  <2>1. PICK i \in 1..Len(t) : Binds(t, i, w) /\ NoRecreate(t, 1, i)
    BY Zenon DEF ToBind
  <2>2. 1 \in 1..Len(s) /\ i + 1 \in 1..Len(s) /\ 1 < i + 1
    BY <1>1
  <2>3. s[i + 1].op = "bind" /\ h.op # "recreate"
    BY <1>3, <2>1, Zenon DEF Binds
  <2>4. NoRecreate(s, 1, i + 1) /\ s[1].op \in {"noNewTask", "wait", "destroy"}
    BY <1>1, <1>5, <2>1, <2>3, Zenon
  <2>. QED BY <2>2, <2>3, <2>4, Zenon DEF BindsFirst
<1>11. ToBind(s) \subseteq Workers /\ ToBind(t) \subseteq Workers
  BY DEF ToBind
<1>12. h.op = "bind" => ToBind(s) = ToBind(t) \cup {h.worker}
  <2>. SUFFICES ASSUME h.op = "bind" PROVE ToBind(s) = ToBind(t) \cup {h.worker}
    OBVIOUS
  <2>1. h.worker \in Workers /\ h.op # "recreate"
    BY <1>8
  <2>. QED BY <1>7, <1>11, <2>1, Zenon
<1>13. h.op \notin {"bind", "recreate"} => ToBind(t) = ToBind(s)
  BY <1>7, <1>11, Zenon
<1>. QED BY <1>6, <1>8, <1>9, <1>10, <1>12, <1>13, Zenon DEF h, t

(* Calls that bind nothing and start no thread leave what is left to bind. *)
LEMMA CallNext ==
  ASSUME NEW o, TypeOK, TailOrder, Calls(o)
  PROVE  /\ BindsFirst(script')
         /\ o = "bind" => /\ Head(script).worker \in Workers
                          /\ Head(script).worker \notin ToBind(script')
                          /\ ToBind(script) = ToBind(script') \cup {Head(script).worker}
         /\ o \notin {"bind", "recreate"} => ToBind(script') = ToBind(script)
         /\ o = "recreate" => ToBind(script) = {} /\ TailWorkers \subseteq ToBind(script')
         /\ o \in {"noNewTask", "wait", "destroy"} => ToBind(script') = {}
<1>1. script \in Seq(Op) /\ script # << >> /\ BindsFirst(script) /\ script' = Tail(script)
      /\ Head(script).op = o
  BY Zenon DEF TypeOK, TailOrder, Calls
<1>. QED BY <1>1, BindNext, Zenon

(* Sets of workers are finite. *)
LEMMA WorkersFinite ==
  ASSUME NEW S, S \subseteq TailWorkers
  PROVE  IsFiniteSet(S) /\ Cardinality(S) \in Nat
<1>1. IsFiniteSet(Workers) /\ S \subseteq Workers
  BY ThreadPoolAssumption, Zenon
<1>2. IsFiniteSet(S)
  BY <1>1, FS_Subset, Zenon
<1>. QED BY <1>2, FS_CardinalityType, Zenon

(* A step that binds nothing and lets no worker leave keeps the count. *)
LEMMA TailCountSame ==
  ASSUME TailCount, NumTailTasks' = NumTailTasks, ToBind(script') = ToBind(script),
         \A w \in Workers : pc'[w] = "exit" <=> pc[w] = "exit"
  PROVE  TailCount'
<1>1. TailWorkers \subseteq Workers
  BY ThreadPoolAssumption, Zenon
<1>2. TailDone' = TailDone
  BY <1>1, Zenon DEF TailDone
<1>. QED BY <1>2, Zenon DEF TailCount

(* setThreadContext counts the tail task it binds. *)
LEMMA BindCounts == ASSUME TypeOK, TailOrder, TailCount, SetThreadContext PROVE TailCount'
<1>. DEFINE w == Head(script).worker
            A == TailWorkers \ ToBind(script)
            B == TailWorkers \ ToBind(script')
<1>1. /\ w \in Workers /\ w \notin ToBind(script') /\ ToBind(script) = ToBind(script') \cup {w}
      /\ NumTailTasks' = NumTailTasks + (IF w \in TailWorkers THEN 1 ELSE 0)
      /\ TailDone' = TailDone
  <2>1. Calls("bind")
    BY Zenon DEF SetThreadContext
  <2>. QED BY <2>1, CallNext, Zenon DEF SetThreadContext, TailDone
<1>. HIDE DEF w
<1>2. /\ IsFiniteSet(A) /\ Cardinality(A) \in Nat /\ Cardinality(B) \in Nat
      /\ Cardinality(TailDone) \in Nat
  BY WorkersFinite, Zenon DEF TailDone
<1>3. NumTailTasks = Cardinality(A) - Cardinality(TailDone)
  BY Zenon DEF TailCount
<1>4. CASE w \in TailWorkers
  <2>1. B = A \cup {w} /\ w \notin A
    BY <1>1, <1>4, Zenon
  <2>2. Cardinality(B) = Cardinality(A) + 1
    <3>. HIDE DEF A, B
    <3>. QED BY <1>2, <2>1, FS_AddElement, Zenon
  <2>3. NumTailTasks' = NumTailTasks + 1
    BY <1>1, <1>4, Zenon
  <2>4. NumTailTasks' = Cardinality(B) - Cardinality(TailDone)
    <3>. HIDE DEF A, B
    <3>. QED BY <1>2, <1>3, <2>2, <2>3
  <2>. QED BY <1>1, <2>4, Zenon DEF TailCount
<1>5. CASE w \notin TailWorkers
  <2>1. B = A
    BY <1>1, <1>5, Zenon
  <2>2. NumTailTasks' = NumTailTasks
    <3>1. NumTailTasks' = NumTailTasks + 0 /\ NumTailTasks \in Int
      BY <1>1, <1>5, Zenon DEF TypeOK
    <3>. QED BY <3>1
  <2>. QED BY <1>1, <1>3, <2>1, <2>2, Zenon DEF TailCount
<1>. QED BY <1>4, <1>5, Zenon

(* A worker leaves after its tail task has been counted off. *)
LEMMA LeaveCounts ==
  ASSUME NEW w \in TailWorkers, TypeOK, TailCount, TailFinish(w)
  PROVE  TailCount'
<1>. DEFINE A == TailWorkers \ ToBind(script)
<1>1. /\ pc[w] = "tailFinish" /\ pc'[w] = "exit" /\ \A v \in Workers \ {w} : pc'[v] = pc[v]
      /\ NumTailTasks' = NumTailTasks - 1 /\ script' = script
  BY ThreadPoolAssumption DEF TailFinish, Goto, TypeOK, Threads
<1>2. TailDone' = TailDone \cup {w} /\ w \notin TailDone
  <2>1. TailWorkers \subseteq Workers /\ "tailFinish" # "exit"
    BY ThreadPoolAssumption
  <2>. QED BY <1>1, <2>1, Zenon DEF TailDone
<1>3. IsFiniteSet(TailDone) /\ Cardinality(TailDone) \in Nat /\ Cardinality(A) \in Nat
  BY WorkersFinite, Zenon DEF TailDone
<1>4. Cardinality(TailDone') = Cardinality(TailDone) + 1
  <2>. HIDE DEF A
  <2>. QED BY <1>2, <1>3, FS_AddElement, Zenon
<1>5. NumTailTasks = Cardinality(A) - Cardinality(TailDone)
  BY Zenon DEF TailCount
<1>6. NumTailTasks' = Cardinality(A) - Cardinality(TailDone')
  <2>. HIDE DEF A
  <2>. QED BY <1>1, <1>3, <1>4, <1>5
<1>. QED BY <1>1, <1>6, Zenon DEF TailCount

LeavePcs == {"tail", "tailFinish", "exit"}

(* Steps that move no worker towards its end. *)
LEMMA TailOrderSame ==
  ASSUME TailOrder, BindsFirst(script'), UNCHANGED tailed,
         ToBind(script) = {} => ToBind(script') = {},
         NoNewTask' \/ ~Running' \/ pc'[Main] \in WaitPcs
           => NoNewTask \/ ~Running \/ pc[Main] \in WaitPcs \/ ToBind(script') = {},
         NoNewTask \/ ~Running => NoNewTask' \/ ~Running',
         \A w \in Workers : pc'[w] \in LeavePcs => pc'[w] = pc[w]
  PROVE  TailOrder'
<1>1. TailWorkers \subseteq Workers
  BY ThreadPoolAssumption, Zenon
<1>2. NoNewTask' \/ ~Running' \/ pc'[Main] \in WaitPcs => ToBind(script') = {}
  BY Zenon DEF TailOrder
<1>3. \A w \in Workers : pc'[w] \in LeavePcs => NoNewTask' \/ ~Running'
  BY Zenon DEF TailOrder, LeavePcs
<1>4. \A w \in Workers : pc'[w] \in {"tailFinish", "exit"} => pc'[w] = pc[w]
  BY Zenon DEF LeavePcs
<1>5. \A w \in TailWorkers : pc'[w] \in {"tailFinish", "exit"} => w \in tailed'
  BY <1>1, <1>4, Zenon DEF TailOrder
<1>6. \A w \in Workers : pc'[w] = "tailFinish" => w \in TailWorkers
  BY <1>4, Zenon DEF TailOrder
<1>. QED BY <1>2, <1>3, <1>5, <1>6, Zenon DEF TailOrder, LeavePcs

(* Every step of the owner keeps the order and the count. *)
LEMMA TailMainStep ==
  ASSUME TypeOK, Joined, TailOrder, TailCount, MainStep
  PROVE  TailOrder' /\ TailCount'
<1>. USE ThreadPoolAssumption DEF Threads
<1>0. pc \in [Threads -> MainPcs \cup WorkerPcs]
  BY DEF TypeOK
<1>1. CASE CreateThreads
  <2>1. Calls("recreate") /\ ~Running /\ pc[Main] = "ready"
    BY <1>1, Zenon DEF CreateThreads, Calls
  <2>2. BindsFirst(script') /\ ToBind(script) = {} /\ TailWorkers \subseteq ToBind(script')
    BY <2>1, CallNext, Zenon
  <2>3. /\ NoNewTask' = FALSE /\ Running' = TRUE /\ pc'[Main] = "ready"
        /\ NumTailTasks' = NumTailTasks /\ \A w \in Workers : pc'[w] = "loop"
    BY <1>1 DEF CreateThreads
  <2>4. TailOrder'
    <3>1. /\ ~NoNewTask' /\ Running' /\ pc'[Main] \notin WaitPcs
          /\ \A w \in Workers : pc'[w] \notin {"tail", "tailFinish", "exit"}
      BY <2>3 DEF WaitPcs
    <3>2. \A w \in Workers : pc'[w] \notin {"tailFinish", "exit"} /\ pc'[w] # "tailFinish"
      BY <3>1
    <3>. QED BY <2>2, <3>1, <3>2, Zenon DEF TailOrder
  <2>5. TailDone = TailWorkers /\ TailDone' = {} /\ TailWorkers \ ToBind(script') = {}
    <3>1. \A w \in Workers : pc[w] = "exit"
      BY <2>1 DEF Joined
    <3>2. \A w \in Workers : pc'[w] # "exit"
      BY <2>3
    <3>. QED BY <2>2, <3>1, <3>2, Zenon DEF TailDone
  <2>6. NumTailTasks = Cardinality(TailWorkers) - Cardinality(TailWorkers)
    <3>1. TailWorkers \ ToBind(script) = TailWorkers
      BY <2>2, Zenon
    <3>. QED BY <2>5, <3>1, Zenon DEF TailCount
  <2>7. Cardinality(TailWorkers) \in Nat /\ Cardinality({}) = 0
    BY WorkersFinite, FS_EmptySet, Zenon
  <2>8. NumTailTasks' = Cardinality({}) - Cardinality({})
    BY <2>3, <2>6, <2>7
  <2>. QED BY <2>4, <2>5, <2>8, Zenon DEF TailCount
<1>2. ASSUME ~CreateThreads PROVE \A w \in Workers : pc'[w] = pc[w]
  <2>1. CASE MainPush \/ PushCount(Main) \/ PushNotify(Main) \/ WaitStart \/ WaitLock
    BY <1>0, <2>1, Zenon DEF MainPush, PushTask, PushCount, PushNotify, WaitStart, WaitLock, Goto
  <2>2. CASE DonePred \/ TailPred \/ WaitPark \/ DestroyNotify \/ DestroyJoin
    BY <1>0, <2>2 DEF DonePred, TailPred, WaitPark, DestroyNotify, DestroyJoin, Goto
  <2>3. CASE SetThreadContext \/ SetNoNewTask \/ DestroyStart
    BY <1>0, <2>3, Zenon DEF SetThreadContext, SetNoNewTask, DestroyStart, Goto
  <2>. QED BY <1>2, <2>1, <2>2, <2>3, Zenon DEF MainStep
<1>3. ASSUME ~CreateThreads, UNCHANGED tailed, NumTailTasks' = NumTailTasks,
             BindsFirst(script'), ToBind(script') = ToBind(script),
             NoNewTask' \/ ~Running' \/ pc'[Main] \in WaitPcs
               => NoNewTask \/ ~Running \/ pc[Main] \in WaitPcs \/ ToBind(script') = {},
             NoNewTask \/ ~Running => NoNewTask' \/ ~Running'
      PROVE  TailOrder' /\ TailCount'
  <2>1. \A w \in Workers : pc'[w] = pc[w]
    BY <1>2, <1>3, Zenon
  <2>. QED BY <1>3, <2>1, TailOrderSame, TailCountSame, Zenon
<1>4. CASE MainPush
  <2>1. Calls("push")
    BY <1>4, Zenon DEF MainPush
  <2>2. BindsFirst(script') /\ ToBind(script') = ToBind(script)
    BY <2>1, CallNext
  <2>3. /\ UNCHANGED <<tailed, NumTailTasks, NoNewTask, Running>> /\ pc[Main] = "ready"
        /\ pc'[Main] = "count"
    BY <1>0, <1>4 DEF MainPush, PushTask, Calls, Goto, flags, tails
  <2>4. pc'[Main] \notin WaitPcs /\ ~CreateThreads
    BY <2>3 DEF WaitPcs, CreateThreads
  <2>. QED BY <1>3, <2>2, <2>3, <2>4, Zenon
<1>5. CASE SetNoNewTask \/ WaitStart \/ DestroyStart
  <2>1. PICK o \in {"noNewTask", "wait", "destroy"} : Calls(o)
    BY <1>5, Zenon DEF SetNoNewTask, WaitStart, DestroyStart
  <2>2. BindsFirst(script') /\ ToBind(script') = ToBind(script) /\ ToBind(script') = {}
    BY <2>1, CallNext
  <2>3. /\ UNCHANGED <<tailed, NumTailTasks>> /\ (NoNewTask => NoNewTask') /\ (~Running => ~Running')
        /\ ~CreateThreads
    <3>1. Head(script).op # "recreate"
      BY <2>1, Zenon DEF Calls
    <3>2. ~CreateThreads
      BY <3>1, Zenon DEF CreateThreads, Calls
    <3>3. CASE SetNoNewTask
      BY <3>2, <3>3 DEF SetNoNewTask, tails
    <3>4. CASE WaitStart
      BY <3>2, <3>4 DEF WaitStart, tails, flags
    <3>5. CASE DestroyStart
      BY <3>2, <3>5 DEF DestroyStart, tails
    <3>. QED BY <1>5, <3>3, <3>4, <3>5, Zenon
  <2>. QED BY <1>3, <2>2, <2>3, Zenon
<1>6. CASE SetThreadContext
  <2>1. Calls("bind")
    BY <1>6, Zenon DEF SetThreadContext
  <2>2. BindsFirst(script') /\ ToBind(script') \subseteq ToBind(script)
    BY <2>1, CallNext
  <2>3. TailOrder'
    <3>1. UNCHANGED <<NoNewTask, Running, tailed, pc>>
      BY <1>6, Zenon DEF SetThreadContext, flags
    <3>2. ToBind(script) = {} => ToBind(script') = {}
      BY <2>2, Zenon
    <3>. QED BY <2>2, <3>1, <3>2, TailOrderSame, Zenon
  <2>. QED BY <1>6, <2>3, BindCounts, Zenon
<1>7. CASE \/ PushCount(Main) \/ PushNotify(Main) \/ WaitLock \/ DonePred \/ TailPred \/ WaitPark
           \/ DestroyNotify \/ DestroyJoin
  <2>1. script' = script /\ UNCHANGED <<tailed, NumTailTasks, NoNewTask, Running>>
    BY <1>7, Zenon DEF PushCount, PushNotify, WaitLock, DonePred, TailPred, WaitPark,
       DestroyNotify, DestroyJoin, flags, tails
  <2>2. pc'[Main] \in WaitPcs => pc[Main] \in WaitPcs
    BY <1>0, <1>7, Zenon DEF PushCount, PushNotify, WaitLock, DonePred, TailPred, WaitPark, DestroyNotify,
       DestroyJoin, Goto, WaitPcs
  <2>3. ~CreateThreads
    <3>1. pc[Main] # "ready"
      BY <1>7, Zenon DEF PushCount, PushNotify, WaitLock, DonePred, TailPred, WaitPark, DestroyNotify,
         DestroyJoin
    <3>. QED BY <3>1, Zenon DEF CreateThreads, Calls
  <2>4. BindsFirst(script)
    BY Zenon DEF TailOrder
  <2>. QED BY <1>3, <2>1, <2>2, <2>3, <2>4, Zenon
<1>. QED BY <1>1, <1>4, <1>5, <1>6, <1>7, Zenon DEF MainStep

(* Every step of a worker keeps the order and the count. *)
LEMMA TailWorkerStep ==
  ASSUME TypeOK, TailOrder, TailCount, NEW w \in Workers, WorkerStep(w)
  PROVE  TailOrder' /\ TailCount'
<1>. USE ThreadPoolAssumption DEF Threads
<1>0. pc \in [Threads -> MainPcs \cup WorkerPcs] /\ Main # w
  BY DEF TypeOK
<1>1. /\ script' = script /\ NoNewTask' = NoNewTask /\ Running' = Running /\ BindsFirst(script)
      /\ \A t \in Threads \ {w} : pc'[t] = pc[t]
  <2>1. script' = script /\ NoNewTask' = NoNewTask /\ Running' = Running
    BY Zenon DEF WorkerStep, Loop, Lock, Pred, Park, Take, TakeNothing, Run, WorkerPush, PushTask,
       PushCount, PushNotify, Finish, RunTail, TailFinish, flags
  <2>2. \E l : Goto(w, l)
    BY Zenon DEF WorkerStep, Loop, Lock, Pred, Park, Take, TakeNothing, Run, WorkerPush, PushTask,
       PushCount, PushNotify, Finish, RunTail, TailFinish
  <2>3. \A t \in Threads \ {w} : pc'[t] = pc[t]
    BY <1>0, <2>2 DEF Goto
  <2>. QED BY <2>1, <2>3, Zenon DEF TailOrder
<1>2. Main \in Threads \ {w} /\ \A v \in Workers : v # w => v \in Threads \ {w}
  BY <1>0
<1>3. CASE pc'[w] \notin LeavePcs
  <2>1. UNCHANGED <<tailed, NumTailTasks>> /\ pc[w] # "exit"
    <3>1. ~RunTail(w) /\ ~TailFinish(w)
      BY <1>0, <1>3 DEF RunTail, TailFinish, Goto, LeavePcs
    <3>2. UNCHANGED <<tailed, NumTailTasks>>
      BY <3>1, Zenon DEF WorkerStep, Loop, Lock, Pred, Park, Take, TakeNothing, Run, WorkerPush,
         PushTask, PushCount, PushNotify, Finish, tails
    <3>3. pc[w] # "exit"
      BY Zenon DEF WorkerStep, Loop, Lock, Pred, Park, Take, TakeNothing, Run, WorkerPush,
         PushCount, PushNotify, Finish, RunTail, TailFinish
    <3>. QED BY <3>2, <3>3, Zenon
  <2>2. \A v \in Workers : pc'[v] \in LeavePcs => pc'[v] = pc[v]
    BY <1>1, <1>2, <1>3, Zenon
  <2>3. pc'[w] # "exit"
    BY <1>3 DEF LeavePcs
  <2>4. \A v \in Workers : pc'[v] = "exit" <=> pc[v] = "exit"
    BY <1>1, <1>2, <2>1, <2>3, Zenon
  <2>5. pc'[Main] = pc[Main]
    BY <1>1, <1>2, Zenon
  <2>. QED BY <1>1, <2>1, <2>2, <2>4, <2>5, TailOrderSame, TailCountSame, Zenon
<1>4. CASE pc'[w] \in LeavePcs
  <2>1. \/ /\ pc'[w] = "tail" /\ pc[w] \in {"loop", "lock"} /\ (NoNewTask \/ ~Running)
           /\ tailed' = tailed /\ NumTailTasks' = NumTailTasks
        \/ /\ pc'[w] = "tailFinish" /\ pc[w] = "tail" /\ w \in TailWorkers
           /\ tailed' = tailed \cup {w} /\ NumTailTasks' = NumTailTasks
        \/ /\ pc'[w] = "exit" /\ pc[w] = "tail" /\ w \notin TailWorkers
           /\ tailed' = tailed /\ NumTailTasks' = NumTailTasks
        \/ /\ pc'[w] = "exit" /\ pc[w] = "tailFinish" /\ TailFinish(w) /\ tailed' = tailed
    <3>1. CASE Loop(w) \/ Lock(w)
      BY <1>0, <1>4, <3>1, Zenon DEF Loop, Lock, Goto, LeavePcs, tails
    <3>2. CASE RunTail(w) \/ TailFinish(w)
      BY <1>0, <1>4, <3>2 DEF RunTail, TailFinish, Goto
    <3>3. CASE Pred(w) \/ Park(w) \/ Take(w) \/ TakeNothing(w) \/ Run(w)
      BY <1>0, <1>4, <3>3 DEF Pred, Park, Take, TakeNothing, Run, Goto, LeavePcs
    <3>4. CASE WorkerPush(w) \/ PushCount(w) \/ PushNotify(w) \/ Finish(w)
      BY <1>0, <1>4, <3>4, Zenon DEF WorkerPush, PushTask, PushCount, PushNotify, Finish, Goto, LeavePcs
    <3>. QED BY <3>1, <3>2, <3>3, <3>4, Zenon DEF WorkerStep
  <2>2. TailOrder'
    <3>1. NoNewTask' \/ ~Running'
      BY <1>1, <2>1, Zenon DEF TailOrder
    <3>2. NoNewTask' \/ ~Running' \/ pc'[Main] \in WaitPcs => ToBind(script') = {}
      BY <1>1, <1>2, <3>1, Zenon DEF TailOrder
    <3>3. \A v \in TailWorkers : pc'[v] \in {"tailFinish", "exit"} => v \in tailed'
      <4>. SUFFICES ASSUME NEW v \in TailWorkers, pc'[v] \in {"tailFinish", "exit"} PROVE v \in tailed'
        OBVIOUS
      <4>1. CASE v = w
        BY <2>1, <4>1, Zenon DEF TailOrder
      <4>2. CASE v # w
        <5>1. v \in Workers /\ pc'[v] = pc[v]
          BY <1>1, <1>2, <4>2
        <5>. QED BY <2>1, <5>1, Zenon DEF TailOrder
      <4>. QED BY <4>1, <4>2
    <3>4. \A v \in Workers : pc'[v] = "tailFinish" => v \in TailWorkers
      <4>1. pc'[w] = "tailFinish" => w \in TailWorkers
        BY <2>1
      <4>. QED BY <1>1, <1>2, <4>1, Zenon DEF TailOrder
    <3>. QED BY <1>1, <3>1, <3>2, <3>3, <3>4, Zenon DEF TailOrder
  <2>3. TailCount'
    <3>1. CASE TailFinish(w)
      <4>1. w \in TailWorkers
        BY <3>1, Zenon DEF TailOrder, TailFinish
      <4>. QED BY <3>1, <4>1, LeaveCounts, Zenon
    <3>2. CASE ~TailFinish(w)
      <4>1. NumTailTasks' = NumTailTasks
        BY <2>1, <3>2, Zenon
      <4>2. \A v \in TailWorkers : pc'[v] = "exit" <=> pc[v] = "exit"
        <5>1. w \in TailWorkers => pc'[w] # "exit" /\ pc[w] # "exit"
          BY <2>1, <3>2
        <5>2. \A v \in TailWorkers : v # w => pc'[v] = pc[v]
          BY <1>1, <1>2, Zenon
        <5>. QED BY <5>1, <5>2, Zenon
      <4>3. TailDone' = TailDone
        BY <4>2, Zenon DEF TailDone
      <4>. QED BY <1>1, <4>1, <4>3, Zenon DEF TailCount
    <3>. QED BY <3>1, <3>2, Zenon
  <2>. QED BY <2>2, <2>3, Zenon
<1>. QED BY <1>3, <1>4, Zenon

(* For owners that bind first, waitForTasks returns only when the tail task *)
(* of every worker has run: the count of tail tasks that the second wait    *)
(* reads is never short of one that is still to run.                        *)
THEOREM EagerEmits ==
  ASSUME \A s \in Scripts : EagerScript(s)
  PROVE  Spec => WaitMeansEmitted
<1>. DEFINE TailInv == TypeOK /\ InHandOK /\ Joined /\ TailOrder /\ TailCount
<1>1. Init => TailInv
  <2>. SUFFICES ASSUME Init PROVE TailInv
    OBVIOUS
  <2>1. TypeOK /\ InHandOK /\ Joined /\ EagerScript(script)
    BY TypeInit, InHandInit DEF Init
  <2>2. TailWorkers \subseteq ToBind(script) /\ TailWorkers \subseteq Workers
    <3>1. TailWorkers \subseteq Workers
      BY ThreadPoolAssumption, Zenon
    <3>2. 0 + 1 = 1
      OBVIOUS
    <3>. QED BY <2>1, <3>1, <3>2, Zenon DEF EagerScript, BindsAll, ToBind
  <2>3. /\ ~NoNewTask /\ Running /\ pc[Main] \notin WaitPcs
        /\ \A w \in Workers : pc[w] = "loop" /\ pc[w] \notin {"tail", "tailFinish", "exit"}
        /\ NumTailTasks = 0
    BY ThreadPoolAssumption DEF Init, WaitPcs, Threads
  <2>4. TailOrder
    <3>1. \A w \in Workers : pc[w] \notin {"tailFinish", "exit"} /\ pc[w] # "tailFinish"
      BY <2>3
    <3>. QED BY <2>1, <2>2, <2>3, <3>1, Zenon DEF TailOrder, EagerScript
  <2>5. TailDone = {} /\ TailWorkers \ ToBind(script) = {}
    <3>1. \A w \in Workers : pc[w] # "exit"
      BY <2>3
    <3>. QED BY <2>2, <3>1, Zenon DEF TailDone
  <2>6. NumTailTasks = Cardinality({}) - Cardinality({})
    BY <2>3, FS_EmptySet
  <2>. QED BY <2>1, <2>4, <2>5, <2>6, Zenon DEF TailCount
<1>2. TailInv /\ [Next]_vars => TailInv'
  <2>. SUFFICES ASSUME TailInv, [Next]_vars PROVE TailInv'
    OBVIOUS
  <2>1. TypeOK' /\ InHandOK' /\ Joined'
    BY TypeStep, InHandStep, JoinedStep, Zenon
  <2>2. CASE SpuriousWakeup \/ UNCHANGED vars
    <3>1. UNCHANGED <<script, NoNewTask, Running, tailed, NumTailTasks, pc>>
      BY <2>2, Zenon DEF SpuriousWakeup, vars, flags, tails
    <3>2. TailOrder' /\ TailCount'
      BY <3>1, Zenon DEF TailOrder, TailCount, TailDone
    <3>. QED BY <2>1, <3>2, Zenon
  <2>3. TailOrder' /\ TailCount'
    BY <2>2, TailMainStep, TailWorkerStep, Zenon DEF Next
  <2>. QED BY <2>1, <2>3, Zenon
<1>3. TailInv /\ [Next]_vars =>
        [pc[Main] = "tailPred" /\ pc'[Main] = "ready" => TailWorkers \cap bound \subseteq tailed]_vars
  <2>. SUFFICES ASSUME TailInv, Next, pc[Main] = "tailPred", pc'[Main] = "ready"
                PROVE  TailWorkers \subseteq tailed
    BY Zenon
  <2>1. TailPred
    <3>1. ~CreateThreads
      BY DEF CreateThreads, Calls
    <3>2. ASSUME NEW w \in Workers, WorkerStep(w) PROVE pc'[Main] = pc[Main]
      <4>1. \E l : Goto(w, l)
        BY <3>2, Zenon DEF WorkerStep, Loop, Lock, Pred, Park, Take, TakeNothing, Run, WorkerPush,
           PushTask, PushCount, PushNotify, Finish, RunTail, TailFinish
      <4>. QED BY <4>1, ThreadPoolAssumption DEF Goto, TypeOK, Threads
    <3>3. ~SpuriousWakeup
      BY DEF SpuriousWakeup
    <3>4. MainStep
      BY <3>2, <3>3 DEF Next
    <3>. QED BY <3>4, Zenon DEF MainStep, MainPush, PushCount, PushNotify, SetThreadContext,
         SetNoNewTask, WaitStart, WaitLock, DonePred, WaitPark, DestroyStart, DestroyNotify,
         DestroyJoin, CreateThreads, Calls
  <2>2. NumTailTasks = 0
    BY <2>1, ThreadPoolAssumption DEF TailPred, Goto, TypeOK, Threads
  <2>3. ToBind(script) = {}
    BY DEF TailOrder, WaitPcs
  <2>4. Cardinality(TailDone) = Cardinality(TailWorkers)
    <3>1. TailWorkers \ ToBind(script) = TailWorkers /\ TailDone \subseteq TailWorkers
      BY <2>3, Zenon DEF TailDone
    <3>2. Cardinality(TailDone) \in Nat /\ Cardinality(TailWorkers) \in Nat
      BY <3>1, WorkersFinite, Zenon
    <3>3. NumTailTasks = Cardinality(TailWorkers) - Cardinality(TailDone)
      BY <3>1, Zenon DEF TailCount
    <3>. QED BY <2>2, <3>2, <3>3
  <2>5. TailDone = TailWorkers
    <3>1. TailDone \subseteq TailWorkers /\ IsFiniteSet(TailWorkers)
      BY WorkersFinite, Zenon DEF TailDone
    <3>. QED BY <2>4, <3>1, FS_Subset, Zenon
  <2>6. \A w \in TailWorkers : pc[w] \in {"tailFinish", "exit"}
    BY <2>5 DEF TailDone
  <2>. QED BY <2>6, Zenon DEF TailOrder
<1>. QED BY <1>1, <1>2, <1>3, PTL DEF Spec, WaitMeansEmitted
=============================================================================

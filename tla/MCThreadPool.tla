----------------------------- MODULE MCThreadPool -----------------------------
(* Instances of ThreadPool: the call sequences of the two compilers. *)
EXTENDS ThreadPool

CONSTANTS w1, w2, a, b, c, d

TwoWorkers == {w1, w2}
AllTasks == {a, b, c, d}

Push(t) == [op |-> "push", task |-> t]
Bind(w) == [op |-> "bind", worker |-> w]
Do(o)   == [op |-> o]

(* a is the lazy compiler's dispatch task: it pushes compilation tasks.     *)
DispatchSpawn == [t \in AllTasks |-> IF t = a THEN <<b, c>> ELSE << >>]

BindAll == <<Bind(w1), Bind(w2)>>
Destructor == <<Do("wait"), Do("destroy")>>

(* EagerJITCompiler::compile: push, setNoNewTask, waitForTasks, and then    *)
(* the destructor, with one to three functions.                             *)
EagerScripts ==
  {BindAll \o p \o <<Do("noNewTask"), Do("wait")>> \o Destructor :
     p \in {<<Push(b)>>, <<Push(b), Push(c)>>, <<Push(b), Push(c), Push(d)>>}}

(* reset() between two rounds of work, the contexts being bound again.      *)
ResetScripts ==
  {BindAll \o <<Push(b), Do("noNewTask")>> \o Destructor \o <<Do("recreate")>>
     \o BindAll \o <<Push(c), Push(d), Do("noNewTask")>> \o Destructor}

(* A lazy module that stays loaded: its pool is never stopped.              *)
LoadedScripts == {BindAll \o <<Push(a)>>}

CompilerScripts == EagerScripts \cup ResetScripts \cup LoadedScripts

(* LazyJITCompiler: one push, then interrupt() at any later time, then the  *)
(* pool's own destructor.                                                   *)
InterruptScripts == {BindAll \o <<Push(b), Do("destroy")>> \o Destructor}
=============================================================================

---------------------------- MODULE LazyJITProofs ----------------------------
(***************************************************************************)
(* What holds of LazyJIT for any module, any number of functions and any   *)
(* number of background workers: with one thread running guest code,       *)
(* guest code only enters finished code of the function it calls and no    *)
(* thread compiles a function twice; and the dispatch is exact.            *)
(***************************************************************************)
EXTENDS LazyJIT, WellFoundedInduction, TLAPS

(* A non-empty set of numbers has a least one. *)
LEMMA LeastNat ==
  ASSUME NEW T \in SUBSET Nat, T # {}
  PROVE  \E x \in T : \A y \in T : x <= y
<1>1. PICK x \in T : \A y \in T : ~ (<<y, x>> \in OpToRel(<, Nat))
  <2> HIDE DEF OpToRel
  <2> QED BY WFMin, NatLessThanWellFounded
<1>2. \A y \in T : y < x => <<y, x>> \in OpToRel(<, Nat)
  BY DEF OpToRel
<1>3. \A y \in T : ~ (y < x)
  BY <1>1, <1>2, Zenon
<1>4. \A y \in T : x <= y
  BY <1>3, SMT
<1> QED BY <1>4, Zenon

(* The last element of a list and the rest make up its elements. *)
LEMMA LastFront ==
  ASSUME NEW S, NEW s \in Seq(S), s # << >>
  PROVE  /\ Last(s) \in S /\ Front(s) \in Seq(S)
         /\ Elems(s) = Elems(Front(s)) \cup {Last(s)}
<1> DEFINE n == Len(s)
<1>1. n \in Nat \ {0} /\ DOMAIN s = 1..n /\ \A i \in 1..n : s[i] \in S
  OBVIOUS
<1>2. Front(s) = [i \in 1..(n - 1) |-> s[i]]
  BY <1>1 DEF Front
<1>3. Front(s) \in Seq(S)
  BY <1>1, <1>2
<1> HIDE DEF n
<1>4. DOMAIN s = (1..(n - 1)) \cup {n}
  BY <1>1
<1>5. Last(s) = s[n] /\ n \in 1..n
  BY <1>1 DEF Last, n
<1>6. DOMAIN Front(s) = 1..(n - 1) /\ \A i \in 1..(n - 1) : Front(s)[i] = s[i]
  BY <1>2, Zenon
<1>7. Elems(s) = Elems(Front(s)) \cup {Last(s)}
  BY <1>4, <1>5, <1>6, Zenon DEF Elems
<1> QED BY <1>1, <1>3, <1>5, <1>7

(* The elements of a list with one appended. *)
LEMMA AppendElems ==
  ASSUME NEW S, NEW s \in Seq(S), NEW x \in S
  PROVE  Append(s, x) \in Seq(S) /\ Elems(Append(s, x)) = Elems(s) \cup {x}
<1>1. /\ DOMAIN Append(s, x) = DOMAIN s \cup {Len(s) + 1}
      /\ \A i \in DOMAIN s : Append(s, x)[i] = s[i]
      /\ Append(s, x)[Len(s) + 1] = x
  OBVIOUS
<1>2. Append(s, x) \in Seq(S)
  OBVIOUS
<1>3. Elems(Append(s, x)) = Elems(s) \cup {x}
  BY <1>1, Zenon DEF Elems
<1> QED BY <1>2, <1>3

(* Removing a task from the queue loses no other task. *)
LEMMA WithoutFirstElems ==
  ASSUME NEW S, NEW s \in Seq(S), NEW f
  PROVE  /\ WithoutFirst(s, f) \in Seq(S)
         /\ Elems(WithoutFirst(s, f)) \subseteq Elems(s)
         /\ Elems(s) \subseteq Elems(WithoutFirst(s, f)) \cup {f}
<1>1. CASE f \notin Elems(s)
  BY <1>1, Zenon DEF WithoutFirst
<1>2. CASE f \in Elems(s)
  <2> DEFINE P(k) == s[k] = f /\ \A j \in 1..(k - 1) : s[j] # f
             n == Len(s)
             k == CHOOSE k \in DOMAIN s : P(k)
             r == [i \in 1..(n - 1) |-> IF i < k THEN s[i] ELSE s[i + 1]]
             T == {i \in DOMAIN s : s[i] = f}
  <2>1. DOMAIN s = 1..n /\ n \in Nat /\ \A i \in 1..n : s[i] \in S
    OBVIOUS
  <2>2. WithoutFirst(s, f) = r
    BY <1>2, Zenon DEF WithoutFirst
  <2> HIDE DEF n
  <2>3. T \in SUBSET Nat /\ T # {}
    BY <1>2, <2>1 DEF Elems
  <2>4. PICK m \in T : \A j \in T : m <= j
    <3> HIDE DEF T
    <3> QED BY <2>3, LeastNat
  <2>5. m \in 1..n /\ s[m] = f /\ \A j \in 1..(m - 1) : s[j] # f
    BY <2>1, <2>4
  <2>6. \E i \in DOMAIN s : P(i)
    BY <2>1, <2>5, Zenon
  <2>7. k \in DOMAIN s /\ P(k)
    <3> HIDE DEF P
    <3> QED BY <2>6, Zenon
  <2> HIDE DEF k
  <2>8. k \in 1..n /\ s[k] = f
    BY <2>1, <2>7
  <2>9. \A i \in 1..(n - 1) :
          r[i] = (IF i < k THEN s[i] ELSE s[i + 1]) /\ i \in 1..n /\ i + 1 \in 1..n
    BY <2>1
  <2>10. r \in Seq(S)
    BY <2>1
  <2>11. DOMAIN r = 1..(n - 1)
    OBVIOUS
  <2> HIDE DEF r
  <2>12. Elems(r) \subseteq Elems(s)
    BY <2>1, <2>9, <2>11, Zenon DEF Elems
  <2>13. ASSUME NEW i \in 1..n PROVE s[i] = f \/ \E j \in 1..(n - 1) : r[j] = s[i]
    <3>1. CASE i < k
      <4>1. i \in 1..(n - 1)
        BY <3>1, <2>1, <2>8
      <4>2. r[i] = s[i]
        BY <3>1, <4>1, <2>9
      <4> QED BY <4>1, <4>2
    <3>2. CASE i = k
      BY <3>2, <2>8
    <3>3. CASE i > k
      <4>1. i - 1 \in 1..(n - 1) /\ ~(i - 1 < k) /\ (i - 1) + 1 = i
        BY <3>3, <2>1, <2>8
      <4>2. r[i - 1] = s[i]
        BY <4>1, <2>9
      <4> QED BY <4>1, <4>2
    <3> QED BY <3>1, <3>2, <3>3, <2>1, <2>8
  <2>14. Elems(s) \subseteq Elems(r) \cup {f}
    BY <2>1, <2>11, <2>13, Zenon DEF Elems
  <2> QED BY <2>2, <2>10, <2>12, <2>14
<1> QED BY <1>1, <1>2

-----------------------------------------------------------------------------
(* Every thread is in its own code and                                     *)
(* has a function exactly while it handles one.                            *)
Places ==
  /\ \A w \in Workers : pc[w] \in WorkerPcs
  /\ \A c \in Callers : pc[c] \in CallerPcs
  /\ \A t \in Threads : job[t] = None <=> pc[t] \in {"idle", "dispatch", "guest"}

(* The lists the dispatching search works on hold functions. *)
LEMMA SearchTypes ==
  ASSUME TypeOK
  PROVE  /\ mod.start \in Funcs \cup {None} /\ mod.exported \in Seq(Funcs)
         /\ mod.calls \in [Funcs -> Seq(Funcs)]
         /\ EntryStack \in Seq(Funcs)
         /\ Stack # << >> => Last(Stack) \in Funcs /\ Front(Stack) \in Seq(Funcs)
         /\ Callees # << >> => Last(Callees) \in Funcs /\ Front(Callees) \in Seq(Funcs)
<1>1. mod \in ModuleType
  BY LazyJITAssumption DEF TypeOK
<1>2. /\ mod.start \in Funcs \cup {None} /\ mod.exported \in Seq(Funcs)
      /\ mod.calls \in [Funcs -> Seq(Funcs)]
  BY <1>1 DEF ModuleType
<1>3. EntryStack \in Seq(Funcs)
  <2>1. WithoutFirst(mod.exported, mod.start) \in Seq(Funcs)
    BY <1>2, WithoutFirstElems
  <2>2. CASE mod.start = None
    BY <2>2, <1>2 DEF EntryStack
  <2>3. CASE mod.start # None
    <3>1. mod.start \in Funcs
      BY <2>3, <1>2
    <3> QED BY <2>1, <2>3, <3>1, AppendElems DEF EntryStack
  <2> QED BY <2>2, <2>3
<1>4. Stack # << >> => Last(Stack) \in Funcs /\ Front(Stack) \in Seq(Funcs)
  BY LastFront DEF TypeOK
<1>5. Callees # << >> => Last(Callees) \in Funcs /\ Front(Callees) \in Seq(Funcs)
  BY LastFront DEF TypeOK
<1> QED BY <1>2, <1>3, <1>4, <1>5

(* The pool's queue holds tasks whatever the pool does. *)
LEMMA PoolTypes ==
  ASSUME TypeOK
  PROVE  /\ \A task \in TaskIds : Pool!Push(task) =>
              Tasks' \in Seq(TaskIds) /\ cur' \in [Workers -> TaskIds \cup {None}]
         /\ \A w \in Workers : Pool!Take(w) =>
              /\ Tasks' \in Seq(TaskIds) /\ cur' \in [Workers -> TaskIds \cup {None}]
              /\ Head(Tasks) \in TaskIds
         /\ \A w \in Workers : Pool!Finish(w) =>
              Tasks' \in Seq(TaskIds) /\ cur' \in [Workers -> TaskIds \cup {None}]
<1>1. Tasks \in Seq(TaskIds) /\ cur \in [Workers -> TaskIds \cup {None}]
  BY DEF TypeOK
<1> HIDE DEF TaskIds
<1>2. \A task \in TaskIds : Append(Tasks, task) \in Seq(TaskIds)
  BY <1>1
<1>3. Tasks # << >> => Head(Tasks) \in TaskIds /\ Tail(Tasks) \in Seq(TaskIds)
  BY <1>1
<1> QED BY <1>1, <1>2, <1>3, Zenon DEF Pool!Push, Pool!Take, Pool!Finish

Idle == {"idle", "dispatch", "guest"}
Located == Places /\ pc \in [Threads -> WorkerPcs \cup CallerPcs]
                  /\ job \in [Threads -> Funcs \cup {None}]

(* A jump to a place of the thread's own code, with or without a function. *)
LEMMA Moves ==
  ASSUME Located, NEW t \in Threads, NEW l,
         t \in Workers => l \in WorkerPcs, t \in Callers => l \in CallerPcs,
         Goto(t, l)
  PROVE  /\ job' = job /\ (job[t] = None <=> l \in Idle) => Located'
         /\ \A j \in Funcs \cup {None} :
              job' = [job EXCEPT ![t] = j] /\ (j = None <=> l \in Idle) => Located'
<1> USE DEF Located, Places, Goto, Threads, Idle
<1>1. /\ pc' \in [Threads -> WorkerPcs \cup CallerPcs]
      /\ pc'[t] = l /\ \A u \in Threads : u # t => pc'[u] = pc[u]
  BY Zenon
<1>2. (\A w \in Workers : pc'[w] \in WorkerPcs) /\ (\A c \in Callers : pc'[c] \in CallerPcs)
  BY <1>1, Zenon
<1>3. ASSUME job' = job, job[t] = None <=> l \in Idle PROVE Located'
  BY <1>1, <1>2, <1>3, Zenon
<1>4. ASSUME NEW j \in Funcs \cup {None}, job' = [job EXCEPT ![t] = j],
             j = None <=> l \in Idle
      PROVE  Located'
  <2>1. /\ job' \in [Threads -> Funcs \cup {None}]
        /\ job'[t] = j /\ \A u \in Threads : u # t => job'[u] = job[u]
    BY <1>4, Zenon
  <2>2. ASSUME NEW u \in Threads PROVE job'[u] = None <=> pc'[u] \in Idle
    BY <1>1, <1>4, <2>1, Zenon
  <2> QED BY <1>1, <1>2, <2>1, <2>2, Zenon
<1> QED BY <1>3, <1>4, Zenon

(* The places a thread can go to. *)
LEMMA PcFacts ==
  /\ \A l \in {"idle", "dispatch", "inProgress", "compile", "emit", "link", "linked",
               "done", "patch"} : l \in WorkerPcs
  /\ \A l \in {"guest", "request", "useGreedy", "compile", "emit", "link", "linked",
               "patch", "enter"} : l \in CallerPcs
  BY DEF WorkerPcs, CallerPcs, CompilePcs

DataType ==
  /\ mod \in Modules /\ phase \in {"new", "ready", "interrupted", "freed"}
  /\ Tasks \in Seq(TaskIds) /\ cur \in [Workers -> TaskIds \cup {None}]
  /\ CompileStatuses \in [Funcs -> Status]
  /\ GreedyRACodePtrs \in [Funcs -> Code \cup {None}]
  /\ stub \in [Funcs -> Code \cup {None}]
  /\ perm \in [Code -> {"none", "write", "exec"}]
  /\ Ctx \in [Contexts -> [func : Funcs \cup {None}, code : Code \cup {None}]]
  /\ ret \in [Threads -> Code \cup {None}]
  /\ Stack \in Seq(Funcs) /\ Visited \in SUBSET Funcs /\ Callees \in Seq(Funcs)

(* A context a thread is about to use has been set, by it or by another.   *)
HeldType ==
  \A t \in Threads :
    /\ pc[t] = "emit" => Ctx[ContextOf(t)].func \in Funcs
    /\ pc[t] = "link" => Ctx[ContextOf(t)].code \in Code

TypeInv == DataType /\ Located /\ HeldType

(* The strengthened type invariant implies the checked one. *)
LEMMA TypeInvTypeOK == TypeInv => TypeOK
  BY Zenon DEF TypeInv, TypeOK, DataType, Located

(* What a step does to the contexts, in terms of the thread that takes it. *)
LEMMA HeldTypeStep ==
  ASSUME TypeInv, NEW t \in Threads, NEW l, Goto(t, l)
  PROVE  /\ Ctx' = Ctx /\ l \notin {"emit", "link"} => HeldType'
         /\ pc[t] = "compile" /\ l = "emit" /\ job[t] \in Funcs
            /\ Ctx' = [Ctx EXCEPT ![ContextOf(t)].func = job[t]] => HeldType'
         /\ \A c \in Code : l = "link"
            /\ Ctx' = [Ctx EXCEPT ![ContextOf(t)].code = c] => HeldType'
<1>1. /\ pc \in [Threads -> WorkerPcs \cup CallerPcs]
      /\ Ctx \in [Contexts -> [func : Funcs \cup {None}, code : Code \cup {None}]]
      /\ \A u \in Threads : ContextOf(u) \in Contexts
  BY Zenon DEF TypeInv, DataType, Located, ContextOf, Contexts, Threads
<1>2. pc'[t] = l /\ \A u \in Threads : u # t => pc'[u] = pc[u]
  BY <1>1, Zenon DEF Goto
<1>5. HeldType
  BY DEF TypeInv
<1> HIDE DEF ContextOf
<1>6. ASSUME Ctx' = Ctx, l \notin {"emit", "link"} PROVE HeldType'
  BY <1>2, <1>5, <1>6, Zenon DEF HeldType
<1>7. ASSUME l = "emit", job[t] \in Funcs,
             Ctx' = [Ctx EXCEPT ![ContextOf(t)].func = job[t]]
      PROVE  HeldType'
  <2>1. \A y \in Contexts :
          /\ Ctx'[y].code = Ctx[y].code
          /\ Ctx'[y].func \in Funcs \/ Ctx'[y].func = Ctx[y].func
    BY <1>1, <1>7
  <2>2. Ctx'[ContextOf(t)].func \in Funcs
    BY <1>1, <1>7
  <2> QED BY <1>1, <1>2, <1>5, <1>7, <2>1, <2>2 DEF HeldType
<1>8. ASSUME NEW c \in Code, l = "link", Ctx' = [Ctx EXCEPT ![ContextOf(t)].code = c]
      PROVE  HeldType'
  <2>1. \A y \in Contexts :
          /\ Ctx'[y].func = Ctx[y].func
          /\ Ctx'[y].code \in Code \/ Ctx'[y].code = Ctx[y].code
    BY <1>1, <1>8
  <2>2. Ctx'[ContextOf(t)].code \in Code
    BY <1>1, <1>8
  <2> QED BY <1>1, <1>2, <1>5, <1>8, <2>1, <2>2 DEF HeldType
<1> QED BY <1>6, <1>7, <1>8, Zenon
(* A thread that handles a function has one. *)
LEMMA HasJob ==
  ASSUME TypeInv PROVE \A t \in Threads : pc[t] \notin Idle => job[t] \in Funcs
  BY Zenon DEF TypeInv, Located, Places, Idle

(* Updating one field of one compile context keeps their type. *)
LEMMA ContextUpdate ==
  ASSUME NEW X, NEW F, NEW K, NEW ctx \in [X -> [func : F, code : K]], NEW x \in X
  PROVE  /\ \A j \in F : [ctx EXCEPT ![x].func = j] \in [X -> [func : F, code : K]]
         /\ \A c \in K : [ctx EXCEPT ![x].code = c] \in [X -> [func : F, code : K]]
  OBVIOUS

(* Every step is one of these. *)
LEMMA NextCases ==
  ASSUME Next
  PROVE  \/ Precompile \/ Interrupt \/ Free
         \/ \E t \in Threads : CompileToMC(t) \/ EmitObject(t) \/ Link(t)
         \/ \E w \in Workers : TakeDispatch(w) \/ TakeTask(w) \/ DispatchNext(w)
                               \/ DispatchCallee(w) \/ DispatchEnd(w)
         \/ \E w \in Workers : BackgroundStart(w) \/ BackgroundPublish(w)
                               \/ BackgroundDone(w) \/ BackgroundPatch(w)
         \/ \E c \in Callers : CallFunction(c) \/ Request(c) \/ Recheck(c)
                               \/ UseGreedy(c) \/ CallerPatch(c) \/ Enter(c)
  BY Zenon DEF Next, WorkerStep, ResolverStep, CompileStep, Threads

(* Every step keeps the types of the shared data. *)
LEMMA DataTypeStep ==
  ASSUME TypeInv, Next
  PROVE  DataType'
<1>1. DataType /\ Located /\ TypeOK
  BY TypeInvTypeOK DEF TypeInv
<1>2. CASE Precompile
  BY <1>1, <1>2, PoolTypes, Zenon DEF DataType, pool, atomics, local, search, Precompile, TaskIds
<1>3. CASE Interrupt
  BY <1>1, <1>3, PoolTypes, Zenon DEF DataType, pool, atomics, local, search, Interrupt, TaskIds
<1>4. CASE Free
  BY <1>1, <1>4, PoolTypes, Zenon DEF DataType, pool, atomics, local, search, Free, TaskIds
<1>5. ASSUME NEW t \in Threads, CompileToMC(t) PROVE DataType'
  <2>1. ContextOf(t) \in Contexts /\ t \in Threads
    BY <1>1, <1>5, Zenon DEF ContextOf, Contexts, Threads
  <2>2. job[t] \in Funcs
    BY <1>1, <1>5, <2>1, HasJob, Zenon DEF CompileToMC, Idle
  <2>3. Ctx' \in [Contexts -> [func : Funcs \cup {None}, code : Code \cup {None}]]
    BY <1>1, <1>5, <2>1, <2>2, ContextUpdate, Zenon DEF DataType, CompileToMC
  <2> QED BY <1>1, <1>5, <2>1, <2>2, <2>3, Zenon DEF DataType, pool, atomics, local, search, CompileToMC
<1>6. ASSUME NEW t \in Threads, EmitObject(t) PROVE DataType'
  <2>1. ContextOf(t) \in Contexts /\ t \in Threads
    BY <1>1, <1>6, Zenon DEF ContextOf, Contexts, Threads
  <2>2. [func |-> Ctx[ContextOf(t)].func, by |-> t] \in Code
    BY <1>1, <1>6, <2>1, Zenon DEF TypeInv, HeldType, EmitObject, Code
  <2>3. Ctx' \in [Contexts -> [func : Funcs \cup {None}, code : Code \cup {None}]]
    BY <1>1, <1>6, <2>1, <2>2 DEF DataType, EmitObject
  <2>4. perm' \in [Code -> {"none", "write", "exec"}]
    BY <1>1, <1>6, <2>2 DEF DataType, EmitObject
  <2> QED BY <1>1, <1>6, <2>1, <2>2, <2>3, <2>4, Zenon DEF DataType, pool, atomics, local, search, EmitObject
<1>7. ASSUME NEW t \in Threads, Link(t) PROVE DataType'
  <2>1. ContextOf(t) \in Contexts /\ t \in Threads
    BY <1>1, <1>7, Zenon DEF ContextOf, Contexts, Threads
  <2>2. Ctx[ContextOf(t)].code \in Code
    BY <1>1, <1>7, <2>1, Zenon DEF TypeInv, HeldType, Link
  <2>3. ret' \in [Threads -> Code \cup {None}]
    BY <1>1, <1>7, <2>1, <2>2 DEF DataType, Link
  <2>4. perm' \in [Code -> {"none", "write", "exec"}]
    BY <1>1, <1>7, <2>2 DEF DataType, Link
  <2> QED BY <1>1, <1>7, <2>1, <2>2, <2>3, <2>4, Zenon DEF DataType, pool, atomics, local, search, Link
<1>8. ASSUME NEW w \in Workers, TakeDispatch(w) PROVE DataType'
  <2>1. Tasks' \in Seq(TaskIds) /\ cur' \in [Workers -> TaskIds \cup {None}]
    BY <1>1, <1>8, PoolTypes, Zenon DEF TakeDispatch
  <2>2. Stack' \in Seq(Funcs) /\ Visited' \in SUBSET Funcs
    BY <1>1, <1>8, SearchTypes, Zenon DEF TakeDispatch
  <2>3. Callees' \in Seq(Funcs)
    BY <1>1, <1>8, SMT DEF TakeDispatch
  <2> QED BY <1>1, <1>8, <2>1, <2>2, <2>3, Zenon DEF DataType, pool, atomics, local, search, TakeDispatch
<1>9. ASSUME NEW w \in Workers, TakeTask(w) PROVE DataType'
  <2>1. Tasks' \in Seq(TaskIds) /\ cur' \in [Workers -> TaskIds \cup {None}]
    BY <1>1, <1>9, PoolTypes, Zenon DEF TakeTask
  <2> QED BY <1>1, <1>9, <2>1, Zenon DEF DataType, pool, atomics, local, search, TakeTask
<1>10. ASSUME NEW w \in Workers, DispatchNext(w) PROVE DataType'
  <2>1. Last(Stack) \in Funcs
    BY <1>1, <1>10, SearchTypes, Zenon DEF DispatchNext
  <2>2. CompileStatuses' \in [Funcs -> Status]
    BY <1>1, <1>10, <2>1 DEF DataType, DispatchNext, dispatchCompileTask, Status
  <2>3. Tasks' \in Seq(TaskIds) /\ cur' \in [Workers -> TaskIds \cup {None}]
    BY <1>1, <1>10, <2>1, PoolTypes, Zenon DEF DataType, DispatchNext, dispatchCompileTask, pool, TaskIds
  <2>4. Stack' \in Seq(Funcs) /\ Visited' \in SUBSET Funcs /\ Callees' \in Seq(Funcs)
    BY <1>1, <1>10, <2>1, SearchTypes, Zenon DEF DataType, DispatchNext
  <2> QED BY <1>1, <1>10, <2>1, <2>2, <2>3, <2>4, Zenon DEF DataType, pool, atomics, local, search, DispatchNext
<1>11. ASSUME NEW w \in Workers, DispatchCallee(w) PROVE DataType'
  <2>1. Stack' \in Seq(Funcs) /\ Visited' \in SUBSET Funcs /\ Callees' \in Seq(Funcs)
    BY <1>1, <1>11, SearchTypes, AppendElems, Zenon DEF DataType, DispatchCallee
  <2> QED BY <1>1, <1>11, <2>1, Zenon DEF DataType, pool, atomics, local, search, DispatchCallee
<1>12. ASSUME NEW w \in Workers, DispatchEnd(w) PROVE DataType'
  <2>1. Tasks' \in Seq(TaskIds) /\ cur' \in [Workers -> TaskIds \cup {None}]
    BY <1>1, <1>12, PoolTypes, Zenon DEF DispatchEnd
  <2> QED BY <1>1, <1>12, <2>1, Zenon DEF DataType, pool, atomics, local, search, DispatchEnd
<1>13. ASSUME NEW w \in Workers, BackgroundStart(w) PROVE DataType'
  <2>1. job[w] \in Funcs
    BY <1>1, <1>13, HasJob, Zenon DEF BackgroundStart, Idle, Threads
  <2>2. CompileStatuses' \in [Funcs -> Status]
    BY <1>1, <1>13, <2>1 DEF DataType, BackgroundStart, Status
  <2> QED BY <1>1, <1>13, <2>1, <2>2, Zenon DEF DataType, pool, atomics, local, search, BackgroundStart
<1>14. ASSUME NEW w \in Workers, BackgroundPublish(w) PROVE DataType'
  <2>1. job[w] \in Funcs /\ ret[w] \in Code \cup {None}
    BY <1>1, <1>14, HasJob, Zenon DEF DataType, BackgroundPublish, Idle, Threads
  <2>2. GreedyRACodePtrs' \in [Funcs -> Code \cup {None}]
    BY <1>1, <1>14, <2>1 DEF DataType, BackgroundPublish
  <2> QED BY <1>1, <1>14, <2>1, <2>2, Zenon DEF DataType, pool, atomics, local, search, BackgroundPublish
<1>15. ASSUME NEW w \in Workers, BackgroundDone(w) PROVE DataType'
  <2>1. job[w] \in Funcs
    BY <1>1, <1>15, HasJob, Zenon DEF BackgroundDone, Idle, Threads
  <2>2. CompileStatuses' \in [Funcs -> Status]
    BY <1>1, <1>15, <2>1 DEF DataType, BackgroundDone, Status
  <2> QED BY <1>1, <1>15, <2>1, <2>2, Zenon DEF DataType, pool, atomics, local, search, BackgroundDone
<1>16. ASSUME NEW w \in Workers, BackgroundPatch(w) PROVE DataType'
  <2>1. job[w] \in Funcs /\ ret[w] \in Code \cup {None}
    BY <1>1, <1>16, HasJob, Zenon DEF DataType, BackgroundPatch, Idle, Threads
  <2>2. stub' \in [Funcs -> Code \cup {None}]
    BY <1>1, <1>16, <2>1 DEF DataType, BackgroundPatch
  <2>3. ret' \in [Threads -> Code \cup {None}]
    BY <1>1, <1>16, SMT DEF DataType, BackgroundPatch, Threads
  <2>4. Tasks' \in Seq(TaskIds) /\ cur' \in [Workers -> TaskIds \cup {None}]
    BY <1>1, <1>16, PoolTypes, Zenon DEF BackgroundPatch
  <2> QED BY <1>1, <1>16, <2>1, <2>2, <2>3, <2>4, Zenon DEF DataType, pool, atomics, local, search, BackgroundPatch
<1>17. ASSUME NEW c \in Callers, CallFunction(c) PROVE DataType'
  <2>1. ret' \in [Threads -> Code \cup {None}]
    BY <1>1, <1>17, SMT DEF DataType, CallFunction, Threads
  <2> QED BY <1>1, <1>17, <2>1, Zenon DEF DataType, pool, atomics, local, search, CallFunction
<1>18. ASSUME NEW c \in Callers, Request(c) PROVE DataType'
  BY <1>1, <1>18, Zenon DEF DataType, pool, atomics, local, search, Request
<1>19. ASSUME NEW c \in Callers, Recheck(c) PROVE DataType'
  BY <1>1, <1>19, Zenon DEF DataType, pool, atomics, local, search, Recheck
<1>20. ASSUME NEW c \in Callers, UseGreedy(c) PROVE DataType'
  <2>1. job[c] \in Funcs
    BY <1>1, <1>20, HasJob, Zenon DEF UseGreedy, Idle, Threads
  <2>2. ret' \in [Threads -> Code \cup {None}]
    BY <1>1, <1>20, <2>1 DEF DataType, UseGreedy, Threads
  <2> QED BY <1>1, <1>20, <2>1, <2>2, Zenon DEF DataType, pool, atomics, local, search, UseGreedy
<1>21. ASSUME NEW c \in Callers, CallerPatch(c) PROVE DataType'
  <2>1. job[c] \in Funcs /\ ret[c] \in Code \cup {None}
    BY <1>1, <1>21, HasJob, Zenon DEF DataType, CallerPatch, Idle, Threads
  <2>2. stub' \in [Funcs -> Code \cup {None}]
    BY <1>1, <1>21, <2>1 DEF DataType, CallerPatch
  <2> QED BY <1>1, <1>21, <2>1, <2>2, Zenon DEF DataType, pool, atomics, local, search, CallerPatch
<1>22. ASSUME NEW c \in Callers, Enter(c) PROVE DataType'
  <2>1. ret' \in [Threads -> Code \cup {None}]
    BY <1>1, <1>22, SMT DEF DataType, Enter, Threads
  <2> QED BY <1>1, <1>22, <2>1, Zenon DEF DataType, pool, atomics, local, search, Enter
<1> QED
  BY <1>2, <1>3, <1>4, <1>5, <1>6, <1>7, <1>8, <1>9, <1>10, <1>11, <1>12, <1>13, <1>14, <1>15, <1>16, <1>17, <1>18, <1>19, <1>20, <1>21, <1>22, NextCases, Zenon
(* A thread that moves without an object in hand keeps the types of what
   is held. *)
LEMMA HeldTypeSame ==
  ASSUME TypeInv, NEW t \in Threads, NEW l, Goto(t, l), l # "emit", l # "link", Ctx' = Ctx
  PROVE  HeldType'
  BY HeldTypeStep, Zenon

(* Every step keeps threads at their own code and what they hold typed. *)
LEMMA ThreadTypeStep ==
  ASSUME TypeInv, Next
  PROVE  Located' /\ HeldType'
<1>1. TypeOK /\ Located /\ HeldType /\ DataType
  BY TypeInvTypeOK DEF TypeInv
<1>2. CASE Precompile
  BY <1>1, <1>2, Zenon DEF Precompile, Located, Places, HeldType, local
<1>3. CASE Interrupt
  BY <1>1, <1>3, Zenon DEF Interrupt, Located, Places, HeldType, local
<1>4. CASE Free
  BY <1>1, <1>4, Zenon DEF Free, Located, Places, HeldType, local
<1>5. ASSUME NEW w \in Workers, DispatchNext(w) PROVE Located' /\ HeldType'
  BY <1>1, <1>5, Zenon DEF DispatchNext, Located, Places, HeldType, local
<1>6. ASSUME NEW w \in Workers, DispatchCallee(w) PROVE Located' /\ HeldType'
  BY <1>1, <1>6, Zenon DEF DispatchCallee, Located, Places, HeldType, local
<1>7. ASSUME NEW t \in Threads, CompileToMC(t) PROVE Located' /\ HeldType'
  <2>1. t \in Threads /\ (t \in Workers => "emit" \in WorkerPcs) /\ (t \in Callers => "emit" \in CallerPcs)
    BY PcFacts, Zenon DEF Threads
  <2>2. Goto(t, "emit")
    BY <1>7 DEF CompileToMC
  <2>3. job' = job /\ (job[t] = None <=> "emit" \in Idle)
    BY <1>1, <1>7, <2>1, Zenon DEF CompileToMC, Idle, Located, Places
  <2>4. Located'
    BY <1>1, <2>1, <2>2, <2>3, Moves, Zenon
  <2>5. job[t] \in Funcs
    BY <1>7, <2>1, HasJob, Zenon DEF CompileToMC, Idle
  <2>6. Ctx' = [Ctx EXCEPT ![ContextOf(t)].func = job[t]]
    BY <1>7 DEF CompileToMC
  <2> QED BY <1>7, <2>1, <2>2, <2>4, <2>5, <2>6, HeldTypeStep, Zenon DEF CompileToMC
<1>8. ASSUME NEW t \in Threads, EmitObject(t) PROVE Located' /\ HeldType'
  <2>1. t \in Threads /\ (t \in Workers => "link" \in WorkerPcs) /\ (t \in Callers => "link" \in CallerPcs)
    BY PcFacts, Zenon DEF Threads
  <2>2. Goto(t, "link")
    BY <1>8 DEF EmitObject
  <2>3. job' = job /\ (job[t] = None <=> "link" \in Idle)
    BY <1>1, <1>8, <2>1, Zenon DEF EmitObject, Idle, Located, Places
  <2>4. Located'
    BY <1>1, <2>1, <2>2, <2>3, Moves, Zenon
  <2> DEFINE c == [func |-> Ctx[ContextOf(t)].func, by |-> t]
  <2>5. c \in Code
    BY <1>1, <1>8, Zenon DEF EmitObject, HeldType, Code
  <2>6. Ctx' = [Ctx EXCEPT ![ContextOf(t)].code = c]
    BY <1>8 DEF EmitObject
  <2> HIDE DEF c
  <2> QED BY <2>1, <2>2, <2>4, <2>5, <2>6, HeldTypeStep, Zenon
<1>9. ASSUME NEW t \in Threads, Link(t) PROVE Located' /\ HeldType'
  <2>1. t \in Threads /\ (t \in Workers => "linked" \in WorkerPcs) /\ (t \in Callers => "linked" \in CallerPcs)
    BY PcFacts, Zenon DEF Threads
  <2>2. Goto(t, "linked")
    BY <1>9 DEF Link
  <2>3. job' = job /\ (job[t] = None <=> "linked" \in Idle)
    BY <1>1, <1>9, <2>1, Zenon DEF Link, Idle, Located, Places
  <2>4. Located'
    BY <1>1, <2>1, <2>2, <2>3, Moves, Zenon
  <2>5. Ctx' = Ctx
    BY <1>9 DEF Link
  <2> QED BY <2>1, <2>2, <2>4, <2>5, HeldTypeSame, Zenon
<1>10. ASSUME NEW w \in Workers, TakeDispatch(w) PROVE Located' /\ HeldType'
  <2>1. w \in Threads /\ w \notin Callers /\ "dispatch" \in WorkerPcs
    BY LazyJITAssumption, PcFacts, Zenon DEF Threads
  <2>2. Goto(w, "dispatch")
    BY <1>10 DEF TakeDispatch
  <2>3. job' = job /\ (job[w] = None <=> "dispatch" \in Idle)
    BY <1>1, <1>10, <2>1, Zenon DEF TakeDispatch, Idle, Located, Places
  <2>4. Located'
    BY <1>1, <2>1, <2>2, <2>3, Moves, Zenon
  <2>5. Ctx' = Ctx
    BY <1>10 DEF TakeDispatch
  <2> QED BY <2>1, <2>2, <2>4, <2>5, HeldTypeSame, Zenon
<1>11. ASSUME NEW w \in Workers, TakeTask(w) PROVE Located' /\ HeldType'
  <2>1. w \in Threads /\ w \notin Callers /\ "inProgress" \in WorkerPcs
    BY LazyJITAssumption, PcFacts, Zenon DEF Threads
  <2>2. Goto(w, "inProgress")
    BY <1>11 DEF TakeTask
  <2>3. Head(Tasks) \in Funcs /\ Head(Tasks) # None /\ job' = [job EXCEPT ![w] = Head(Tasks)] /\ "inProgress" \notin Idle
    BY <1>1, <1>11, PoolTypes, LazyJITAssumption, Zenon DEF TakeTask, Idle, TaskIds
  <2>4. Located'
    BY <1>1, <2>1, <2>2, <2>3, Moves, Zenon
  <2>5. Ctx' = Ctx
    BY <1>11 DEF TakeTask
  <2> QED BY <2>1, <2>2, <2>4, <2>5, HeldTypeSame, Zenon
<1>12. ASSUME NEW w \in Workers, DispatchEnd(w) PROVE Located' /\ HeldType'
  <2>1. w \in Threads /\ w \notin Callers /\ "idle" \in WorkerPcs
    BY LazyJITAssumption, PcFacts, Zenon DEF Threads
  <2>2. Goto(w, "idle")
    BY <1>12 DEF DispatchEnd
  <2>3. job' = job /\ (job[w] = None <=> "idle" \in Idle)
    BY <1>1, <1>12, <2>1, Zenon DEF DispatchEnd, Idle, Located, Places
  <2>4. Located'
    BY <1>1, <2>1, <2>2, <2>3, Moves, Zenon
  <2>5. Ctx' = Ctx
    BY <1>12 DEF DispatchEnd
  <2> QED BY <2>1, <2>2, <2>4, <2>5, HeldTypeSame, Zenon
<1>13. ASSUME NEW w \in Workers, BackgroundStart(w) PROVE Located' /\ HeldType'
  <2>1. w \in Threads /\ w \notin Callers /\ "compile" \in WorkerPcs
    BY LazyJITAssumption, PcFacts, Zenon DEF Threads
  <2>2. Goto(w, "compile")
    BY <1>13 DEF BackgroundStart
  <2>3. job' = job /\ (job[w] = None <=> "compile" \in Idle)
    BY <1>1, <1>13, <2>1, Zenon DEF BackgroundStart, Idle, Located, Places
  <2>4. Located'
    BY <1>1, <2>1, <2>2, <2>3, Moves, Zenon
  <2>5. Ctx' = Ctx
    BY <1>13 DEF BackgroundStart
  <2> QED BY <2>1, <2>2, <2>4, <2>5, HeldTypeSame, Zenon
<1>14. ASSUME NEW w \in Workers, BackgroundPublish(w) PROVE Located' /\ HeldType'
  <2>1. w \in Threads /\ w \notin Callers /\ "done" \in WorkerPcs
    BY LazyJITAssumption, PcFacts, Zenon DEF Threads
  <2>2. Goto(w, "done")
    BY <1>14 DEF BackgroundPublish
  <2>3. job' = job /\ (job[w] = None <=> "done" \in Idle)
    BY <1>1, <1>14, <2>1, Zenon DEF BackgroundPublish, Idle, Located, Places
  <2>4. Located'
    BY <1>1, <2>1, <2>2, <2>3, Moves, Zenon
  <2>5. Ctx' = Ctx
    BY <1>14 DEF BackgroundPublish
  <2> QED BY <2>1, <2>2, <2>4, <2>5, HeldTypeSame, Zenon
<1>15. ASSUME NEW w \in Workers, BackgroundDone(w) PROVE Located' /\ HeldType'
  <2>1. w \in Threads /\ w \notin Callers /\ "patch" \in WorkerPcs
    BY LazyJITAssumption, PcFacts, Zenon DEF Threads
  <2>2. Goto(w, "patch")
    BY <1>15 DEF BackgroundDone
  <2>3. job' = job /\ (job[w] = None <=> "patch" \in Idle)
    BY <1>1, <1>15, <2>1, Zenon DEF BackgroundDone, Idle, Located, Places
  <2>4. Located'
    BY <1>1, <2>1, <2>2, <2>3, Moves, Zenon
  <2>5. Ctx' = Ctx
    BY <1>15 DEF BackgroundDone
  <2> QED BY <2>1, <2>2, <2>4, <2>5, HeldTypeSame, Zenon
<1>16. ASSUME NEW w \in Workers, BackgroundPatch(w) PROVE Located' /\ HeldType'
  <2>1. w \in Threads /\ w \notin Callers /\ "idle" \in WorkerPcs
    BY LazyJITAssumption, PcFacts, Zenon DEF Threads
  <2>2. Goto(w, "idle")
    BY <1>16 DEF BackgroundPatch
  <2>3. job' = [job EXCEPT ![w] = None] /\ "idle" \in Idle
    BY <1>16, Zenon DEF BackgroundPatch, Idle
  <2>4. Located'
    BY <1>1, <2>1, <2>2, <2>3, Moves, Zenon
  <2>5. Ctx' = Ctx
    BY <1>16 DEF BackgroundPatch
  <2> QED BY <2>1, <2>2, <2>4, <2>5, HeldTypeSame, Zenon
<1>17. ASSUME NEW c \in Callers, UseGreedy(c) PROVE Located' /\ HeldType'
  <2>1. c \in Threads /\ c \notin Workers /\ "enter" \in CallerPcs
    BY LazyJITAssumption, PcFacts, Zenon DEF Threads
  <2>2. Goto(c, "enter")
    BY <1>17 DEF UseGreedy
  <2>3. job' = job /\ (job[c] = None <=> "enter" \in Idle)
    BY <1>1, <1>17, <2>1, Zenon DEF UseGreedy, Idle, Located, Places
  <2>4. Located'
    BY <1>1, <2>1, <2>2, <2>3, Moves, Zenon
  <2>5. Ctx' = Ctx
    BY <1>17 DEF UseGreedy
  <2> QED BY <2>1, <2>2, <2>4, <2>5, HeldTypeSame, Zenon
<1>18. ASSUME NEW c \in Callers, CallerPatch(c) PROVE Located' /\ HeldType'
  <2>1. c \in Threads /\ c \notin Workers /\ "enter" \in CallerPcs
    BY LazyJITAssumption, PcFacts, Zenon DEF Threads
  <2>2. Goto(c, "enter")
    BY <1>18 DEF CallerPatch
  <2>3. job' = job /\ (job[c] = None <=> "enter" \in Idle)
    BY <1>1, <1>18, <2>1, Zenon DEF CallerPatch, Idle, Located, Places
  <2>4. Located'
    BY <1>1, <2>1, <2>2, <2>3, Moves, Zenon
  <2>5. Ctx' = Ctx
    BY <1>18 DEF CallerPatch
  <2> QED BY <2>1, <2>2, <2>4, <2>5, HeldTypeSame, Zenon
<1>19. ASSUME NEW c \in Callers, Enter(c) PROVE Located' /\ HeldType'
  <2>1. c \in Threads /\ c \notin Workers /\ "guest" \in CallerPcs
    BY LazyJITAssumption, PcFacts, Zenon DEF Threads
  <2>2. Goto(c, "guest")
    BY <1>19 DEF Enter
  <2>3. job' = [job EXCEPT ![c] = None] /\ "guest" \in Idle
    BY <1>19, Zenon DEF Enter, Idle
  <2>4. Located'
    BY <1>1, <2>1, <2>2, <2>3, Moves, Zenon
  <2>5. Ctx' = Ctx
    BY <1>19 DEF Enter
  <2> QED BY <2>1, <2>2, <2>4, <2>5, HeldTypeSame, Zenon
<1>20. ASSUME NEW c \in Callers, CallFunction(c) PROVE Located' /\ HeldType'
  <2>1. c \in Threads /\ c \notin Workers /\ "request" \in CallerPcs /\ "enter" \in CallerPcs
    BY LazyJITAssumption, PcFacts, Zenon DEF Threads
  <2>2. PICK f \in Funcs, l \in {"request", "enter"} :
            Goto(c, l) /\ job' = [job EXCEPT ![c] = f]
    BY <1>20, Zenon DEF CallFunction, Goto
  <2>3. f # None /\ l \notin Idle
    BY LazyJITAssumption DEF TaskIds, Idle
  <2>4. Located'
    BY <1>1, <2>1, <2>2, <2>3, Moves, Zenon
  <2>5. Ctx' = Ctx
    BY <1>20 DEF CallFunction
  <2> QED BY <2>1, <2>2, <2>4, <2>5, HeldTypeStep, Zenon
<1>21. ASSUME NEW c \in Callers, Request(c) PROVE Located' /\ HeldType'
  <2>1. c \in Threads /\ c \notin Workers /\ "useGreedy" \in CallerPcs /\ "compile" \in CallerPcs
    BY LazyJITAssumption, PcFacts, Zenon DEF Threads
  <2>2. PICK l \in {"useGreedy", "compile"} : Goto(c, l)
    BY <1>21, Zenon DEF Request, Goto
  <2>3. job' = job /\ job[c] # None /\ l \notin Idle
    BY <1>1, <1>21, <2>1 DEF Request, Idle, Located, Places
  <2>4. Located'
    BY <1>1, <2>1, <2>2, <2>3, Moves, Zenon
  <2>5. Ctx' = Ctx
    BY <1>21 DEF Request
  <2> QED BY <2>1, <2>2, <2>4, <2>5, HeldTypeStep, Zenon
<1>22. ASSUME NEW c \in Callers, Recheck(c) PROVE Located' /\ HeldType'
  <2>1. c \in Threads /\ c \notin Workers /\ "useGreedy" \in CallerPcs /\ "patch" \in CallerPcs
    BY LazyJITAssumption, PcFacts, Zenon DEF Threads
  <2>2. PICK l \in {"useGreedy", "patch"} : Goto(c, l)
    BY <1>22, Zenon DEF Recheck, Goto
  <2>3. job' = job /\ job[c] # None /\ l \notin Idle
    BY <1>1, <1>22, <2>1 DEF Recheck, Idle, Located, Places
  <2>4. Located'
    BY <1>1, <2>1, <2>2, <2>3, Moves, Zenon
  <2>5. Ctx' = Ctx
    BY <1>22 DEF Recheck
  <2> QED BY <2>1, <2>2, <2>4, <2>5, HeldTypeStep, Zenon
<1> QED
  BY <1>2, <1>3, <1>4, <1>5, <1>6, <1>7, <1>8, <1>9, <1>10, <1>11, <1>12, <1>13, <1>14, <1>15, <1>16, <1>17, <1>18, <1>19, <1>20, <1>21, <1>22, NextCases, Zenon

(* Every step keeps the strengthened type invariant. *)
LEMMA TypeInvStep ==
  ASSUME TypeInv, [Next]_vars PROVE TypeInv'
<1>1. CASE Next
  BY <1>1, DataTypeStep, ThreadTypeStep DEF TypeInv
<1>2. CASE UNCHANGED vars
  BY <1>2, Zenon DEF TypeInv, DataType, Located, Places, HeldType, vars, pool, atomics, local, search
<1> QED BY <1>1, <1>2

(* The strengthened type invariant holds initially. *)
LEMMA TypeInvInit ==
  ASSUME Init PROVE TypeInv
<1> USE LazyJITAssumption
<1>1. DataType
  BY DEF Init, DataType, Pool!Init, Code, Status, Contexts
<1>2. Located
  <2>1. pc \in [Threads -> WorkerPcs \cup CallerPcs] /\ job \in [Threads -> Funcs \cup {None}]
    BY PcFacts, Zenon DEF Init, Threads
  <2>2. \A t \in Threads : job[t] = None /\ pc[t] \in {"idle", "guest"}
    BY Zenon DEF Init
  <2>3. (\A w \in Workers : pc[w] = "idle") /\ (\A c \in Callers : pc[c] = "guest")
    BY Zenon DEF Init, Threads
  <2> QED BY <2>1, <2>2, <2>3, PcFacts, Zenon DEF Located, Places
<1>3. HeldType
  BY DEF Init, HeldType
<1> QED BY <1>1, <1>2, <1>3 DEF TypeInv

(* Every variable keeps its type, whatever the module, the workers and the  *)
(* callers, and however many callers share the main context.                *)
THEOREM TypeCorrect == Spec => []TypeOK
<1>1. Init => TypeInv
  BY TypeInvInit
<1>2. TypeInv /\ [Next]_vars => TypeInv'
  BY TypeInvStep
<1> QED BY <1>1, <1>2, TypeInvTypeOK, PTL DEF Spec
-----------------------------------------------------------------------------
(* The queue.  What a push and a take do to a queue without repetitions.   *)
Distinct(s) == \A i, j \in DOMAIN s : s[i] = s[j] => i = j

(* Appending a new element keeps a list free of repetitions. *)
LEMMA AppendDistinct ==
  ASSUME NEW S, NEW s \in Seq(S), NEW x \in S, Distinct(s), x \notin Elems(s)
  PROVE  Distinct(Append(s, x))
<1>1. /\ DOMAIN Append(s, x) = DOMAIN s \cup {Len(s) + 1}
      /\ \A i \in DOMAIN s : Append(s, x)[i] = s[i]
      /\ Append(s, x)[Len(s) + 1] = x
  OBVIOUS
<1> QED BY <1>1, Zenon DEF Distinct, Elems

(* Taking the head of a list without repetitions removes it. *)
LEMMA TailDistinct ==
  ASSUME NEW S, NEW s \in Seq(S), s # << >>, Distinct(s)
  PROVE  /\ Distinct(Tail(s)) /\ Head(s) \in Elems(s)
         /\ Elems(Tail(s)) = Elems(s) \ {Head(s)}
<1> DEFINE n == Len(s)
<1>1. n \in Nat \ {0} /\ DOMAIN s = 1..n /\ Head(s) = s[1]
  OBVIOUS
<1>2. DOMAIN Tail(s) = 1..(n - 1) /\ \A i \in 1..(n - 1) : Tail(s)[i] = s[i + 1]
  OBVIOUS
<1> HIDE DEF n
<1>3. 1 \in DOMAIN s /\ \A i \in 1..(n - 1) : i + 1 \in DOMAIN s /\ i + 1 # 1
  BY <1>1
<1>4. \A i \in DOMAIN s : i = 1 \/ \E j \in 1..(n - 1) : i = j + 1
  <2> TAKE i \in DOMAIN s
  <2>1. i = 1 \/ (i - 1 \in 1..(n - 1) /\ i = (i - 1) + 1)
    BY <1>1
  <2> QED BY <2>1
<1>5. Distinct(Tail(s))
  <2>1. \A i, j \in 1..(n - 1) : i + 1 = j + 1 => i = j
    BY <1>1
  <2>2. ASSUME NEW i \in 1..(n - 1), NEW j \in 1..(n - 1), s[i + 1] = s[j + 1] PROVE i = j
    BY <1>3, <2>1, <2>2 DEF Distinct
  <2> QED BY <1>2, <2>2, Zenon DEF Distinct
<1>6. Elems(Tail(s)) = Elems(s) \ {Head(s)}
  <2>1. \A i \in 1..(n - 1) : Tail(s)[i] = s[i + 1] /\ s[i + 1] # s[1]
    BY <1>2, <1>3 DEF Distinct
  <2>2. \A e : e \in Elems(Tail(s)) => e \in Elems(s) /\ e # Head(s)
    BY <1>1, <1>2, <1>3, <2>1 DEF Elems
  <2>3. ASSUME NEW e \in Elems(s), e # Head(s) PROVE e \in Elems(Tail(s))
    <3>1. PICK i \in DOMAIN s : e = s[i]
      BY Zenon DEF Elems
    <3>2. PICK j \in 1..(n - 1) : i = j + 1
      BY <1>1, <1>4, <2>3, <3>1
    <3>3. e = Tail(s)[j] /\ j \in DOMAIN Tail(s)
      BY <1>2, <3>1, <3>2
    <3> QED BY <3>3, Zenon DEF Elems
  <2> QED BY <2>2, <2>3
<1>7. Head(s) \in Elems(s)
  BY <1>1, <1>3, Zenon DEF Elems
<1> QED BY <1>5, <1>6, <1>7

(* What assignments do, element by element. *)
LEMMA GotoFrame ==
  ASSUME TypeInv, NEW t \in Threads, NEW l, Goto(t, l)
  PROVE  pc'[t] = l /\ \A u \in Threads : u # t => pc'[u] = pc[u]
  BY Zenon DEF TypeInv, Located, Goto

(* Setting one thread's function leaves the others'. *)
LEMMA JobFrame ==
  ASSUME TypeInv, NEW t \in Threads, NEW j, job' = [job EXCEPT ![t] = j]
  PROVE  job'[t] = j /\ \A u \in Threads : u # t => job'[u] = job[u]
  BY Zenon DEF TypeInv, Located

(* Setting one thread's result leaves the others'. *)
LEMMA RetFrame ==
  ASSUME TypeInv, NEW t \in Threads, NEW r, ret' = [ret EXCEPT ![t] = r]
  PROVE  ret'[t] = r /\ \A u \in Threads : u # t => ret'[u] = ret[u]
  BY Zenon DEF TypeInv, DataType

(* A step of one thread leaves the other threads where they are. *)
Others(t) == \A u \in Threads : u # t =>
               pc'[u] = pc[u] /\ job'[u] = job[u] /\ ret'[u] = ret[u]

(* A step of a caller moves no other thread. *)
LEMMA CallerOthers ==
  ASSUME TypeInv, NEW c \in Callers,
         CallFunction(c) \/ Request(c) \/ Recheck(c) \/ UseGreedy(c) \/ CallerPatch(c)
         \/ Enter(c)
  PROVE  Others(c)
<1>1. c \in Threads
  BY DEF Threads
<1>2. CASE CallFunction(c)
  <2>1. PICK l : Goto(c, l)
    BY <1>2, Zenon DEF CallFunction
  <2>2. PICK j : job' = [job EXCEPT ![c] = j]
    BY <1>2, Zenon DEF CallFunction
  <2>3. PICK r : ret' = [ret EXCEPT ![c] = r]
    BY <1>2, Zenon DEF CallFunction
  <2>4. \A u \in Threads : u # c => pc'[u] = pc[u]
    BY <1>1, <2>1, GotoFrame, Zenon
  <2>5. \A u \in Threads : u # c => job'[u] = job[u]
    BY <1>1, <2>2, JobFrame, Zenon
  <2>6. \A u \in Threads : u # c => ret'[u] = ret[u]
    BY <1>1, <2>3, RetFrame, Zenon
  <2> QED BY <2>4, <2>5, <2>6, Zenon DEF Others
<1>3. CASE Request(c)
  <2>1. PICK l : Goto(c, l)
    BY <1>3, Zenon DEF Request
  <2>2. job' = job
    BY <1>3 DEF Request
  <2>3. ret' = ret
    BY <1>3 DEF Request
  <2>4. \A u \in Threads : u # c => pc'[u] = pc[u]
    BY <1>1, <2>1, GotoFrame, Zenon
  <2>5. \A u \in Threads : u # c => job'[u] = job[u]
    BY <1>1, <2>2, Zenon
  <2>6. \A u \in Threads : u # c => ret'[u] = ret[u]
    BY <1>1, <2>3, Zenon
  <2> QED BY <2>4, <2>5, <2>6, Zenon DEF Others
<1>4. CASE Recheck(c)
  <2>1. PICK l : Goto(c, l)
    BY <1>4, Zenon DEF Recheck
  <2>2. job' = job
    BY <1>4 DEF Recheck
  <2>3. ret' = ret
    BY <1>4 DEF Recheck
  <2>4. \A u \in Threads : u # c => pc'[u] = pc[u]
    BY <1>1, <2>1, GotoFrame, Zenon
  <2>5. \A u \in Threads : u # c => job'[u] = job[u]
    BY <1>1, <2>2, Zenon
  <2>6. \A u \in Threads : u # c => ret'[u] = ret[u]
    BY <1>1, <2>3, Zenon
  <2> QED BY <2>4, <2>5, <2>6, Zenon DEF Others
<1>5. CASE UseGreedy(c)
  <2>1. PICK l : Goto(c, l)
    BY <1>5, Zenon DEF UseGreedy
  <2>2. job' = job
    BY <1>5 DEF UseGreedy
  <2>3. PICK r : ret' = [ret EXCEPT ![c] = r]
    BY <1>5, Zenon DEF UseGreedy
  <2>4. \A u \in Threads : u # c => pc'[u] = pc[u]
    BY <1>1, <2>1, GotoFrame, Zenon
  <2>5. \A u \in Threads : u # c => job'[u] = job[u]
    BY <1>1, <2>2, Zenon
  <2>6. \A u \in Threads : u # c => ret'[u] = ret[u]
    BY <1>1, <2>3, RetFrame, Zenon
  <2> QED BY <2>4, <2>5, <2>6, Zenon DEF Others
<1>6. CASE CallerPatch(c)
  <2>1. PICK l : Goto(c, l)
    BY <1>6, Zenon DEF CallerPatch
  <2>2. job' = job
    BY <1>6 DEF CallerPatch
  <2>3. ret' = ret
    BY <1>6 DEF CallerPatch
  <2>4. \A u \in Threads : u # c => pc'[u] = pc[u]
    BY <1>1, <2>1, GotoFrame, Zenon
  <2>5. \A u \in Threads : u # c => job'[u] = job[u]
    BY <1>1, <2>2, Zenon
  <2>6. \A u \in Threads : u # c => ret'[u] = ret[u]
    BY <1>1, <2>3, Zenon
  <2> QED BY <2>4, <2>5, <2>6, Zenon DEF Others
<1>7. CASE Enter(c)
  <2>1. PICK l : Goto(c, l)
    BY <1>7, Zenon DEF Enter
  <2>2. PICK j : job' = [job EXCEPT ![c] = j]
    BY <1>7, Zenon DEF Enter
  <2>3. PICK r : ret' = [ret EXCEPT ![c] = r]
    BY <1>7, Zenon DEF Enter
  <2>4. \A u \in Threads : u # c => pc'[u] = pc[u]
    BY <1>1, <2>1, GotoFrame, Zenon
  <2>5. \A u \in Threads : u # c => job'[u] = job[u]
    BY <1>1, <2>2, JobFrame, Zenon
  <2>6. \A u \in Threads : u # c => ret'[u] = ret[u]
    BY <1>1, <2>3, RetFrame, Zenon
  <2> QED BY <2>4, <2>5, <2>6, Zenon DEF Others
<1> QED BY <1>2, <1>3, <1>4, <1>5, <1>6, <1>7, Zenon

(* A step of a worker moves no other thread. *)
LEMMA WorkerOthers ==
  ASSUME TypeInv, NEW w \in Workers,
         TakeDispatch(w) \/ TakeTask(w) \/ DispatchNext(w) \/ DispatchCallee(w) \/ DispatchEnd(w)
         \/ BackgroundStart(w) \/ BackgroundPublish(w) \/ BackgroundDone(w) \/ BackgroundPatch(w)
  PROVE  Others(w)
<1>1. w \in Threads
  BY DEF Threads
<1>2. CASE TakeDispatch(w)
  <2>1. PICK l : Goto(w, l)
    BY <1>2, Zenon DEF TakeDispatch
  <2>2. job' = job
    BY <1>2 DEF TakeDispatch
  <2>3. ret' = ret
    BY <1>2 DEF TakeDispatch
  <2>4. \A u \in Threads : u # w => pc'[u] = pc[u]
    BY <1>1, <2>1, GotoFrame, Zenon
  <2>5. \A u \in Threads : u # w => job'[u] = job[u]
    BY <1>1, <2>2, Zenon
  <2>6. \A u \in Threads : u # w => ret'[u] = ret[u]
    BY <1>1, <2>3, Zenon
  <2> QED BY <2>4, <2>5, <2>6, Zenon DEF Others
<1>3. CASE TakeTask(w)
  <2>1. PICK l : Goto(w, l)
    BY <1>3, Zenon DEF TakeTask
  <2>2. PICK j : job' = [job EXCEPT ![w] = j]
    BY <1>3, Zenon DEF TakeTask
  <2>3. ret' = ret
    BY <1>3 DEF TakeTask
  <2>4. \A u \in Threads : u # w => pc'[u] = pc[u]
    BY <1>1, <2>1, GotoFrame, Zenon
  <2>5. \A u \in Threads : u # w => job'[u] = job[u]
    BY <1>1, <2>2, JobFrame, Zenon
  <2>6. \A u \in Threads : u # w => ret'[u] = ret[u]
    BY <1>1, <2>3, Zenon
  <2> QED BY <2>4, <2>5, <2>6, Zenon DEF Others
<1>4. CASE DispatchNext(w)
  BY <1>4, Zenon DEF DispatchNext, local, Others
<1>5. CASE DispatchCallee(w)
  BY <1>5, Zenon DEF DispatchCallee, local, Others
<1>6. CASE DispatchEnd(w)
  <2>1. PICK l : Goto(w, l)
    BY <1>6, Zenon DEF DispatchEnd
  <2>2. job' = job
    BY <1>6 DEF DispatchEnd
  <2>3. ret' = ret
    BY <1>6 DEF DispatchEnd
  <2>4. \A u \in Threads : u # w => pc'[u] = pc[u]
    BY <1>1, <2>1, GotoFrame, Zenon
  <2>5. \A u \in Threads : u # w => job'[u] = job[u]
    BY <1>1, <2>2, Zenon
  <2>6. \A u \in Threads : u # w => ret'[u] = ret[u]
    BY <1>1, <2>3, Zenon
  <2> QED BY <2>4, <2>5, <2>6, Zenon DEF Others
<1>7. CASE BackgroundStart(w)
  <2>1. PICK l : Goto(w, l)
    BY <1>7, Zenon DEF BackgroundStart
  <2>2. job' = job
    BY <1>7 DEF BackgroundStart
  <2>3. ret' = ret
    BY <1>7 DEF BackgroundStart
  <2>4. \A u \in Threads : u # w => pc'[u] = pc[u]
    BY <1>1, <2>1, GotoFrame, Zenon
  <2>5. \A u \in Threads : u # w => job'[u] = job[u]
    BY <1>1, <2>2, Zenon
  <2>6. \A u \in Threads : u # w => ret'[u] = ret[u]
    BY <1>1, <2>3, Zenon
  <2> QED BY <2>4, <2>5, <2>6, Zenon DEF Others
<1>8. CASE BackgroundPublish(w)
  <2>1. PICK l : Goto(w, l)
    BY <1>8, Zenon DEF BackgroundPublish
  <2>2. job' = job
    BY <1>8 DEF BackgroundPublish
  <2>3. ret' = ret
    BY <1>8 DEF BackgroundPublish
  <2>4. \A u \in Threads : u # w => pc'[u] = pc[u]
    BY <1>1, <2>1, GotoFrame, Zenon
  <2>5. \A u \in Threads : u # w => job'[u] = job[u]
    BY <1>1, <2>2, Zenon
  <2>6. \A u \in Threads : u # w => ret'[u] = ret[u]
    BY <1>1, <2>3, Zenon
  <2> QED BY <2>4, <2>5, <2>6, Zenon DEF Others
<1>9. CASE BackgroundDone(w)
  <2>1. PICK l : Goto(w, l)
    BY <1>9, Zenon DEF BackgroundDone
  <2>2. job' = job
    BY <1>9 DEF BackgroundDone
  <2>3. ret' = ret
    BY <1>9 DEF BackgroundDone
  <2>4. \A u \in Threads : u # w => pc'[u] = pc[u]
    BY <1>1, <2>1, GotoFrame, Zenon
  <2>5. \A u \in Threads : u # w => job'[u] = job[u]
    BY <1>1, <2>2, Zenon
  <2>6. \A u \in Threads : u # w => ret'[u] = ret[u]
    BY <1>1, <2>3, Zenon
  <2> QED BY <2>4, <2>5, <2>6, Zenon DEF Others
<1>10. CASE BackgroundPatch(w)
  <2>1. PICK l : Goto(w, l)
    BY <1>10, Zenon DEF BackgroundPatch
  <2>2. PICK j : job' = [job EXCEPT ![w] = j]
    BY <1>10, Zenon DEF BackgroundPatch
  <2>3. PICK r : ret' = [ret EXCEPT ![w] = r]
    BY <1>10, Zenon DEF BackgroundPatch
  <2>4. \A u \in Threads : u # w => pc'[u] = pc[u]
    BY <1>1, <2>1, GotoFrame, Zenon
  <2>5. \A u \in Threads : u # w => job'[u] = job[u]
    BY <1>1, <2>2, JobFrame, Zenon
  <2>6. \A u \in Threads : u # w => ret'[u] = ret[u]
    BY <1>1, <2>3, RetFrame, Zenon
  <2> QED BY <2>4, <2>5, <2>6, Zenon DEF Others
<1> QED BY <1>2, <1>3, <1>4, <1>5, <1>6, <1>7, <1>8, <1>9, <1>10, Zenon

(* A step of the compilation a thread is doing moves no other thread. *)
LEMMA CompileOthers ==
  ASSUME TypeInv, NEW t \in Threads,
         CompileToMC(t) \/ EmitObject(t) \/ Link(t)
  PROVE  Others(t)
<1>1. t \in Threads
  BY DEF Threads
<1>2. CASE CompileToMC(t)
  <2>1. PICK l : Goto(t, l)
    BY <1>2, Zenon DEF CompileToMC
  <2>2. job' = job
    BY <1>2 DEF CompileToMC
  <2>3. ret' = ret
    BY <1>2 DEF CompileToMC
  <2>4. \A u \in Threads : u # t => pc'[u] = pc[u]
    BY <1>1, <2>1, GotoFrame, Zenon
  <2>5. \A u \in Threads : u # t => job'[u] = job[u]
    BY <1>1, <2>2, Zenon
  <2>6. \A u \in Threads : u # t => ret'[u] = ret[u]
    BY <1>1, <2>3, Zenon
  <2> QED BY <2>4, <2>5, <2>6, Zenon DEF Others
<1>3. CASE EmitObject(t)
  <2>1. PICK l : Goto(t, l)
    BY <1>3, Zenon DEF EmitObject
  <2>2. job' = job
    BY <1>3 DEF EmitObject
  <2>3. ret' = ret
    BY <1>3 DEF EmitObject
  <2>4. \A u \in Threads : u # t => pc'[u] = pc[u]
    BY <1>1, <2>1, GotoFrame, Zenon
  <2>5. \A u \in Threads : u # t => job'[u] = job[u]
    BY <1>1, <2>2, Zenon
  <2>6. \A u \in Threads : u # t => ret'[u] = ret[u]
    BY <1>1, <2>3, Zenon
  <2> QED BY <2>4, <2>5, <2>6, Zenon DEF Others
<1>4. CASE Link(t)
  <2>1. PICK l : Goto(t, l)
    BY <1>4, Zenon DEF Link
  <2>2. job' = job
    BY <1>4 DEF Link
  <2>3. PICK r : ret' = [ret EXCEPT ![t] = r]
    BY <1>4, Zenon DEF Link
  <2>4. \A u \in Threads : u # t => pc'[u] = pc[u]
    BY <1>1, <2>1, GotoFrame, Zenon
  <2>5. \A u \in Threads : u # t => job'[u] = job[u]
    BY <1>1, <2>2, Zenon
  <2>6. \A u \in Threads : u # t => ret'[u] = ret[u]
    BY <1>1, <2>3, RetFrame, Zenon
  <2> QED BY <2>4, <2>5, <2>6, Zenon DEF Others
<1> QED BY <1>2, <1>3, <1>4, Zenon

(* A step of a caller leaves the workers where they are. *)
LEMMA CallerFrame ==
  ASSUME TypeInv, NEW c \in Callers,
         CallFunction(c) \/ Request(c) \/ Recheck(c) \/ UseGreedy(c) \/ CallerPatch(c) \/ Enter(c)
  PROVE  \A w \in Workers : pc'[w] = pc[w] /\ job'[w] = job[w]
<1>1. \A w \in Workers : w \in Threads /\ w # c
  BY LazyJITAssumption DEF Threads
<1> QED BY <1>1, CallerOthers, Zenon DEF Others

(* Setting one function's status, code pointer or stub leaves the
   others'. *)
LEMMA FuncFrames ==
  ASSUME TypeInv, NEW f \in Funcs
  PROVE  /\ \A v : CompileStatuses' = [CompileStatuses EXCEPT ![f] = v] =>
              /\ CompileStatuses'[f] = v
              /\ \A g \in Funcs : g # f => CompileStatuses'[g] = CompileStatuses[g]
         /\ \A v : GreedyRACodePtrs' = [GreedyRACodePtrs EXCEPT ![f] = v] =>
              /\ GreedyRACodePtrs'[f] = v
              /\ \A g \in Funcs : g # f => GreedyRACodePtrs'[g] = GreedyRACodePtrs[g]
         /\ \A v : stub' = [stub EXCEPT ![f] = v] =>
              /\ stub'[f] = v
              /\ \A g \in Funcs : g # f => stub'[g] = stub[g]
  BY Zenon DEF TypeInv, DataType

(* A function is in the queue or in one worker's hands at most once, and   *)
(* its status says where it is.                                            *)
QueueOK ==
  /\ phase = "new" => Tasks = << >> /\ \A w \in Workers : pc[w] = "idle"
  /\ Distinct(Tasks)
  /\ \A f \in Funcs : f \in Elems(Tasks) =>
       CompileStatuses[f] = "Pending" /\ \A w \in Workers : job[w] # f
HandsOK ==
  /\ \A w, v \in Workers : job[w] = job[v] => job[w] = None \/ w = v
  /\ \A w \in Workers :
       /\ pc[w] = "inProgress" => CompileStatuses[job[w]] = "Pending"
       /\ pc[w] \in CompilePcs \cup {"done"} => CompileStatuses[job[w]] = "InProgress"
       /\ pc[w] = "patch" => CompileStatuses[job[w]] = "Done"
  /\ \A f \in Funcs : CompileStatuses[f] # "None" => HasPool
Queued == QueueOK /\ HandsOK

(* Steps that leave the workers and the queue alone. *)
LEMMA QueuedSame ==
  ASSUME Queued, Tasks' = Tasks, CompileStatuses' = CompileStatuses,
         phase' = "new" => phase = "new",
         \A w \in Workers :
           /\ job'[w] = job[w]
           /\ pc'[w] = pc[w] \/ pc'[w] = "idle"
              \/ (pc[w] \in CompilePcs /\ pc'[w] \in CompilePcs \cup {"done"})
  PROVE  Queued'
<1>1. QueueOK'
  <2>1. phase' = "new" => \A w \in Workers : pc'[w] = "idle"
    BY Zenon DEF Queued, QueueOK, CompilePcs
  <2>2. UNCHANGED <<Tasks, CompileStatuses>> /\ \A w \in Workers : job'[w] = job[w]
    OBVIOUS
  <2>3. \A f \in Funcs : f \in Elems(Tasks') =>
          CompileStatuses'[f] = "Pending" /\ \A w \in Workers : job'[w] # f
    BY <2>2, SMT DEF Queued, QueueOK
  <2> QED BY <2>1, <2>2, <2>3, Zenon DEF Queued, QueueOK
<1>2. HandsOK'
  <2>1. \A w, v \in Workers : job'[w] = job'[v] => job'[w] = None \/ w = v
    BY SMT DEF Queued, HandsOK
  <2>2. ASSUME NEW w \in Workers
        PROVE  /\ pc'[w] = "inProgress" => CompileStatuses'[job'[w]] = "Pending"
               /\ pc'[w] \in CompilePcs \cup {"done"} => CompileStatuses'[job'[w]] = "InProgress"
               /\ pc'[w] = "patch" => CompileStatuses'[job'[w]] = "Done"
    BY DEF Queued, HandsOK, CompilePcs
  <2>3. \A f \in Funcs : CompileStatuses'[f] # "None" => HasPool
    BY Zenon DEF Queued, HandsOK
  <2> QED BY <2>1, <2>2, <2>3, Zenon DEF HandsOK
<1> QED BY <1>1, <1>2 DEF Queued

(* A worker changes the status of the function in its hands. *)
LEMMA QueuedMove ==
  ASSUME TypeInv, Queued, NEW w \in Workers, NEW s,
         UNCHANGED <<Tasks, phase, job>>, Others(w),
         CompileStatuses' = [CompileStatuses EXCEPT ![job[w]] = s],
         \/ pc[w] = "inProgress" /\ pc'[w] = "compile" /\ s = "InProgress"
         \/ pc[w] = "done" /\ pc'[w] = "patch" /\ s = "Done"
  PROVE  Queued'
<1>1. job[w] \in Funcs /\ job[w] # None /\ phase # "new" /\ Workers \subseteq Threads
  BY HasJob, LazyJITAssumption DEF Threads, Idle, Queued, QueueOK, TaskIds
<1>2. CompileStatuses'[job[w]] = s
      /\ \A g \in Funcs : g # job[w] => CompileStatuses'[g] = CompileStatuses[g]
  BY <1>1, FuncFrames, Zenon
<1>3. \A v \in Workers : v # w => pc'[v] = pc[v] /\ job[v] # job[w]
  BY <1>1, Zenon DEF Others, Queued, HandsOK
<1>4. QueueOK'
  BY <1>1, <1>2 DEF Queued, QueueOK
<1>5. ASSUME NEW v \in Workers
      PROVE  /\ pc'[v] = "inProgress" => CompileStatuses'[job[v]] = "Pending"
             /\ pc'[v] \in CompilePcs \cup {"done"} => CompileStatuses'[job[v]] = "InProgress"
             /\ pc'[v] = "patch" => CompileStatuses'[job[v]] = "Done"
  <2>1. CASE v = w
    BY <1>2, <2>1 DEF CompilePcs
  <2>2. CASE v # w
    <3>1. pc[v] \notin Idle => job[v] \in Funcs
      BY <1>1, HasJob
    <3> QED BY <1>2, <1>3, <2>2, <3>1 DEF Queued, HandsOK, CompilePcs, Idle
  <2> QED BY <2>1, <2>2
<1>6. \A f \in Funcs : CompileStatuses'[f] # "None" => HasPool
  BY Zenon DEF HasPool
<1>7. HandsOK'
  BY <1>5, <1>6, Zenon DEF Queued, HandsOK
<1> QED BY <1>4, <1>7 DEF Queued

(* Every step keeps each function in the queue or in one worker's hands
   at most once, with the status that says where it is. *)
LEMMA QueuedStep ==
  ASSUME TypeInv, Queued, Next PROVE Queued'
<1> USE LazyJITAssumption
<1>1. TypeOK /\ DataType /\ Located /\ Workers \subseteq Threads
      /\ \A c \in Callers : c \in Threads /\ c \notin Workers
  BY TypeInvTypeOK, Zenon DEF TypeInv, Threads
<1>2. CASE Precompile
  <2>1. Tasks = << >> /\ phase' # "new" /\ UNCHANGED <<pc, job, CompileStatuses>>
    BY <1>2, Zenon DEF Precompile, Queued, QueueOK, local, atomics
  <2>2. Tasks' = << >> \/ Tasks' = <<Dispatch>>
    BY <1>2, <2>1 DEF Precompile, pool, Pool!Push
  <2>3. Distinct(Tasks') /\ \A f \in Funcs : f \notin Elems(Tasks')
    BY <2>2 DEF Distinct, Elems
  <2>4. QueueOK'
    BY <2>1, <2>3, Zenon DEF QueueOK
  <2> QED BY <2>1, <2>4, Zenon DEF Queued, HandsOK
<1>3. CASE Interrupt \/ Free
  BY <1>3, QueuedSame, Zenon DEF Interrupt, Free, pool, atomics, local
<1>4. ASSUME NEW t \in Threads, CompileToMC(t) PROVE Queued'
  <2>1. /\ pc'[t] \in CompilePcs /\ pc[t] \in CompilePcs
        /\ \A u \in Threads : u # t => pc'[u] = pc[u]
    BY <1>4, GotoFrame, JobFrame, Zenon DEF CompileToMC, CompilePcs
  <2>2. UNCHANGED <<Tasks, CompileStatuses, phase, job>>
    BY <1>4 DEF CompileToMC, pool, atomics
  <2> QED BY <1>1, <2>1, <2>2, QueuedSame, Zenon
<1>5. ASSUME NEW t \in Threads, EmitObject(t) PROVE Queued'
  <2>1. /\ pc'[t] \in CompilePcs /\ pc[t] \in CompilePcs
        /\ \A u \in Threads : u # t => pc'[u] = pc[u]
    BY <1>5, GotoFrame, JobFrame, Zenon DEF EmitObject, CompilePcs
  <2>2. UNCHANGED <<Tasks, CompileStatuses, phase, job>>
    BY <1>5 DEF EmitObject, pool, atomics
  <2> QED BY <1>1, <2>1, <2>2, QueuedSame, Zenon
<1>6. ASSUME NEW t \in Threads, Link(t) PROVE Queued'
  <2>1. /\ pc'[t] \in CompilePcs /\ pc[t] \in CompilePcs
        /\ \A u \in Threads : u # t => pc'[u] = pc[u]
    BY <1>6, GotoFrame, JobFrame, Zenon DEF Link, CompilePcs
  <2>2. UNCHANGED <<Tasks, CompileStatuses, phase, job>>
    BY <1>6 DEF Link, pool, atomics
  <2> QED BY <1>1, <2>1, <2>2, QueuedSame, Zenon
<1>7. ASSUME NEW c \in Callers, CallFunction(c) PROVE Queued'
  <2>1. \A w \in Workers : pc'[w] = pc[w] /\ job'[w] = job[w]
    BY <1>1, <1>7, CallerFrame, Zenon
  <2>2. UNCHANGED <<Tasks, CompileStatuses, phase>>
    BY <1>7 DEF CallFunction, pool, atomics
  <2> QED BY <2>1, <2>2, QueuedSame, Zenon
<1>8. ASSUME NEW c \in Callers, Request(c) PROVE Queued'
  <2>1. \A w \in Workers : pc'[w] = pc[w] /\ job'[w] = job[w]
    BY <1>1, <1>8, CallerFrame, Zenon
  <2>2. UNCHANGED <<Tasks, CompileStatuses, phase>>
    BY <1>8 DEF Request, pool, atomics
  <2> QED BY <2>1, <2>2, QueuedSame, Zenon
<1>9. ASSUME NEW c \in Callers, Recheck(c) PROVE Queued'
  <2>1. \A w \in Workers : pc'[w] = pc[w] /\ job'[w] = job[w]
    BY <1>1, <1>9, CallerFrame, Zenon
  <2>2. UNCHANGED <<Tasks, CompileStatuses, phase>>
    BY <1>9 DEF Recheck, pool, atomics
  <2> QED BY <2>1, <2>2, QueuedSame, Zenon
<1>10. ASSUME NEW c \in Callers, UseGreedy(c) PROVE Queued'
  <2>1. \A w \in Workers : pc'[w] = pc[w] /\ job'[w] = job[w]
    BY <1>1, <1>10, CallerFrame, Zenon
  <2>2. UNCHANGED <<Tasks, CompileStatuses, phase>>
    BY <1>10 DEF UseGreedy, pool, atomics
  <2> QED BY <2>1, <2>2, QueuedSame, Zenon
<1>11. ASSUME NEW c \in Callers, CallerPatch(c) PROVE Queued'
  <2>1. \A w \in Workers : pc'[w] = pc[w] /\ job'[w] = job[w]
    BY <1>1, <1>11, CallerFrame, Zenon
  <2>2. UNCHANGED <<Tasks, CompileStatuses, phase>>
    BY <1>11 DEF CallerPatch, pool, atomics
  <2> QED BY <2>1, <2>2, QueuedSame, Zenon
<1>12. ASSUME NEW c \in Callers, Enter(c) PROVE Queued'
  <2>1. \A w \in Workers : pc'[w] = pc[w] /\ job'[w] = job[w]
    BY <1>1, <1>12, CallerFrame, Zenon
  <2>2. UNCHANGED <<Tasks, CompileStatuses, phase>>
    BY <1>12 DEF Enter, pool, atomics
  <2> QED BY <2>1, <2>2, QueuedSame, Zenon
<1>13. ASSUME NEW w \in Workers, DispatchEnd(w) PROVE Queued'
  <2>1. /\ pc'[w] = "idle" \/ (pc[w] \in CompilePcs /\ pc'[w] = "done")
        /\ \A u \in Threads : u # w => pc'[u] = pc[u]
    BY <1>1, <1>13, GotoFrame, JobFrame, Zenon DEF DispatchEnd, CompilePcs
  <2>2. UNCHANGED <<Tasks, CompileStatuses, phase, job>>
    BY <1>13 DEF DispatchEnd, pool, atomics, Pool!Finish
  <2> QED BY <1>1, <2>1, <2>2, QueuedSame, Zenon
<1>14. ASSUME NEW w \in Workers, BackgroundPublish(w) PROVE Queued'
  <2>1. /\ pc'[w] = "idle" \/ (pc[w] \in CompilePcs /\ pc'[w] = "done")
        /\ \A u \in Threads : u # w => pc'[u] = pc[u]
    BY <1>1, <1>14, GotoFrame, JobFrame, Zenon DEF BackgroundPublish, CompilePcs
  <2>2. UNCHANGED <<Tasks, CompileStatuses, phase, job>>
    BY <1>14 DEF BackgroundPublish, pool, atomics, Pool!Finish
  <2> QED BY <1>1, <2>1, <2>2, QueuedSame, Zenon
<1>15. ASSUME NEW w \in Workers, DispatchCallee(w) PROVE Queued'
  BY <1>15, QueuedSame, Zenon DEF DispatchCallee, pool, atomics, local
<1>16. ASSUME NEW w \in Workers, TakeDispatch(w) PROVE Queued'
  <2>1. pc'[w] = "dispatch" /\ \A u \in Threads : u # w => pc'[u] = pc[u]
    BY <1>1, <1>16, GotoFrame, JobFrame, Zenon DEF TakeDispatch
  <2>2. Tasks # << >> /\ Tasks' = Tail(Tasks) /\ UNCHANGED <<CompileStatuses, phase, job>>
    BY <1>16, Zenon DEF TakeDispatch, Pool!Take, atomics
  <2>3. Distinct(Tasks') /\ Elems(Tasks') \subseteq Elems(Tasks) /\ phase' # "new"
    BY <1>1, <1>16, <2>2, TailDistinct, Zenon DEF DataType, Queued, QueueOK, TakeDispatch
  <2>4. QueueOK'
    BY <2>2, <2>3, Zenon DEF Queued, QueueOK
  <2>5. HandsOK'
    BY <1>1, <2>1, <2>2, Zenon DEF Queued, HandsOK, CompilePcs
  <2> QED BY <2>4, <2>5 DEF Queued
<1>17. ASSUME NEW w \in Workers, TakeTask(w) PROVE Queued'
  <2> DEFINE f == Head(Tasks)
  <2>1. /\ pc'[w] = "inProgress" /\ \A u \in Threads : u # w => pc'[u] = pc[u]
        /\ job'[w] = f /\ \A u \in Threads : u # w => job'[u] = job[u]
    <3>1. Goto(w, "inProgress") /\ job' = [job EXCEPT ![w] = f]
      BY <1>17 DEF TakeTask
    <3>2. pc'[w] = "inProgress" /\ job'[w] = f
      BY <1>1, <3>1, GotoFrame, JobFrame, Zenon
    <3> QED BY <1>17, <3>2, WorkerOthers, Zenon DEF Others
  <2>2. Tasks # << >> /\ Tasks' = Tail(Tasks) /\ UNCHANGED <<CompileStatuses, phase>>
    BY <1>17, Zenon DEF TakeTask, Pool!Take, atomics
  <2>3. f \in Funcs
    BY <1>1, <1>17, PoolTypes, Zenon DEF TakeTask, TaskIds
  <2>4. /\ Distinct(Tasks') /\ f \in Elems(Tasks)
        /\ Elems(Tasks') = Elems(Tasks) \ {f} /\ phase' # "new"
    BY <1>1, <1>17, <2>2, TailDistinct, Zenon DEF DataType, Queued, QueueOK, TakeTask
  <2>5. CompileStatuses[f] = "Pending" /\ \A v \in Workers : job[v] # f
    BY <2>3, <2>4, Zenon DEF Queued, QueueOK
  <2> HIDE DEF f
  <2>6. QueueOK'
    <3>1. ASSUME NEW g \in Funcs, g \in Elems(Tasks')
          PROVE  CompileStatuses'[g] = "Pending" /\ \A v \in Workers : job'[v] # g
      BY <1>1, <2>1, <2>2, <2>4, <3>1, Zenon DEF Queued, QueueOK
    <3> QED BY <2>4, <3>1, Zenon DEF QueueOK
  <2>7. HandsOK'
    <3>1. \A u, v \in Workers : job'[u] = job'[v] => job'[u] = None \/ u = v
      BY <1>1, <2>1, <2>5, SMT DEF Queued, HandsOK
    <3>2. ASSUME NEW v \in Workers
          PROVE  /\ pc'[v] = "inProgress" => CompileStatuses'[job'[v]] = "Pending"
                 /\ pc'[v] \in CompilePcs \cup {"done"} => CompileStatuses'[job'[v]] = "InProgress"
                 /\ pc'[v] = "patch" => CompileStatuses'[job'[v]] = "Done"
      <4>1. CASE v = w
        BY <2>1, <2>2, <2>5, <4>1, Zenon DEF CompilePcs
      <4>2. CASE v # w
        BY <1>1, <2>1, <2>2, <4>2, Zenon DEF Queued, HandsOK
      <4> QED BY <4>1, <4>2
    <3> QED BY <2>2, <3>1, <3>2, Zenon DEF Queued, HandsOK
  <2> QED BY <2>6, <2>7 DEF Queued
<1>18. ASSUME NEW w \in Workers, DispatchNext(w) PROVE Queued'
  <2> DEFINE f == Last(Stack)
  <2>1. UNCHANGED <<pc, job, phase>> /\ f \in Funcs
    BY <1>1, <1>18, SearchTypes, Zenon DEF DispatchNext, local
  <2>2. phase # "new"
    BY <1>18, Zenon DEF DispatchNext, Queued, QueueOK
  <2>3. CASE CompileStatuses[f] = "None"
    <3>1. Tasks' = Append(Tasks, f) /\ CompileStatuses' = [CompileStatuses EXCEPT ![f] = "Pending"]
      BY <1>18, <2>3, Zenon DEF DispatchNext, dispatchCompileTask, Pool!Push
    <3>2. f \notin Elems(Tasks) /\ \A v \in Workers : job[v] = f => pc[v] \notin {"inProgress", "done", "patch"} \cup CompilePcs
      BY <2>1, <2>3 DEF Queued, QueueOK, HandsOK
    <3>3. \A v \in Workers : job[v] # f
      <4>1. \A v \in Workers : pc[v] \in WorkerPcs /\ (job[v] = None <=> pc[v] \in {"idle", "dispatch", "guest"})
        BY <1>1, Zenon DEF Located, Places, Threads
      <4> QED BY <2>1, <3>2, <4>1 DEF WorkerPcs, TaskIds
    <3>4. f \in TaskIds /\ Tasks \in Seq(TaskIds)
      BY <1>1, <2>1, Zenon DEF TaskIds, DataType
    <3>5. Distinct(Tasks') /\ Elems(Tasks') = Elems(Tasks) \cup {f}
      <4>1. Distinct(Tasks)
        BY DEF Queued, QueueOK
      <4>2. Distinct(Append(Tasks, f))
        BY <3>2, <3>4, <4>1, AppendDistinct
      <4>3. Elems(Append(Tasks, f)) = Elems(Tasks) \cup {f}
        BY <3>4, AppendElems
      <4> QED BY <3>1, <4>2, <4>3
    <3>6. CompileStatuses'[f] = "Pending" /\ \A g \in Funcs : g # f => CompileStatuses'[g] = CompileStatuses[g]
      BY <2>1, <3>1, FuncFrames, Zenon
    <3> HIDE DEF f
    <3>7. QueueOK'
      BY <2>1, <2>2, <3>3, <3>5, <3>6, Zenon DEF Queued, QueueOK
    <3>8. ASSUME NEW v \in Workers, pc[v] \in {"inProgress", "done", "patch"} \cup CompilePcs
          PROVE  CompileStatuses'[job[v]] = CompileStatuses[job[v]]
      <4>1. job[v] \in Funcs
        BY <1>1, <3>8, HasJob DEF Idle, CompilePcs
      <4> QED BY <3>3, <3>6, <4>1, Zenon
    <3>9. HandsOK'
      BY <1>18, <2>1, <3>6, <3>8, Zenon DEF Queued, HandsOK, HasPool
    <3> QED BY <3>7, <3>9 DEF Queued
  <2>4. CASE CompileStatuses[f] # "None"
    <3>1. UNCHANGED <<Tasks, CompileStatuses>>
      BY <1>18, <2>4, Zenon DEF DispatchNext, dispatchCompileTask, pool
    <3> QED BY <2>1, <3>1, QueuedSame, Zenon
  <2> QED BY <2>3, <2>4
<1>19. ASSUME NEW w \in Workers, BackgroundStart(w) PROVE Queued'
  <2>1. pc[w] = "inProgress" /\ pc'[w] = "compile" /\ UNCHANGED <<Tasks, job, phase>>
    BY <1>1, <1>19, GotoFrame, Zenon DEF BackgroundStart, pool
  <2>2. \A s : CompileStatuses' = [CompileStatuses EXCEPT ![job[w]] = s] /\ s = "InProgress"
               => Queued'
    BY <1>1, <1>19, <2>1, QueuedMove, WorkerOthers, Zenon DEF CompilePcs
  <2> QED BY <1>19, <2>2, Zenon DEF BackgroundStart
<1>20. ASSUME NEW w \in Workers, BackgroundDone(w) PROVE Queued'
  <2>1. pc[w] = "done" /\ pc'[w] = "patch" /\ UNCHANGED <<Tasks, job, phase>>
    BY <1>1, <1>20, GotoFrame, Zenon DEF BackgroundDone, pool
  <2>2. \A s : CompileStatuses' = [CompileStatuses EXCEPT ![job[w]] = s] /\ s = "Done"
               => Queued'
    BY <1>1, <1>20, <2>1, QueuedMove, WorkerOthers, Zenon DEF CompilePcs
  <2> QED BY <1>20, <2>2, Zenon DEF BackgroundDone
<1>21. ASSUME NEW w \in Workers, BackgroundPatch(w) PROVE Queued'
  <2>1. pc'[w] = "idle" /\ job'[w] = None /\ UNCHANGED <<Tasks, CompileStatuses, phase>>
    <3>1. Goto(w, "idle") /\ job' = [job EXCEPT ![w] = None]
      BY <1>21 DEF BackgroundPatch
    <3>2. pc'[w] = "idle" /\ job'[w] = None
      BY <1>1, <3>1, GotoFrame, JobFrame, Zenon
    <3> QED BY <1>21, <3>2 DEF BackgroundPatch, Pool!Finish
  <2>2. \A u \in Workers : u # w => pc'[u] = pc[u] /\ job'[u] = job[u]
    BY <1>1, <1>21, WorkerOthers, Zenon DEF Others
  <2>3. phase # "new"
    BY <1>21, Zenon DEF BackgroundPatch, Queued, QueueOK
  <2>4. \A f \in Funcs : f # None
    BY DEF TaskIds
  <2>5. QueueOK'
    BY <2>1, <2>2, <2>3, <2>4 DEF Queued, QueueOK
  <2>6. \A u, v \in Workers : job'[u] = job'[v] => job'[u] = None \/ u = v
    BY <2>1, <2>2 DEF Queued, HandsOK
  <2>7. HandsOK'
    <3>1. \A f \in Funcs : CompileStatuses'[f] # "None" => HasPool
      BY <2>1, Zenon DEF Queued, HandsOK
    <3>2. ASSUME NEW u \in Workers
          PROVE  /\ pc'[u] = "inProgress" => CompileStatuses'[job'[u]] = "Pending"
                 /\ pc'[u] \in CompilePcs \cup {"done"} => CompileStatuses'[job'[u]] = "InProgress"
                 /\ pc'[u] = "patch" => CompileStatuses'[job'[u]] = "Done"
      <4>1. CASE u = w
        BY <2>1, <4>1, Zenon DEF CompilePcs
      <4>2. CASE u # w
        <5>1. pc'[u] = pc[u] /\ job'[u] = job[u] /\ CompileStatuses' = CompileStatuses
          BY <2>1, <2>2, <4>2, Zenon
        <5>. QED BY <5>1, Zenon DEF Queued, HandsOK
      <4>. QED BY <4>1, <4>2, Zenon
    <3>. QED BY <2>6, <3>1, <3>2, Zenon DEF HandsOK
  <2> QED BY <2>5, <2>7 DEF Queued
<1> QED
  BY <1>2, <1>3, <1>4, <1>5, <1>6, <1>7, <1>8, <1>9, <1>10, <1>11, <1>12, <1>13, <1>14, <1>15,
     <1>16, <1>17, <1>18, <1>19, <1>20, <1>21, NextCases, Zenon

(* Nothing is queued initially. *)
LEMMA QueuedInit ==
  ASSUME Init PROVE Queued
<1>1. Tasks = << >> /\ (\A w \in Workers : pc[w] = "idle" /\ job[w] = None)
      /\ \A f \in Funcs : CompileStatuses[f] = "None"
  BY Zenon DEF Init, Pool!Init, Threads
<1>2. Distinct(Tasks) /\ Elems(Tasks) = {}
  BY <1>1 DEF Distinct, Elems
<1>3. \A w \in Workers : pc[w] \notin {"inProgress", "done", "patch"} \cup CompilePcs
  BY <1>1 DEF CompilePcs
<1> QED BY <1>1, <1>2, <1>3, Zenon DEF Queued, QueueOK, HandsOK

-----------------------------------------------------------------------------
(* The search.  One worker searches at a time, from the entries, and it    *)
(* was the first to dispatch anything.                                     *)
Searching == \E w \in Workers : pc[w] = "dispatch"
Searchers ==
  /\ \A w, v \in Workers : pc[w] = "dispatch" /\ pc[v] = "dispatch" => w = v
  /\ phase = "new" \/ Dispatch \in Elems(Tasks) =>
       ~Searching /\ Visited = {} /\ Stack = << >> /\ Callees = << >>
  /\ \A f \in Funcs : CompileStatuses[f] # "None" <=> f \in Visited

(* What has left the stack is expanded: its callees are on the stack, have *)
(* left it, or are still to be looked at.                                  *)
Found == Visited \cup Elems(Stack)
Search ==
  /\ Found \cup Elems(Callees) \subseteq Reachable
  /\ Searching \/ Visited # {} =>
       /\ Entries \subseteq Found
       /\ \A f \in Visited : Elems(mod.calls[f]) \subseteq Found \cup Elems(Callees)

(* Reachable contains the entries and is closed under calls. *)
LEMMA ReachableFacts ==
  ASSUME TypeOK
  PROVE  /\ Entries \subseteq Reachable
         /\ \A f \in Reachable : Elems(mod.calls[f]) \subseteq Reachable
         /\ \A S \in SUBSET Funcs :
              Entries \subseteq S /\ (\A f \in S : Elems(mod.calls[f]) \subseteq S)
              => Reachable \subseteq S
<1>1. /\ mod.start \in Funcs \cup {None} /\ mod.exported \in Seq(Funcs)
      /\ mod.calls \in [Funcs -> Seq(Funcs)]
  BY SearchTypes
<1>2. Entries \subseteq Funcs /\ \A f \in Funcs : Elems(mod.calls[f]) \subseteq Funcs
  BY <1>1 DEF Entries, Elems
<1>3. Entries \subseteq Reachable
  BY <1>2, Zenon DEF Reachable
<1>4. ASSUME NEW f \in Reachable, NEW g \in Elems(mod.calls[f]) PROVE g \in Reachable
  <2>1. f \in Funcs /\ g \in Funcs
    BY <1>2, <1>4, Zenon DEF Reachable
  <2>2. ASSUME NEW S \in SUBSET Funcs, Entries \subseteq S, Closed(S) PROVE g \in S
    <3>1. f \in S
      BY <1>4, <2>2, Zenon DEF Reachable
    <3> QED BY <1>4, <2>2, <3>1, Zenon DEF Closed
  <2> QED BY <2>1, <2>2, Zenon DEF Reachable
<1>5. \A S \in SUBSET Funcs :
        Entries \subseteq S /\ (\A f \in S : Elems(mod.calls[f]) \subseteq S)
        => Reachable \subseteq S
  BY Zenon DEF Reachable, Closed
<1> QED BY <1>3, <1>4, <1>5, Zenon

(* A step that starts no search and has no part in one. *)
Quiet ==
  /\ UNCHANGED <<mod, Stack, Visited, Callees>>
  /\ phase' = "new" => phase = "new"
  /\ Dispatch \in Elems(Tasks') => phase = "new" \/ Dispatch \in Elems(Tasks)
  /\ \A w \in Workers : pc'[w] = "dispatch" => pc[w] = "dispatch"
  /\ \A f \in Funcs : CompileStatuses'[f] = "None" <=> CompileStatuses[f] = "None"

(* A step that is not the search's keeps its invariant. *)
LEMMA QuietSearch ==
  ASSUME Searchers, Search, Quiet PROVE Searchers' /\ Search'
<1>1. Searching' => Searching
  BY Zenon DEF Quiet, Searching
<1>2. UNCHANGED <<mod, Stack, Visited, Callees>>
  BY DEF Quiet
<1>3. Entries' = Entries /\ Reachable' = Reachable /\ Found' = Found
  BY <1>2, Zenon DEF Entries, Reachable, Closed, Found
<1>4. Search'
  BY <1>1, <1>2, <1>3 DEF Search
<1>5. phase' = "new" \/ Dispatch \in Elems(Tasks') => phase = "new" \/ Dispatch \in Elems(Tasks)
  BY DEF Quiet
<1>6. Searchers'
  BY <1>1, <1>2, <1>5, Zenon DEF Searchers, Quiet
<1> QED BY <1>4, <1>6

(* Every step but the three of the search leaves it alone. *)
LEMMA QuietStep ==
  ASSUME TypeInv, Queued, Next
  PROVE  Quiet \/ \E w \in Workers : TakeDispatch(w) \/ DispatchNext(w) \/ DispatchCallee(w)
<1> USE LazyJITAssumption
<1>1. TypeOK /\ DataType /\ Located /\ Workers \subseteq Threads
      /\ \A c \in Callers : c \in Threads /\ c \notin Workers
  BY TypeInvTypeOK, Zenon DEF TypeInv, Threads
<1>2. CASE Precompile
  <2>1. /\ UNCHANGED <<mod, Stack, Visited, Callees, pc, CompileStatuses>>
        /\ phase = "new"
    BY <1>2, Zenon DEF Precompile, search, atomics, local
  <2>2. phase' # "new"
    BY <1>2 DEF Precompile
  <2> QED BY <2>1, <2>2, Zenon DEF Quiet
<1>3. CASE Interrupt \/ Free
  <2>1. /\ UNCHANGED <<mod, Stack, Visited, Callees, pc, CompileStatuses, Tasks>>
        /\ phase # "new"
    BY <1>3, Zenon DEF Interrupt, Free, search, atomics, local, pool
  <2>2. phase' # "new"
    BY <1>3 DEF Interrupt, Free
  <2> QED BY <2>1, <2>2, Zenon DEF Quiet
<1>4. ASSUME NEW t \in Threads, CompileToMC(t) PROVE Quiet
  <2>1. UNCHANGED <<mod, phase, Tasks, CompileStatuses, Stack, Visited, Callees>>
    BY <1>4 DEF CompileToMC, pool, atomics, search
  <2>2. pc'[t] = "emit" /\ \A u \in Threads : u # t => pc'[u] = pc[u]
    BY <1>4, GotoFrame, Zenon DEF CompileToMC
  <2>3. pc'[t] # "dispatch"
    BY <2>2
  <2> QED BY <1>1, <2>1, <2>2, <2>3, Zenon DEF Quiet
<1>5. ASSUME NEW t \in Threads, EmitObject(t) PROVE Quiet
  <2>1. UNCHANGED <<mod, phase, Tasks, CompileStatuses, Stack, Visited, Callees>>
    BY <1>5 DEF EmitObject, pool, atomics, search
  <2>2. pc'[t] = "link" /\ \A u \in Threads : u # t => pc'[u] = pc[u]
    BY <1>5, GotoFrame, Zenon DEF EmitObject
  <2>3. pc'[t] # "dispatch"
    BY <2>2
  <2> QED BY <1>1, <2>1, <2>2, <2>3, Zenon DEF Quiet
<1>6. ASSUME NEW t \in Threads, Link(t) PROVE Quiet
  <2>1. UNCHANGED <<mod, phase, Tasks, CompileStatuses, Stack, Visited, Callees>>
    BY <1>6 DEF Link, pool, atomics, search
  <2>2. pc'[t] = "linked" /\ \A u \in Threads : u # t => pc'[u] = pc[u]
    BY <1>6, GotoFrame, Zenon DEF Link
  <2>3. pc'[t] # "dispatch"
    BY <2>2
  <2> QED BY <1>1, <2>1, <2>2, <2>3, Zenon DEF Quiet
<1>7. ASSUME NEW c \in Callers, CallFunction(c) PROVE Quiet
  <2>1. UNCHANGED <<mod, phase, Tasks, CompileStatuses, Stack, Visited, Callees>>
    BY <1>7 DEF CallFunction, pool, atomics, search
  <2> QED BY <1>7, <2>1, CallerFrame, Zenon DEF Quiet
<1>8. ASSUME NEW c \in Callers, Request(c) PROVE Quiet
  <2>1. UNCHANGED <<mod, phase, Tasks, CompileStatuses, Stack, Visited, Callees>>
    BY <1>8 DEF Request, pool, atomics, search
  <2> QED BY <1>8, <2>1, CallerFrame, Zenon DEF Quiet
<1>9. ASSUME NEW c \in Callers, Recheck(c) PROVE Quiet
  <2>1. UNCHANGED <<mod, phase, Tasks, CompileStatuses, Stack, Visited, Callees>>
    BY <1>9 DEF Recheck, pool, atomics, search
  <2> QED BY <1>9, <2>1, CallerFrame, Zenon DEF Quiet
<1>10. ASSUME NEW c \in Callers, UseGreedy(c) PROVE Quiet
  <2>1. UNCHANGED <<mod, phase, Tasks, CompileStatuses, Stack, Visited, Callees>>
    BY <1>10 DEF UseGreedy, pool, atomics, search
  <2> QED BY <1>10, <2>1, CallerFrame, Zenon DEF Quiet
<1>11. ASSUME NEW c \in Callers, CallerPatch(c) PROVE Quiet
  <2>1. UNCHANGED <<mod, phase, Tasks, CompileStatuses, Stack, Visited, Callees>>
    BY <1>11 DEF CallerPatch, pool, atomics, search
  <2> QED BY <1>11, <2>1, CallerFrame, Zenon DEF Quiet
<1>12. ASSUME NEW c \in Callers, Enter(c) PROVE Quiet
  <2>1. UNCHANGED <<mod, phase, Tasks, CompileStatuses, Stack, Visited, Callees>>
    BY <1>12 DEF Enter, pool, atomics, search
  <2> QED BY <1>12, <2>1, CallerFrame, Zenon DEF Quiet
<1>13. ASSUME NEW w \in Workers, DispatchEnd(w) PROVE Quiet
  <2>1. UNCHANGED <<mod, phase, Tasks, CompileStatuses, Stack, Visited, Callees>>
    BY <1>13 DEF DispatchEnd, pool, atomics, search, Pool!Finish
  <2>2. pc'[w] = "idle" /\ \A u \in Threads : u # w => pc'[u] = pc[u]
    BY <1>1, <1>13, GotoFrame, Zenon DEF DispatchEnd
  <2>9. pc'[w] # "dispatch"
    BY <2>2
  <2> QED BY <1>1, <2>1, <2>2, <2>9, Zenon DEF Quiet
<1>14. ASSUME NEW w \in Workers, BackgroundPublish(w) PROVE Quiet
  <2>1. UNCHANGED <<mod, phase, Tasks, CompileStatuses, Stack, Visited, Callees>>
    BY <1>14 DEF BackgroundPublish, pool, atomics, search, Pool!Finish
  <2>2. pc'[w] = "done" /\ \A u \in Threads : u # w => pc'[u] = pc[u]
    BY <1>1, <1>14, GotoFrame, Zenon DEF BackgroundPublish
  <2>9. pc'[w] # "dispatch"
    BY <2>2
  <2> QED BY <1>1, <2>1, <2>2, <2>9, Zenon DEF Quiet
<1>15. ASSUME NEW w \in Workers, BackgroundPatch(w) PROVE Quiet
  <2>1. UNCHANGED <<mod, phase, Tasks, CompileStatuses, Stack, Visited, Callees>>
    BY <1>15 DEF BackgroundPatch, pool, atomics, search, Pool!Finish
  <2>2. pc'[w] = "idle" /\ \A u \in Threads : u # w => pc'[u] = pc[u]
    BY <1>1, <1>15, GotoFrame, Zenon DEF BackgroundPatch
  <2>9. pc'[w] # "dispatch"
    BY <2>2
  <2> QED BY <1>1, <2>1, <2>2, <2>9, Zenon DEF Quiet
<1>16. ASSUME NEW w \in Workers, BackgroundStart(w) PROVE Quiet
  <2>1. UNCHANGED <<mod, phase, Tasks, Stack, Visited, Callees>>
    BY <1>16 DEF BackgroundStart, pool, atomics, search
  <2>2. pc'[w] = "compile" /\ \A u \in Threads : u # w => pc'[u] = pc[u]
    BY <1>1, <1>16, GotoFrame, Zenon DEF BackgroundStart
  <2>9. pc'[w] # "dispatch"
    BY <2>2
  <2>3. job[w] \in Funcs
    BY <1>1, <1>16, HasJob DEF BackgroundStart, Idle
  <2>4. CompileStatuses' = [CompileStatuses EXCEPT ![job[w]] = "InProgress"]
    BY <1>16 DEF BackgroundStart
  <2>5. CompileStatuses'[job[w]] = "InProgress"
        /\ \A g \in Funcs : g # job[w] => CompileStatuses'[g] = CompileStatuses[g]
    BY <2>3, <2>4, FuncFrames, Zenon
  <2>6. CompileStatuses[job[w]] # "None"
    BY <1>16 DEF BackgroundStart, Queued, HandsOK, CompilePcs
  <2>7. \A f \in Funcs : CompileStatuses'[f] = "None" <=> CompileStatuses[f] = "None"
    BY <2>5, <2>6
  <2> QED BY <1>1, <2>1, <2>2, <2>7, <2>9, Zenon DEF Quiet
<1>17. ASSUME NEW w \in Workers, BackgroundDone(w) PROVE Quiet
  <2>1. UNCHANGED <<mod, phase, Tasks, Stack, Visited, Callees>>
    BY <1>17 DEF BackgroundDone, pool, atomics, search
  <2>2. pc'[w] = "patch" /\ \A u \in Threads : u # w => pc'[u] = pc[u]
    BY <1>1, <1>17, GotoFrame, Zenon DEF BackgroundDone
  <2>9. pc'[w] # "dispatch"
    BY <2>2
  <2>3. job[w] \in Funcs
    BY <1>1, <1>17, HasJob DEF BackgroundDone, Idle
  <2>4. CompileStatuses' = [CompileStatuses EXCEPT ![job[w]] = "Done"]
    BY <1>17 DEF BackgroundDone
  <2>5. CompileStatuses'[job[w]] = "Done"
        /\ \A g \in Funcs : g # job[w] => CompileStatuses'[g] = CompileStatuses[g]
    BY <2>3, <2>4, FuncFrames, Zenon
  <2>6. CompileStatuses[job[w]] # "None"
    BY <1>17 DEF BackgroundDone, Queued, HandsOK, CompilePcs
  <2>7. \A f \in Funcs : CompileStatuses'[f] = "None" <=> CompileStatuses[f] = "None"
    BY <2>5, <2>6
  <2> QED BY <1>1, <2>1, <2>2, <2>7, <2>9, Zenon DEF Quiet
<1>18. ASSUME NEW w \in Workers, TakeTask(w) PROVE Quiet
  <2>1. UNCHANGED <<mod, phase, CompileStatuses, Stack, Visited, Callees>>
        /\ Tasks # << >> /\ Tasks' = Tail(Tasks)
    BY <1>18 DEF TakeTask, atomics, search, Pool!Take
  <2>2. pc'[w] = "inProgress" /\ \A u \in Threads : u # w => pc'[u] = pc[u]
    BY <1>1, <1>18, GotoFrame, Zenon DEF TakeTask
  <2>9. pc'[w] # "dispatch"
    BY <2>2
  <2>3. Elems(Tasks') \subseteq Elems(Tasks)
    BY <1>1, <2>1, TailDistinct, Zenon DEF DataType, Queued, QueueOK
  <2> QED BY <1>1, <2>1, <2>2, <2>3, <2>9, Zenon DEF Quiet
<1> QED
  BY <1>2, <1>3, <1>4, <1>5, <1>6, <1>7, <1>8, <1>9, <1>10, <1>11, <1>12, <1>13,
     <1>14, <1>15, <1>16, <1>17, <1>18, NextCases, Zenon

(* Starting the search establishes its invariant. *)
LEMMA TakeDispatchSearch ==
  ASSUME TypeInv, Queued, Searchers, NEW w \in Workers, TakeDispatch(w)
  PROVE  Searchers' /\ Search'
<1> USE LazyJITAssumption
<1>1. TypeOK /\ DataType /\ w \in Threads /\ Workers \subseteq Threads
  BY TypeInvTypeOK, Zenon DEF TypeInv, Threads
<1>2. Tasks # << >> /\ Tasks' = Tail(Tasks) /\ Head(Tasks) = Dispatch
  BY DEF TakeDispatch, Pool!Take
<1>3. Dispatch \in Elems(Tasks) /\ Dispatch \notin Elems(Tasks')
  <2>1. Tasks \in Seq(TaskIds) /\ Distinct(Tasks)
    BY <1>1 DEF DataType, Queued, QueueOK
  <2>2. Head(Tasks) \in Elems(Tasks) /\ Elems(Tail(Tasks)) = Elems(Tasks) \ {Head(Tasks)}
    BY <1>2, <2>1, TailDistinct
  <2> QED BY <1>2, <2>2
<1>4. pc'[w] = "dispatch" /\ \A u \in Threads : u # w => pc'[u] = pc[u]
  BY <1>1, GotoFrame, Zenon DEF TakeDispatch
<1>5. ~Searching /\ \A f \in Funcs : CompileStatuses[f] = "None"
  BY <1>3, Zenon DEF Searchers
<1>6. /\ UNCHANGED <<mod, phase, CompileStatuses>> /\ phase # "new"
      /\ Stack' = EntryStack /\ Visited' = {} /\ Callees' = << >>
  BY DEF TakeDispatch, atomics
<1>7. Searchers'
  <2>1. \A u, v \in Workers : pc'[u] = "dispatch" /\ pc'[v] = "dispatch" => u = v
    BY <1>1, <1>4, <1>5, Zenon DEF Searching
  <2> QED BY <1>3, <1>5, <1>6, <2>1, Zenon DEF Searchers
<1>8. Elems(EntryStack) = Entries
  <2>1. mod.start \in Funcs \cup {None} /\ mod.exported \in Seq(Funcs)
    BY <1>1, SearchTypes
  <2>2. CASE mod.start = None
    BY <2>2 DEF EntryStack, Entries
  <2>3. CASE mod.start # None
    <3> DEFINE s == WithoutFirst(mod.exported, mod.start)
    <3>1. /\ s \in Seq(Funcs) /\ Elems(s) \subseteq Elems(mod.exported)
          /\ Elems(mod.exported) \subseteq Elems(s) \cup {mod.start}
      BY <2>1, WithoutFirstElems
    <3>2. Elems(Append(s, mod.start)) = Elems(s) \cup {mod.start}
      <4> HIDE DEF s
      <4> QED BY <2>1, <2>3, <3>1, AppendElems
    <3>3. EntryStack = Append(s, mod.start) /\ Entries = Elems(mod.exported) \cup {mod.start}
      BY <2>3 DEF EntryStack, Entries
    <3> HIDE DEF s
    <3> QED BY <3>1, <3>2, <3>3
  <2> QED BY <2>2, <2>3
<1>9. Entries' = Entries /\ Reachable' = Reachable /\ Elems(<< >>) = {}
  BY <1>6 DEF Entries, Reachable, Closed, Elems
<1>10. Found' = Entries
  BY <1>6, <1>8, Zenon DEF Found
<1> QED BY <1>1, <1>6, <1>7, <1>9, <1>10, ReachableFacts DEF Search

(* Looking at one callee keeps the search's invariant. *)
LEMMA DispatchCalleeSearch ==
  ASSUME TypeInv, Searchers, Search, NEW w \in Workers, DispatchCallee(w)
  PROVE  Searchers' /\ Search'
<1> DEFINE g == Last(Callees)
<1>1. TypeOK
  BY TypeInvTypeOK
<1>2. /\ UNCHANGED <<mod, phase, Tasks, pc, CompileStatuses, Visited>>
      /\ Callees # << >> /\ Callees' = Front(Callees)
      /\ Stack' = IF g \in Visited THEN Stack ELSE Append(Stack, g)
      /\ pc[w] = "dispatch"
  BY DEF DispatchCallee, pool, atomics, local
<1>3. g \in Funcs /\ Callees \in Seq(Funcs) /\ Stack \in Seq(Funcs)
  BY <1>1, <1>2, SearchTypes DEF TypeOK
<1>4. Elems(Callees) = Elems(Callees') \cup {g}
  BY <1>2, <1>3, LastFront
<1>5. Visited \cup Elems(Stack') = Found \cup {g} /\ Found' = Found \cup {g}
  <2>1. Elems(Append(Stack, g)) = Elems(Stack) \cup {g}
    BY <1>3, AppendElems
  <2> HIDE DEF g
  <2> QED BY <1>2, <2>1 DEF Found
<1> HIDE DEF g
<1>6. Searching /\ Searching' = Searching
  BY <1>2 DEF Searching
<1>7. ~(phase = "new" \/ Dispatch \in Elems(Tasks))
  BY <1>6, Zenon DEF Searchers
<1>8. Searchers'
  BY <1>2, <1>7, Zenon DEF Searchers
<1>9. Entries' = Entries /\ Reachable' = Reachable
  BY <1>2, Zenon DEF Entries, Reachable, Closed
<1>10. Search'
  BY <1>2, <1>4, <1>5, <1>6, <1>9 DEF Search
<1> QED BY <1>8, <1>10

(* Taking the next function off the stack keeps the search's invariant. *)
LEMMA DispatchNextSearch ==
  ASSUME TypeInv, Queued, Searchers, Search, NEW w \in Workers, DispatchNext(w)
  PROVE  Searchers' /\ Search'
<1> USE LazyJITAssumption
<1> DEFINE g == Last(Stack)
<1>1. TypeOK
  BY TypeInvTypeOK
<1>2. /\ UNCHANGED <<mod, phase, pc>> /\ dispatchCompileTask(w, g)
      /\ Callees = << >> /\ Callees' = mod.calls[g] /\ Visited' = Visited \cup {g}
      /\ Stack # << >> /\ Stack' = Front(Stack) /\ pc[w] = "dispatch"
  BY DEF DispatchNext, local
<1>3. g \in Funcs /\ Stack \in Seq(Funcs) /\ Tasks \in Seq(TaskIds) /\ g \in TaskIds
      /\ mod.calls \in [Funcs -> Seq(Funcs)]
  BY <1>1, <1>2, SearchTypes DEF TypeOK, TaskIds
<1>4. Elems(Stack) = Elems(Stack') \cup {g}
  BY <1>2, <1>3, LastFront
<1> HIDE DEF g
<1>5. Searching /\ Searching' = Searching
  BY <1>2 DEF Searching
<1>6. phase # "new" /\ Dispatch \notin Elems(Tasks)
  BY <1>5, Zenon DEF Searchers
<1>7. Dispatch \notin Elems(Tasks')
      /\ \A f \in Funcs : CompileStatuses'[f] # "None" <=> f \in Visited'
  <2>1. CASE CompileStatuses[g] = "None"
    <3>1. Tasks' = Append(Tasks, g) /\ CompileStatuses' = [CompileStatuses EXCEPT ![g] = "Pending"]
      BY <1>2, <2>1 DEF dispatchCompileTask, Pool!Push
    <3>2. Elems(Tasks') = Elems(Tasks) \cup {g}
      BY <1>3, <3>1, AppendElems
    <3>3. CompileStatuses'[g] = "Pending"
          /\ \A h \in Funcs : h # g => CompileStatuses'[h] = CompileStatuses[h]
      BY <1>3, <3>1, FuncFrames, Zenon
    <3>4. Dispatch \notin Elems(Tasks')
      BY <1>3, <1>6, <3>2
    <3> QED BY <1>2, <3>3, <3>4 DEF Searchers
  <2>2. CASE CompileStatuses[g] # "None"
    BY <1>2, <1>3, <1>6, <2>2, Zenon DEF dispatchCompileTask, pool, Searchers
  <2> QED BY <2>1, <2>2
<1>8. Searchers'
  BY <1>2, <1>6, <1>7, Zenon DEF Searchers
<1>9. Entries' = Entries /\ Reachable' = Reachable /\ Elems(<< >>) = {}
  BY <1>2 DEF Entries, Reachable, Closed, Elems
<1>10. Found' = Found /\ g \in Found
  BY <1>2, <1>4 DEF Found
<1>11. Elems(mod.calls[g]) \subseteq Reachable
  BY <1>1, <1>10, ReachableFacts, Zenon DEF Search
<1>12. /\ Found \subseteq Reachable /\ Entries \subseteq Found
       /\ \A f \in Visited : Elems(mod.calls[f]) \subseteq Found
  BY <1>2, <1>5, <1>9 DEF Search
<1>13. \A f \in Visited' : Elems(mod.calls[f]) \subseteq Found \cup Elems(Callees')
  BY <1>2, <1>12, Zenon
<1>14. Elems(Callees') \subseteq Reachable
  BY <1>2, <1>11
<1>15. Search'
  BY <1>2, <1>9, <1>10, <1>12, <1>13, <1>14 DEF Search
<1> QED BY <1>8, <1>15

FindInv == TypeInv /\ Queued /\ Searchers /\ Search

(* Every step keeps the invariant of the search. *)
LEMMA FindInvStep ==
  ASSUME FindInv, [Next]_vars PROVE FindInv'
<1>1. CASE Next
  <2>1. TypeInv' /\ Queued'
    BY <1>1, TypeInvStep, QueuedStep DEF FindInv
  <2>2. Searchers' /\ Search'
    BY <1>1, QuietStep, QuietSearch, TakeDispatchSearch, DispatchNextSearch,
       DispatchCalleeSearch, Zenon DEF FindInv
  <2> QED BY <2>1, <2>2 DEF FindInv
<1>2. CASE UNCHANGED vars
  <2>1. TypeInv'
    BY <1>2, TypeInvStep DEF FindInv
  <2>2. Queued'
    BY <1>2, QueuedSame, Zenon DEF FindInv, vars, pool, atomics, local
  <2>3. Quiet
    BY <1>2, Zenon DEF Quiet, vars, pool, atomics, local, search
  <2> QED BY <2>1, <2>2, <2>3, QuietSearch DEF FindInv
<1> QED BY <1>1, <1>2

(* The invariant of the search holds initially. *)
LEMMA FindInvInit ==
  ASSUME Init PROVE FindInv
<1>1. TypeInv /\ Queued
  BY TypeInvInit, QueuedInit
<1>2. /\ Stack = << >> /\ Visited = {} /\ Callees = << >> /\ ~Searching
      /\ \A f \in Funcs : CompileStatuses[f] = "None"
  <2>1. \A w \in Workers : pc[w] = "idle"
    BY Zenon DEF Init, Threads
  <2>2. ~Searching
    BY <2>1 DEF Searching
  <2> QED BY <2>2, Zenon DEF Init
<1>3. Searchers
  BY <1>2 DEF Searchers, Searching
<1>4. Elems(<< >>) = {}
  BY DEF Elems
<1>5. Search
  BY <1>2, <1>4, Zenon DEF Search, Found
<1> QED BY <1>1, <1>3, <1>5 DEF FindInv

(* The depth-first dispatch is exact for every call graph, recursive ones  *)
(* included: it dispatches no function that cannot be reached from the     *)
(* start function and the exports, and when its stack is empty it has      *)
(* dispatched all that can (dispatchCompileTasksDepthFirst).               *)
THEOREM DispatchExact == Spec => []DispatchIsExact
<1>1. Init => FindInv
  BY FindInvInit
<1>2. FindInv /\ [Next]_vars => FindInv'
  BY FindInvStep
<1>3. ASSUME FindInv PROVE DispatchIsExact
  <2>1. TypeOK /\ Visited \in SUBSET Funcs /\ Elems(<< >>) = {}
    BY <1>3, TypeInvTypeOK DEF FindInv, TypeOK, Elems
  <2>2. \A f \in Funcs : CompileStatuses[f] # "None" <=> f \in Visited
    BY <1>3, Zenon DEF FindInv, Searchers
  <2>3. Visited \subseteq Reachable
    BY <1>3 DEF FindInv, Search, Found
  <2>4. ASSUME Visited # {}, Stack = << >>, Callees = << >> PROVE Reachable \subseteq Visited
    <3>1. Found = Visited /\ Elems(Callees) = {}
      BY <2>1, <2>4 DEF Found
    <3>2. Entries \subseteq Visited /\ \A f \in Visited : Elems(mod.calls[f]) \subseteq Visited
      BY <1>3, <2>4, <3>1 DEF FindInv, Search
    <3> QED BY <2>1, <3>2, ReachableFacts, Zenon
  <2>5. Reachable \subseteq Funcs
    BY Zenon DEF Reachable
  <2> QED BY <2>2, <2>3, <2>4, <2>5, Zenon DEF DispatchIsExact
<1> QED BY <1>1, <1>2, <1>3, PTL DEF Spec

-----------------------------------------------------------------------------
(* The code.  On-request compilations share the main context, so what      *)
(* follows is for one caller, as the lazy mode requires.                   *)
OneCaller == \A a, b \in Callers : a = b

(* What a thread holds belongs to the function it handles. *)
Compiled(f, c) == c \in Code /\ c.func = f /\ perm[c] = "exec"
HeldBy(t) ==
  /\ pc[t] = "emit" => Ctx[ContextOf(t)].func = job[t]
  /\ pc[t] = "link" => Ctx[ContextOf(t)].code = [func |-> job[t], by |-> t]
  /\ pc[t] \in {"linked", "done", "patch", "enter"} => Compiled(job[t], ret[t])
Held == \A t \in Threads : HeldBy(t)

(* What can be jumped to is finished, and Done has a pointer. *)
Published ==
  /\ \A f \in Funcs :
       /\ GreedyRACodePtrs[f] # None => Compiled(f, GreedyRACodePtrs[f])
       /\ stub[f] # None => Compiled(f, stub[f])
       /\ CompileStatuses[f] = "Done" => GreedyRACodePtrs[f] # None
  /\ \A t \in Threads : pc[t] \in {"done", "useGreedy"} => GreedyRACodePtrs[job[t]] # None

(* A thread that has generated a function's code has no more need to. *)
Generated(f, t) == perm[[func |-> f, by |-> t]] # "none"
OnceWorker(w) ==
  \A f \in Funcs : Generated(f, w) =>
    CompileStatuses[f] = "Done" \/ (job[w] = f /\ pc[w] \in {"link", "linked", "done"})
OnceCaller(c) ==
  \A f \in Funcs : Generated(f, c) =>
    \/ stub[f] # None \/ CompileStatuses[f] = "Done"
    \/ job[c] = f /\ pc[c] \in {"link", "linked", "patch"}
OnceAsked(c) ==
  /\ pc[c] = "request" /\ Generated(job[c], c) => CompileStatuses[job[c]] = "Done"
  /\ pc[c] \in {"compile", "emit"} => ~Generated(job[c], c)
Once ==
  /\ \A w \in Workers : OnceWorker(w)
  /\ \A c \in Callers : OnceCaller(c) /\ OnceAsked(c)

(* With one caller, no two threads compile in the same context. *)
LEMMA OwnContext ==
  ASSUME OneCaller
  PROVE  \A t, u \in Threads : t # u =>
           ContextOf(t) \in Contexts /\ ContextOf(u) \in Contexts /\ ContextOf(t) # ContextOf(u)
  BY LazyJITAssumption, Zenon DEF OneCaller, ContextOf, Threads, Contexts

(* Code that is emitted was never generated before. *)
LEMMA EmitFresh ==
  ASSUME TypeInv, Queued, Held, Once, NEW t \in Threads, pc[t] = "emit"
  PROVE  /\ job[t] \in Funcs /\ Ctx[ContextOf(t)].func = job[t]
         /\ [func |-> job[t], by |-> t] \in Code
         /\ perm[[func |-> job[t], by |-> t]] = "none"
<1>1. job[t] \in Funcs
  BY HasJob DEF Idle
<1>2. [func |-> job[t], by |-> t] \in Code
  BY <1>1 DEF Code
<1>3. Ctx[ContextOf(t)].func = job[t]
  BY Zenon DEF Held, HeldBy
<1>4. CASE t \in Workers
  <2>1. CompileStatuses[job[t]] = "InProgress"
    BY <1>4 DEF Queued, HandsOK, CompilePcs
  <2> QED BY <1>1, <1>2, <1>3, <1>4, <2>1 DEF Once, OnceWorker, Generated
<1>5. CASE t \in Callers
  BY <1>1, <1>2, <1>3, <1>5 DEF Once, OnceAsked, Generated
<1> QED BY <1>4, <1>5 DEF Threads

(* What a step of t may do to what others rely on. *)
CtxOthers(t) == \A u \in Threads : u # t => Ctx'[ContextOf(u)] = Ctx[ContextOf(u)]
PermGrows == \A c \in Code : perm[c] # "none" => perm'[c] \in {perm[c], "exec"}
NewOnly(t) ==
  \A f \in Funcs, u \in Threads : perm'[[func |-> f, by |-> u]] # "none" =>
    Generated(f, u) \/ (u = t /\ f = job[t] /\ pc'[t] \in {"link", "linked"})
Stays ==
  \A f \in Funcs :
    /\ CompileStatuses[f] = "Done" => CompileStatuses'[f] = "Done"
    /\ GreedyRACodePtrs[f] # None => GreedyRACodePtrs'[f] # None
    /\ stub[f] # None => stub'[f] # None
Effect(t) == Others(t) /\ CtxOthers(t) /\ PermGrows /\ NewOnly(t) /\ Stays

(* Emitting writes the object of the thread's own function in its own
   context, and touches no other thread's. *)
LEMMA EffectEmit ==
  ASSUME OneCaller, TypeInv, Queued, Held, Once, NEW t \in Threads, EmitObject(t)
  PROVE  /\ Effect(t) /\ pc'[t] = "link" /\ job' = job
         /\ Ctx'[ContextOf(t)].code = [func |-> job[t], by |-> t]
<1> DEFINE x == ContextOf(t)
           c == [func |-> job[t], by |-> t]
<1>1. pc[t] = "emit" /\ pc'[t] = "link" /\ job' = job /\ UNCHANGED atomics
  BY GotoFrame, Zenon DEF EmitObject
<1>2. /\ job[t] \in Funcs /\ Ctx[x].func = job[t] /\ c \in Code /\ perm[c] = "none"
  BY <1>1, EmitFresh
<1>3. Ctx' = [Ctx EXCEPT ![x].code = c] /\ perm' = [perm EXCEPT ![c] = "write"]
  BY <1>2, Zenon DEF EmitObject
<1>4. x \in Contexts /\ Ctx \in [Contexts -> [func : Funcs \cup {None}, code : Code \cup {None}]]
      /\ perm \in [Code -> {"none", "write", "exec"}]
  BY Zenon DEF ContextOf, Contexts, TypeInv, DataType
<1> HIDE DEF c
<1>5. Ctx'[x].code = c /\ \A y \in Contexts : y # x => Ctx'[y] = Ctx[y]
  BY <1>3, <1>4
<1>6. CtxOthers(t)
  BY <1>5, OwnContext, Zenon DEF CtxOthers
<1>7. perm'[c] = "write" /\ \A d \in Code : d # c => perm'[d] = perm[d]
  BY <1>2, <1>3, <1>4, Zenon
<1>8. PermGrows
  BY <1>2, <1>7, Zenon DEF PermGrows
<1>9. NewOnly(t)
  <2>1. ASSUME NEW f \in Funcs, NEW u \in Threads, [func |-> f, by |-> u] = c
        PROVE  u = t /\ f = job[t]
    BY <2>1 DEF c
  <2>2. \A f \in Funcs, u \in Threads : [func |-> f, by |-> u] \in Code
    BY DEF Code
  <2> QED BY <1>1, <1>7, <2>1, <2>2, Zenon DEF NewOnly, Generated
<1>10. Stays
  BY <1>1, Zenon DEF Stays, atomics
<1> QED BY <1>1, <1>5, <1>6, <1>8, <1>9, <1>10, CompileOthers, Zenon DEF Effect, c

(* Linking makes that object executable, and touches no other thread's. *)
LEMMA EffectLink ==
  ASSUME OneCaller, TypeInv, Held, NEW t \in Threads, Link(t)
  PROVE  /\ Effect(t) /\ pc'[t] = "linked" /\ job' = job
         /\ ret'[t] = [func |-> job[t], by |-> t] /\ perm'[ret'[t]] = "exec"
<1> DEFINE c == [func |-> job[t], by |-> t]
<1>1. pc[t] = "link" /\ pc'[t] = "linked" /\ job' = job /\ UNCHANGED <<atomics, Ctx>>
  BY GotoFrame, Zenon DEF Link
<1>2. Ctx[ContextOf(t)].code = c
  BY <1>1 DEF Held, HeldBy
<1>3. job[t] \in Funcs
  BY <1>1, HasJob DEF Idle
<1>4. c \in Code /\ perm \in [Code -> {"none", "write", "exec"}]
  BY <1>3 DEF Code, TypeInv, DataType
<1>5. perm' = [perm EXCEPT ![c] = "exec"] /\ ret' = [ret EXCEPT ![t] = c]
  BY <1>2, Zenon DEF Link
<1> HIDE DEF c
<1>6. perm'[c] = "exec" /\ \A d \in Code : d # c => perm'[d] = perm[d]
  BY <1>4, <1>5, Zenon
<1>7. ret'[t] = c
  BY <1>5, RetFrame, Zenon
<1>8. PermGrows
  BY <1>6, Zenon DEF PermGrows
<1>9. NewOnly(t)
  <2>1. ASSUME NEW f \in Funcs, NEW u \in Threads, [func |-> f, by |-> u] = c
        PROVE  u = t /\ f = job[t]
    BY <2>1 DEF c
  <2>2. \A f \in Funcs, u \in Threads : [func |-> f, by |-> u] \in Code
    BY DEF Code
  <2> QED BY <1>1, <1>6, <2>1, <2>2, Zenon DEF NewOnly, Generated
<1>10. Stays /\ CtxOthers(t)
  BY <1>1, Zenon DEF Stays, atomics, CtxOthers
<1> QED BY <1>1, <1>6, <1>7, <1>8, <1>9, <1>10, CompileOthers, Zenon DEF Effect, c

(* A step without an emission or a link touches no object. *)
LEMMA EffectRest ==
  ASSUME NEW t, Others(t), CtxOthers(t), Stays, perm' = perm PROVE Effect(t)
  BY Zenon DEF Effect, PermGrows, NewOnly, Generated

(* What is left to show of the thread that takes a step. *)
LEMMA HeldFrom ==
  ASSUME Held, NEW t \in Threads, Effect(t), HeldBy(t)' PROVE Held'
<1> SUFFICES ASSUME NEW u \in Threads, u # t PROVE HeldBy(u)'
  BY Zenon DEF Held
<1>1. /\ pc'[u] = pc[u] /\ job'[u] = job[u] /\ ret'[u] = ret[u]
      /\ Ctx'[ContextOf(u)] = Ctx[ContextOf(u)]
  BY Zenon DEF Effect, Others, CtxOthers
<1>2. Compiled(job[u], ret[u]) => Compiled(job[u], ret[u])'
  BY <1>1 DEF Effect, PermGrows, Compiled
<1>3. ContextOf(u)' = ContextOf(u)
  BY DEF ContextOf
<1> QED BY <1>1, <1>2, <1>3, Zenon DEF Held, HeldBy

(* Executable code stays executable. *)
LEMMA CompiledStays ==
  ASSUME PermGrows, NEW f, NEW c, Compiled(f, c)
  PROVE  c \in Code /\ c.func = f /\ perm'[c] = "exec"
  BY DEF PermGrows, Compiled

(* Code pointers and stubs only ever come to point at finished code. *)
LEMMA PublishedFrom ==
  ASSUME TypeInv, Published, NEW t \in Threads, Effect(t),
         \A f \in Funcs :
           /\ GreedyRACodePtrs'[f] \in {None, GreedyRACodePtrs[f]} \/ Compiled(f, GreedyRACodePtrs[f])'
           /\ stub'[f] \in {None, stub[f]} \/ Compiled(f, stub[f])'
           /\ CompileStatuses'[f] = "Done" => CompileStatuses[f] = "Done" \/ GreedyRACodePtrs[f] # None,
         pc'[t] \in {"done", "useGreedy"} => GreedyRACodePtrs'[job'[t]] # None
  PROVE  Published'
<1>1. PermGrows
  BY DEF Effect
<1>2. ASSUME NEW f \in Funcs
      PROVE  /\ GreedyRACodePtrs'[f] # None => Compiled(f, GreedyRACodePtrs[f])'
             /\ stub'[f] # None => Compiled(f, stub[f])'
  <2>1. ASSUME GreedyRACodePtrs'[f] = GreedyRACodePtrs[f], GreedyRACodePtrs'[f] # None
        PROVE  Compiled(f, GreedyRACodePtrs[f])'
    <3>1. Compiled(f, GreedyRACodePtrs[f])
      BY <2>1, Zenon DEF Published
    <3>2. /\ GreedyRACodePtrs[f] \in Code /\ GreedyRACodePtrs[f].func = f
          /\ perm'[GreedyRACodePtrs[f]] = "exec"
      BY <1>1, <3>1, CompiledStays
    <3>3. Compiled(f, GreedyRACodePtrs[f])'
      BY <2>1, <3>2 DEF Compiled
    <3> QED BY <3>3
  <2>2. ASSUME stub'[f] = stub[f], stub'[f] # None
        PROVE  Compiled(f, stub[f])'
    <3>1. Compiled(f, stub[f])
      BY <2>2, Zenon DEF Published
    <3>2. stub[f] \in Code /\ stub[f].func = f /\ perm'[stub[f]] = "exec"
      BY <1>1, <3>1, CompiledStays
    <3>3. Compiled(f, stub[f])'
      BY <2>2, <3>2 DEF Compiled
    <3> QED BY <3>3
  <2> QED BY <2>1, <2>2, Zenon
<1>3. \A f \in Funcs : CompileStatuses'[f] = "Done" => GreedyRACodePtrs'[f] # None
  BY Zenon DEF Published, Effect, Stays
<1>4. ASSUME NEW u \in Threads, pc'[u] \in {"done", "useGreedy"}
      PROVE  GreedyRACodePtrs'[job'[u]] # None
  <2>1. CASE u = t
    BY <1>4, <2>1
  <2>2. CASE u # t
    <3>1. pc[u] \in {"done", "useGreedy"} /\ job'[u] = job[u]
      BY <1>4, <2>2, Zenon DEF Effect, Others
    <3>2. job[u] \in Funcs
      BY <3>1, HasJob DEF Idle
    <3> QED BY <3>1, <3>2, Zenon DEF Published, Effect, Stays
  <2> QED BY <2>1, <2>2
<1> QED BY <1>2, <1>3, <1>4, Zenon DEF Published

OnceBy(t) ==
  /\ t \in Workers => OnceWorker(t)
  /\ t \in Callers => OnceCaller(t) /\ OnceAsked(t)

(* A step keeps the single compilation when it does so for the thread
   that takes it. *)
LEMMA OnceFrom ==
  ASSUME TypeInv, Once, NEW t \in Threads, Effect(t), OnceBy(t)' PROVE Once'
<1>1. ASSUME NEW u \in Threads, u # t
      PROVE  /\ pc'[u] = pc[u] /\ job'[u] = job[u]
             /\ \A f \in Funcs : Generated(f, u)' => Generated(f, u)
  BY <1>1, Zenon DEF Effect, Others, NewOnly, Generated
<1>2. ASSUME NEW w \in Workers PROVE OnceWorker(w)'
  <2>1. CASE w = t
    BY <2>1, Zenon DEF OnceBy
  <2>2. CASE w # t
    <3>1. w \in Threads
      BY DEF Threads
    <3> QED BY <1>1, <2>2, <3>1, Zenon DEF Once, OnceWorker, Effect, Stays
  <2> QED BY <2>1, <2>2
<1>3. ASSUME NEW c \in Callers PROVE OnceCaller(c)' /\ OnceAsked(c)'
  <2>1. CASE c = t
    BY <2>1, Zenon DEF OnceBy
  <2>2. CASE c # t
    <3>1. c \in Threads
      BY DEF Threads
    <3>2. OnceCaller(c)'
      BY <1>1, <2>2, <3>1, Zenon DEF Once, OnceCaller, Effect, Stays
    <3>3. ASSUME pc[c] \in {"request", "compile", "emit"} PROVE job[c] \in Funcs
      BY <3>1, <3>3, HasJob DEF Idle
    <3>4. OnceAsked(c)
      BY Zenon DEF Once
    <3>5. pc'[c] = "request" /\ Generated(job[c], c)' => CompileStatuses'[job'[c]] = "Done"
      BY <1>1, <2>2, <3>1, <3>3, <3>4, Zenon DEF OnceAsked, Effect, Stays
    <3>6. pc'[c] \in {"compile", "emit"} => ~Generated(job[c], c)'
      BY <1>1, <2>2, <3>1, <3>3, <3>4, Zenon DEF OnceAsked
    <3> QED BY <3>2, <3>5, <3>6, Zenon DEF OnceAsked
  <2> QED BY <2>1, <2>2
<1> QED BY <1>2, <1>3, Zenon DEF Once

(* A worker that keeps its function, or has it recorded as done, compiles
   it once. *)
LEMMA OnceWorkerMove ==
  ASSUME NEW w \in Workers, OnceWorker(w), Effect(w),
         pc[w] \in {"link", "linked", "done"} \/ pc'[w] \in {"link", "linked"} =>
           \/ job'[w] = job[w] /\ pc'[w] \in {"link", "linked", "done"}
           \/ CompileStatuses'[job[w]] = "Done"
  PROVE  OnceBy(w)'
<1>1. w \in Threads /\ w \notin Callers
  BY LazyJITAssumption DEF Threads
<1>2. ASSUME NEW f \in Funcs, Generated(f, w)'
      PROVE  CompileStatuses'[f] = "Done" \/ (job'[w] = f /\ pc'[w] \in {"link", "linked", "done"})
  <2>1. Generated(f, w) \/ (f = job[w] /\ pc'[w] \in {"link", "linked"})
    BY <1>1, <1>2, Zenon DEF Effect, NewOnly, Generated
  <2> QED BY <2>1, Zenon DEF OnceWorker, Effect, Stays
<1> QED BY <1>1, <1>2, Zenon DEF OnceBy, OnceWorker

(* The same for a caller, which may also leave a patched stub. *)
LEMMA OnceCallerMove ==
  ASSUME NEW c \in Callers, OnceCaller(c), Effect(c), OnceAsked(c)',
         pc[c] \in {"link", "linked", "patch"} \/ pc'[c] \in {"link", "linked"} =>
           \/ job'[c] = job[c] /\ pc'[c] \in {"link", "linked", "patch"}
           \/ CompileStatuses'[job[c]] = "Done" \/ stub'[job[c]] # None
  PROVE  OnceBy(c)'
<1>1. c \in Threads /\ c \notin Workers
  BY LazyJITAssumption DEF Threads
<1>2. ASSUME NEW f \in Funcs, Generated(f, c)'
      PROVE  \/ stub'[f] # None \/ CompileStatuses'[f] = "Done"
             \/ job'[c] = f /\ pc'[c] \in {"link", "linked", "patch"}
  <2>1. Generated(f, c) \/ (f = job[c] /\ pc'[c] \in {"link", "linked"})
    BY <1>1, <1>2, Zenon DEF Effect, NewOnly, Generated
  <2> QED BY <2>1, Zenon DEF OnceCaller, Effect, Stays
<1> QED BY <1>1, <1>2, Zenon DEF OnceBy, OnceCaller

CodeInv == Held /\ Published /\ Once

(* A step that sets no pointer and no stub keeps what is published. *)
LEMMA PublishedSame ==
  ASSUME TypeInv, Published, NEW t \in Threads, Effect(t), UNCHANGED <<GreedyRACodePtrs, stub>>,
         \A f \in Funcs : CompileStatuses'[f] = "Done" => CompileStatuses[f] = "Done",
         pc'[t] \in {"done", "useGreedy"} => GreedyRACodePtrs[job'[t]] # None
  PROVE  Published'
  BY PublishedFrom, Zenon

(* The invariant of the code after a step, from the part of the thread
   that takes it. *)
LEMMA CodeFrom ==
  ASSUME TypeInv, CodeInv, NEW t \in Threads, Effect(t), HeldBy(t)', OnceBy(t)', Published'
  PROVE  CodeInv'
  BY HeldFrom, OnceFrom, Zenon DEF CodeInv

(* A worker that is not compiling. *)
LEMMA WorkerQuiet ==
  ASSUME TypeInv, CodeInv, NEW w \in Workers, Others(w),
         UNCHANGED <<Ctx, perm, GreedyRACodePtrs, stub>>,
         pc[w] \in {"idle", "dispatch", "inProgress"},
         pc'[w] \in {"idle", "dispatch", "inProgress", "compile"},
         \A f \in Funcs : CompileStatuses'[f] = "Done" <=> CompileStatuses[f] = "Done"
  PROVE  CodeInv'
<1>1. w \in Threads
  BY DEF Threads
<1>2. Effect(w)
  <2>1. CtxOthers(w) /\ Stays
    BY Zenon DEF CtxOthers, Stays
  <2> QED BY <2>1, EffectRest, Zenon
<1>3. HeldBy(w)'
  BY DEF HeldBy
<1>4. pc[w] \notin {"link", "linked", "done"} /\ pc'[w] \notin {"link", "linked", "done", "useGreedy"}
  OBVIOUS
<1>5. OnceBy(w)'
  BY <1>2, <1>4, OnceWorkerMove, Zenon DEF CodeInv, Once
<1>6. Published'
  BY <1>1, <1>2, <1>4, PublishedSame, Zenon DEF CodeInv
<1> QED BY <1>1, <1>2, <1>3, <1>5, <1>6, CodeFrom

(* The steps of dispatching keep the invariant of the code. *)
LEMMA CodeQuietStep ==
  ASSUME TypeInv, Queued, CodeInv, NEW w \in Workers,
         TakeDispatch(w) \/ TakeTask(w) \/ DispatchNext(w) \/ DispatchCallee(w)
         \/ DispatchEnd(w) \/ BackgroundStart(w)
  PROVE  CodeInv'
<1>1. w \in Threads /\ Others(w)
  BY WorkerOthers, Zenon DEF Threads
<1>2. UNCHANGED <<Ctx, perm, GreedyRACodePtrs, stub>>
  BY DEF TakeDispatch, TakeTask, DispatchNext, DispatchCallee, DispatchEnd, BackgroundStart, atomics
<1>3. pc[w] \in {"idle", "dispatch", "inProgress"}
  BY Zenon DEF TakeDispatch, TakeTask, DispatchNext, DispatchCallee, DispatchEnd, BackgroundStart
<1>4. pc'[w] \in {"idle", "dispatch", "inProgress", "compile"}
  <2>1. CASE TakeDispatch(w)
    BY <1>1, <2>1, GotoFrame, Zenon DEF TakeDispatch
  <2>2. CASE TakeTask(w)
    BY <1>1, <2>2, GotoFrame, Zenon DEF TakeTask
  <2>3. CASE DispatchNext(w) \/ DispatchCallee(w)
    BY <2>3, Zenon DEF DispatchNext, DispatchCallee, local
  <2>4. CASE DispatchEnd(w)
    BY <1>1, <2>4, GotoFrame, Zenon DEF DispatchEnd
  <2>5. CASE BackgroundStart(w)
    BY <1>1, <2>5, GotoFrame, Zenon DEF BackgroundStart
  <2> QED BY <2>1, <2>2, <2>3, <2>4, <2>5
<1>5. \A f \in Funcs : CompileStatuses'[f] = "Done" <=> CompileStatuses[f] = "Done"
  <2>1. CASE TakeDispatch(w) \/ TakeTask(w) \/ DispatchCallee(w) \/ DispatchEnd(w)
    BY <2>1, Zenon DEF TakeDispatch, TakeTask, DispatchCallee, DispatchEnd, atomics
  <2>2. CASE DispatchNext(w)
    <3>1. Stack # << >> /\ dispatchCompileTask(w, Last(Stack))
      BY <2>2 DEF DispatchNext
    <3>2. Last(Stack) \in Funcs
      BY <3>1, TypeInvTypeOK, SearchTypes
    <3>3. CASE CompileStatuses[Last(Stack)] = "None"
      <4>1. CompileStatuses' = [CompileStatuses EXCEPT ![Last(Stack)] = "Pending"]
        BY <3>1, <3>3, Zenon DEF dispatchCompileTask
      <4>2. CompileStatuses'[Last(Stack)] = "Pending"
            /\ \A g \in Funcs : g # Last(Stack) => CompileStatuses'[g] = CompileStatuses[g]
        BY <3>2, <4>1, FuncFrames, Zenon
      <4> QED BY <3>3, <4>2
    <3>4. CASE CompileStatuses[Last(Stack)] # "None"
      BY <3>1, <3>4, Zenon DEF dispatchCompileTask
    <3> QED BY <3>3, <3>4
  <2>3. CASE BackgroundStart(w)
    <3>1. job[w] \in Funcs /\ CompileStatuses[job[w]] = "Pending"
      BY <1>1, <2>3, HasJob DEF BackgroundStart, Idle, Queued, HandsOK
    <3>2. CompileStatuses' = [CompileStatuses EXCEPT ![job[w]] = "InProgress"]
      BY <2>3, Zenon DEF BackgroundStart
    <3>3. CompileStatuses'[job[w]] = "InProgress"
          /\ \A g \in Funcs : g # job[w] => CompileStatuses'[g] = CompileStatuses[g]
      BY <3>1, <3>2, FuncFrames, Zenon
    <3> QED BY <3>1, <3>3
  <2> QED BY <2>1, <2>2, <2>3
<1> QED BY <1>1, <1>2, <1>3, <1>4, <1>5, WorkerQuiet, Zenon

(* Starting to compile a function in its context keeps the invariant of
   the code. *)
LEMMA CodeCompileStep ==
  ASSUME OneCaller, TypeInv, Queued, CodeInv, NEW t \in Threads, CompileToMC(t) PROVE CodeInv'
<1>1. pc[t] = "compile" /\ pc'[t] = "emit" /\ UNCHANGED <<atomics, perm, job>> /\ Others(t)
  BY CompileOthers, GotoFrame, Zenon DEF CompileToMC
<1>2. job[t] \in Funcs
  BY <1>1, HasJob DEF Idle
<1>3. ContextOf(t) \in Contexts
      /\ Ctx \in [Contexts -> [func : Funcs \cup {None}, code : Code \cup {None}]]
  BY Zenon DEF ContextOf, Contexts, TypeInv, DataType
<1>4. Ctx' = [Ctx EXCEPT ![ContextOf(t)].func = job[t]]
  BY DEF CompileToMC
<1>5. Ctx'[ContextOf(t)].func = job[t] /\ \A y \in Contexts : y # ContextOf(t) => Ctx'[y] = Ctx[y]
  BY <1>3, <1>4
<1>6. Effect(t)
  <2>1. CtxOthers(t)
    BY <1>5, OwnContext, Zenon DEF CtxOthers
  <2>2. Stays
    BY <1>1, Zenon DEF Stays, atomics
  <2> QED BY <1>1, <2>1, <2>2, EffectRest, Zenon
<1>7. HeldBy(t)'
  <2>1. ContextOf(t)' = ContextOf(t)
    BY DEF ContextOf
  <2> QED BY <1>1, <1>5, <2>1 DEF HeldBy
<1>8. OnceBy(t)'
  <2>1. CASE t \in Workers
    <3>1. pc[t] \notin {"link", "linked", "done"} /\ pc'[t] \notin {"link", "linked"}
      BY <1>1
    <3> QED BY <1>6, <2>1, <3>1, OnceWorkerMove, Zenon DEF CodeInv, Once
  <2>2. CASE t \in Callers
    <3>1. pc[t] \notin {"link", "linked", "patch"} /\ pc'[t] \notin {"link", "linked"}
      BY <1>1
    <3>2. OnceAsked(t)'
      BY <1>1, <2>2 DEF CodeInv, Once, OnceAsked, Generated
    <3> QED BY <1>6, <2>2, <3>1, <3>2, OnceCallerMove, Zenon DEF CodeInv, Once
  <2> QED BY <2>1, <2>2 DEF Threads
<1>9. Published'
  <2>1. UNCHANGED <<CompileStatuses, GreedyRACodePtrs, stub>>
    BY <1>1 DEF atomics
  <2>2. pc'[t] \notin {"done", "useGreedy"}
    BY <1>1
  <2> QED BY <1>6, <2>1, <2>2, PublishedSame, Zenon DEF CodeInv
<1> QED BY <1>6, <1>7, <1>8, <1>9, CodeFrom

(* Emitting an object keeps the invariant of the code. *)
LEMMA CodeEmitStep ==
  ASSUME OneCaller, TypeInv, Queued, CodeInv, NEW t \in Threads, EmitObject(t) PROVE CodeInv'
<1>1. pc[t] = "emit" /\ pc'[t] = "link" /\ UNCHANGED <<atomics, job>>
  BY GotoFrame, Zenon DEF EmitObject
<1>2. Effect(t) /\ Ctx'[ContextOf(t)].code = [func |-> job[t], by |-> t]
  BY EffectEmit DEF CodeInv
<1>3. HeldBy(t)'
  <2>1. ContextOf(t)' = ContextOf(t)
    BY DEF ContextOf
  <2> QED BY <1>1, <1>2, <2>1 DEF HeldBy
<1>4. OnceBy(t)'
  <2>1. pc'[t] \in {"link", "linked", "done"} \cap {"link", "linked", "patch"} /\ job'[t] = job[t]
    BY <1>1
  <2>2. CASE t \in Workers
    BY <1>2, <2>1, <2>2, OnceWorkerMove, Zenon DEF CodeInv, Once
  <2>3. CASE t \in Callers
    <3>1. OnceAsked(t)'
      BY <1>1 DEF OnceAsked
    <3> QED BY <1>2, <2>1, <2>3, <3>1, OnceCallerMove, Zenon DEF CodeInv, Once
  <2> QED BY <2>2, <2>3 DEF Threads
<1>5. Published'
  <2>1. UNCHANGED <<CompileStatuses, GreedyRACodePtrs, stub>>
    BY <1>1 DEF atomics
  <2>2. pc'[t] \notin {"done", "useGreedy"}
    BY <1>1
  <2> QED BY <1>2, <2>1, <2>2, PublishedSame, Zenon DEF CodeInv
<1> QED BY <1>2, <1>3, <1>4, <1>5, CodeFrom

(* Linking an object keeps the invariant of the code. *)
LEMMA CodeLinkStep ==
  ASSUME OneCaller, TypeInv, Queued, CodeInv, NEW t \in Threads, Link(t) PROVE CodeInv'
<1>1. pc[t] = "link" /\ pc'[t] = "linked" /\ UNCHANGED <<atomics, job>>
  BY GotoFrame, Zenon DEF Link
<1>2. Effect(t) /\ ret'[t] = [func |-> job[t], by |-> t] /\ perm'[ret'[t]] = "exec"
  BY EffectLink DEF CodeInv
<1>3. HeldBy(t)'
  <2>1. job[t] \in Funcs
    BY <1>1, HasJob DEF Idle
  <2>2. ret'[t] \in Code /\ ret'[t].func = job[t]
    BY <1>2, <2>1 DEF Code
  <2> QED BY <1>1, <1>2, <2>2 DEF HeldBy, Compiled
<1>4. OnceBy(t)'
  <2>1. pc'[t] \in {"link", "linked", "done"} \cap {"link", "linked", "patch"} /\ job'[t] = job[t]
    BY <1>1
  <2>2. CASE t \in Workers
    BY <1>2, <2>1, <2>2, OnceWorkerMove, Zenon DEF CodeInv, Once
  <2>3. CASE t \in Callers
    <3>1. OnceAsked(t)'
      BY <1>1 DEF OnceAsked
    <3> QED BY <1>2, <2>1, <2>3, <3>1, OnceCallerMove, Zenon DEF CodeInv, Once
  <2> QED BY <2>2, <2>3 DEF Threads
<1>5. Published'
  <2>1. UNCHANGED <<CompileStatuses, GreedyRACodePtrs, stub>>
    BY <1>1 DEF atomics
  <2>2. pc'[t] \notin {"done", "useGreedy"}
    BY <1>1
  <2> QED BY <1>2, <2>1, <2>2, PublishedSame, Zenon DEF CodeInv
<1> QED BY <1>2, <1>3, <1>4, <1>5, CodeFrom

(* Code that has been linked is ready, for whoever holds it. *)
LEMMA ReadyCode ==
  ASSUME Held, NEW t \in Threads, pc[t] \in {"linked", "done", "patch", "enter"}
  PROVE  Compiled(job[t], ret[t]) /\ ret[t] # None
<1>1. Compiled(job[t], ret[t])
  BY Zenon DEF Held, HeldBy
<1>2. ret[t] # None
  BY <1>1, LazyJITAssumption, Zenon DEF Compiled
<1> QED BY <1>1, <1>2

(* Storing the code pointer keeps the invariant of the code. *)
LEMMA CodePublishStep ==
  ASSUME TypeInv, Queued, CodeInv, NEW w \in Workers, BackgroundPublish(w) PROVE CodeInv'
<1>1. w \in Threads /\ Others(w)
  BY WorkerOthers, Zenon DEF Threads
<1>2. pc[w] = "linked" /\ pc'[w] = "done" /\ UNCHANGED <<CompileStatuses, stub, perm, Ctx, job, ret>>
  BY <1>1, GotoFrame, Zenon DEF BackgroundPublish
<1>3. job[w] \in Funcs
  BY <1>1, <1>2, HasJob DEF Idle
<1>4. Compiled(job[w], ret[w]) /\ ret[w] # None
  BY <1>1, <1>2, ReadyCode, Zenon DEF CodeInv
<1>5. GreedyRACodePtrs' = [GreedyRACodePtrs EXCEPT ![job[w]] = ret[w]]
  BY DEF BackgroundPublish
<1>6. /\ GreedyRACodePtrs'[job[w]] = ret[w]
      /\ \A g \in Funcs : g # job[w] => GreedyRACodePtrs'[g] = GreedyRACodePtrs[g]
  BY <1>3, <1>5, FuncFrames, Zenon
<1>7. Effect(w)
  <2>1. CtxOthers(w) /\ Stays
    BY <1>2, <1>4, <1>6, Zenon DEF CtxOthers, Stays
  <2> QED BY <1>1, <1>2, <2>1, EffectRest, Zenon
<1>8. HeldBy(w)'
  BY <1>2, <1>4 DEF HeldBy, Compiled
<1>9. OnceBy(w)'
  BY <1>2, <1>7, OnceWorkerMove, Zenon DEF CodeInv, Once
<1>10. Published'
  <2>1. Compiled(job[w], GreedyRACodePtrs[job[w]])'
    BY <1>2, <1>4, <1>6 DEF Compiled
  <2>2. ASSUME NEW f \in Funcs
        PROVE  GreedyRACodePtrs'[f] \in {None, GreedyRACodePtrs[f]} \/ Compiled(f, GreedyRACodePtrs[f])'
    BY <1>2, <1>6, <2>1, Zenon
  <2>3. GreedyRACodePtrs'[job'[w]] # None
    BY <1>2, <1>4, <1>6
  <2> QED BY <1>1, <1>2, <1>7, <2>2, <2>3, PublishedFrom, Zenon DEF CodeInv
<1> QED BY <1>1, <1>7, <1>8, <1>9, <1>10, CodeFrom

(* Storing the status after the pointer keeps the invariant of the code. *)
LEMMA CodeDoneStep ==
  ASSUME TypeInv, Queued, CodeInv, NEW w \in Workers, BackgroundDone(w) PROVE CodeInv'
<1>1. w \in Threads /\ Others(w)
  BY WorkerOthers, Zenon DEF Threads
<1>2. pc[w] = "done" /\ pc'[w] = "patch" /\ UNCHANGED <<GreedyRACodePtrs, stub, perm, Ctx, job, ret>>
  BY <1>1, GotoFrame, Zenon DEF BackgroundDone
<1>3. job[w] \in Funcs
  BY <1>1, <1>2, HasJob DEF Idle
<1>4. CompileStatuses' = [CompileStatuses EXCEPT ![job[w]] = "Done"]
  BY DEF BackgroundDone
<1>5. /\ CompileStatuses'[job[w]] = "Done"
      /\ \A g \in Funcs : g # job[w] => CompileStatuses'[g] = CompileStatuses[g]
  BY <1>3, <1>4, FuncFrames, Zenon
<1>6. Effect(w)
  <2>1. CtxOthers(w) /\ Stays
    BY <1>2, <1>5, Zenon DEF CtxOthers, Stays
  <2> QED BY <1>1, <1>2, <2>1, EffectRest, Zenon
<1>7. HeldBy(w)'
  <2>1. Compiled(job[w], ret[w])
    BY <1>1, <1>2, Zenon DEF CodeInv, Held, HeldBy
  <2> QED BY <1>2, <2>1 DEF HeldBy, Compiled
<1>8. OnceBy(w)'
  BY <1>5, <1>6, OnceWorkerMove, Zenon DEF CodeInv, Once
<1>9. Published'
  <2>1. GreedyRACodePtrs[job[w]] # None
    BY <1>1, <1>2, Zenon DEF CodeInv, Published
  <2>2. pc'[w] \notin {"done", "useGreedy"}
    BY <1>2
  <2> QED BY <1>1, <1>2, <1>5, <1>6, <2>1, <2>2, PublishedFrom, Zenon DEF CodeInv
<1> QED BY <1>1, <1>6, <1>7, <1>8, <1>9, CodeFrom

(* Patching a stub with finished code, by whichever thread. *)
LEMMA CodePatchStep ==
  ASSUME TypeInv, CodeInv, NEW t \in Threads, Others(t), pc[t] = "patch",
         stub' = [stub EXCEPT ![job[t]] = ret[t]],
         UNCHANGED <<CompileStatuses, GreedyRACodePtrs, perm, Ctx>>
  PROVE  /\ Effect(t) /\ stub'[job[t]] # None /\ Compiled(job[t], ret[t])
         /\ pc'[t] \notin {"done", "useGreedy"} => Published'
<1>1. job[t] \in Funcs /\ Compiled(job[t], ret[t]) /\ ret[t] # None
  <2>1. job[t] \in Funcs
    BY HasJob DEF Idle
  <2>2. Compiled(job[t], ret[t]) /\ ret[t] # None
    BY ReadyCode, Zenon DEF CodeInv
  <2> QED BY <2>1, <2>2
<1>2. stub'[job[t]] = ret[t] /\ \A g \in Funcs : g # job[t] => stub'[g] = stub[g]
  BY <1>1, FuncFrames, Zenon
<1>3. Effect(t)
  <2>1. CtxOthers(t) /\ Stays
    BY <1>1, <1>2, Zenon DEF CtxOthers, Stays
  <2> QED BY <2>1, EffectRest, Zenon
<1>4. ASSUME pc'[t] \notin {"done", "useGreedy"} PROVE Published'
  <2>2. stub'[job[t]] \in Code /\ stub'[job[t]].func = job[t] /\ perm'[stub'[job[t]]] = "exec"
    BY <1>1, <1>2 DEF Compiled
  <2>3. \A f \in Funcs : stub'[f] \in {None, stub[f]} \/ Compiled(f, stub[f])'
    BY <1>2, <2>2, Zenon DEF Compiled
  <2> QED BY <1>3, <1>4, <2>3, PublishedFrom, Zenon DEF CodeInv
<1> QED BY <1>1, <1>2, <1>3, <1>4

(* A worker's patch of a stub keeps the invariant of the code. *)
LEMMA CodeBackgroundPatchStep ==
  ASSUME TypeInv, Queued, CodeInv, NEW w \in Workers, BackgroundPatch(w) PROVE CodeInv'
<1>1. w \in Threads /\ Others(w)
  BY WorkerOthers, Zenon DEF Threads
<1>2. /\ pc[w] = "patch" /\ pc'[w] = "idle" /\ stub' = [stub EXCEPT ![job[w]] = ret[w]]
      /\ UNCHANGED <<CompileStatuses, GreedyRACodePtrs, perm, Ctx>>
  BY <1>1, GotoFrame, Zenon DEF BackgroundPatch
<1>3. pc'[w] \notin {"done", "useGreedy"} /\ pc[w] \notin {"link", "linked", "done"}
      /\ pc'[w] \notin {"link", "linked"}
  BY <1>2
<1>4. Effect(w) /\ Published'
  BY <1>1, <1>2, <1>3, CodePatchStep, Zenon
<1>5. HeldBy(w)'
  BY <1>2 DEF HeldBy
<1>6. OnceBy(w)'
  BY <1>3, <1>4, OnceWorkerMove, Zenon DEF CodeInv, Once
<1> QED BY <1>1, <1>4, <1>5, <1>6, CodeFrom

(* A caller's patch of a stub keeps the invariant of the code. *)
LEMMA CodeCallerPatchStep ==
  ASSUME TypeInv, CodeInv, NEW c \in Callers, CallerPatch(c) PROVE CodeInv'
<1>1. c \in Threads /\ Others(c)
  BY CallerOthers, Zenon DEF Threads
<1>2. /\ pc[c] = "patch" /\ pc'[c] = "enter" /\ stub' = [stub EXCEPT ![job[c]] = ret[c]]
      /\ UNCHANGED <<CompileStatuses, GreedyRACodePtrs, perm, Ctx, job, ret>>
  BY <1>1, GotoFrame, Zenon DEF CallerPatch
<1>3. pc'[c] \notin {"done", "useGreedy"}
  BY <1>2
<1>4. Effect(c) /\ Published' /\ stub'[job[c]] # None /\ Compiled(job[c], ret[c])
  BY <1>1, <1>2, <1>3, CodePatchStep, Zenon
<1>5. HeldBy(c)'
  BY <1>2, <1>4 DEF HeldBy, Compiled
<1>6. OnceBy(c)'
  <2>1. OnceAsked(c)'
    BY <1>2 DEF OnceAsked
  <2> QED BY <1>4, <2>1, OnceCallerMove, Zenon DEF CodeInv, Once
<1> QED BY <1>1, <1>4, <1>5, <1>6, CodeFrom

(* A caller that writes nothing but its own state. *)
LEMMA CallerReads ==
  ASSUME TypeInv, CodeInv, NEW c \in Callers, Others(c),
         UNCHANGED <<CompileStatuses, GreedyRACodePtrs, stub, perm, Ctx>>,
         HeldBy(c)', OnceAsked(c)',
         pc[c] \in {"link", "linked", "patch"} =>
           (job'[c] = job[c] /\ pc'[c] = "patch") \/ CompileStatuses[job[c]] = "Done",
         pc'[c] \notin {"link", "linked", "done"},
         pc'[c] = "useGreedy" => GreedyRACodePtrs[job'[c]] # None
  PROVE  CodeInv'
<1>1. c \in Threads
  BY DEF Threads
<1>2. Effect(c)
  <2>1. CtxOthers(c) /\ Stays
    BY Zenon DEF CtxOthers, Stays
  <2> QED BY <2>1, EffectRest, Zenon
<1>3. OnceBy(c)'
  BY <1>2, OnceCallerMove, Zenon DEF CodeInv, Once
<1>4. Published'
  BY <1>1, <1>2, PublishedSame, Zenon DEF CodeInv
<1> QED BY <1>1, <1>2, <1>3, <1>4, CodeFrom

(* The other steps of a caller keep the invariant of the code. *)
LEMMA CodeCallerStep ==
  ASSUME TypeInv, Queued, CodeInv, NEW c \in Callers,
         CallFunction(c) \/ Request(c) \/ Recheck(c) \/ UseGreedy(c) \/ Enter(c)
  PROVE  CodeInv'
<1>1. c \in Threads /\ Others(c)
  BY CallerOthers, Zenon DEF Threads
<1>2. UNCHANGED <<CompileStatuses, GreedyRACodePtrs, stub, perm, Ctx>>
  BY Zenon DEF CallFunction, Request, Recheck, UseGreedy, Enter, atomics
<1>3. OnceCaller(c) /\ OnceAsked(c)
  BY Zenon DEF CodeInv, Once
<1>4. CASE CallFunction(c)
  <2>1. pc[c] = "guest"
    BY <1>4 DEF CallFunction
  <2>2. PICK f \in Funcs : /\ job' = [job EXCEPT ![c] = f] /\ ret' = [ret EXCEPT ![c] = stub[f]]
                           /\ Goto(c, IF stub[f] = None THEN "request" ELSE "enter")
    BY <1>4, Zenon DEF CallFunction
  <2>3. job'[c] = f /\ ret'[c] = stub[f]
    BY <1>1, <2>2, JobFrame, RetFrame, Zenon
  <2>4. pc'[c] = (IF stub[f] = None THEN "request" ELSE "enter")
    BY <1>1, <2>2, GotoFrame, Zenon
  <2>5. CASE stub[f] = None
    <3>1. pc'[c] = "request"
      BY <2>4, <2>5
    <3>2. HeldBy(c)'
      BY <3>1 DEF HeldBy
    <3>3. Generated(f, c) => CompileStatuses[f] = "Done"
      BY <1>3, <2>1, <2>5 DEF OnceCaller
    <3>4. OnceAsked(c)'
      BY <1>2, <2>3, <3>1, <3>3 DEF OnceAsked, Generated
    <3>5. /\ pc[c] \notin {"link", "linked", "patch"}
          /\ pc'[c] \notin {"link", "linked", "done"} /\ pc'[c] # "useGreedy"
      BY <2>1, <3>1
    <3> QED BY <1>1, <1>2, <3>2, <3>4, <3>5, CallerReads, Zenon
  <2>6. CASE stub[f] # None
    <3>1. pc'[c] = "enter"
      BY <2>4, <2>6
    <3>2. Compiled(f, stub[f])
      BY <2>6, Zenon DEF CodeInv, Published
    <3>3. HeldBy(c)'
      BY <1>2, <2>3, <3>1, <3>2 DEF HeldBy, Compiled
    <3>4. OnceAsked(c)'
      BY <3>1 DEF OnceAsked
    <3>5. /\ pc[c] \notin {"link", "linked", "patch"}
          /\ pc'[c] \notin {"link", "linked", "done"} /\ pc'[c] # "useGreedy"
      BY <2>1, <3>1
    <3> QED BY <1>1, <1>2, <3>3, <3>4, <3>5, CallerReads, Zenon
  <2> QED BY <2>5, <2>6
<1>5. CASE Request(c)
  <2>1. /\ pc[c] = "request" /\ job' = job
        /\ pc'[c] = (IF HasPool /\ CompileStatuses[job[c]] = "Done" THEN "useGreedy" ELSE "compile")
    BY <1>1, <1>5, GotoFrame, Zenon DEF Request
  <2>2. job[c] \in Funcs
    BY <1>1, <2>1, HasJob DEF Idle
  <2>3. HeldBy(c)'
    BY <2>1 DEF HeldBy
  <2>4. pc'[c] = "useGreedy" => GreedyRACodePtrs[job'[c]] # None
    BY <2>1, <2>2, Zenon DEF CodeInv, Published
  <2>5. OnceAsked(c)'
    <3>1. CompileStatuses[job[c]] = "Done" => HasPool
      BY <2>2 DEF Queued, HandsOK
    <3> QED BY <1>2, <1>3, <2>1, <3>1 DEF OnceAsked, Generated
  <2>6. pc[c] \notin {"link", "linked", "patch"} /\ pc'[c] \notin {"link", "linked", "done"}
    BY <2>1
  <2> QED BY <1>1, <1>2, <2>3, <2>4, <2>5, <2>6, CallerReads, Zenon
<1>6. CASE Recheck(c)
  <2>1. /\ pc[c] = "linked" /\ UNCHANGED <<job, ret>>
        /\ pc'[c] = (IF HasPool /\ CompileStatuses[job[c]] = "Done" THEN "useGreedy" ELSE "patch")
    BY <1>1, <1>6, GotoFrame, Zenon DEF Recheck
  <2>2. job[c] \in Funcs
    BY <1>1, <2>1, HasJob DEF Idle
  <2>3. Compiled(job[c], ret[c])
    BY <1>1, <2>1, ReadyCode, Zenon DEF CodeInv
  <2>4. HeldBy(c)'
    BY <1>2, <2>1, <2>3 DEF HeldBy, Compiled
  <2>5. OnceAsked(c)'
    BY <2>1, Zenon DEF OnceAsked
  <2>6. pc'[c] = "useGreedy" => GreedyRACodePtrs[job'[c]] # None
    BY <2>1, <2>2 DEF CodeInv, Published
  <2>7. /\ (job'[c] = job[c] /\ pc'[c] = "patch") \/ CompileStatuses[job[c]] = "Done"
        /\ pc'[c] \notin {"link", "linked", "done"}
    BY <2>1
  <2> QED BY <1>1, <1>2, <2>4, <2>5, <2>6, <2>7, CallerReads, Zenon
<1>7. CASE UseGreedy(c)
  <2>1. pc[c] = "useGreedy" /\ pc'[c] = "enter" /\ job' = job
    BY <1>1, <1>7, GotoFrame, Zenon DEF UseGreedy
  <2>2. ret' = [ret EXCEPT ![c] = GreedyRACodePtrs[job[c]]]
    BY <1>7, Zenon DEF UseGreedy
  <2>3. ret'[c] = GreedyRACodePtrs[job[c]]
    BY <1>1, <2>2, RetFrame, Zenon
  <2>4. job[c] \in Funcs
    BY <1>1, <2>1, HasJob DEF Idle
  <2>5. Compiled(job[c], GreedyRACodePtrs[job[c]])
    <3>1. GreedyRACodePtrs[job[c]] # None
      BY <1>1, <2>1, Zenon DEF CodeInv, Published
    <3> QED BY <2>4, <3>1, Zenon DEF CodeInv, Published
  <2>6. HeldBy(c)'
    BY <1>2, <2>1, <2>3, <2>5 DEF HeldBy, Compiled
  <2>7. OnceAsked(c)'
    BY <2>1 DEF OnceAsked
  <2>8. /\ pc[c] \notin {"link", "linked", "patch"}
        /\ pc'[c] \notin {"link", "linked", "done"} /\ pc'[c] # "useGreedy"
    BY <2>1
  <2> QED BY <1>1, <1>2, <2>6, <2>7, <2>8, CallerReads, Zenon
<1>8. CASE Enter(c)
  <2>1. pc[c] = "enter" /\ pc'[c] = "guest"
    BY <1>1, <1>8, GotoFrame, Zenon DEF Enter
  <2>2. HeldBy(c)' /\ OnceAsked(c)'
    BY <2>1, Zenon DEF HeldBy, OnceAsked
  <2>3. /\ pc[c] \notin {"link", "linked", "patch"}
        /\ pc'[c] \notin {"link", "linked", "done"} /\ pc'[c] # "useGreedy"
    BY <2>1
  <2> QED BY <1>1, <1>2, <2>2, <2>3, CallerReads, Zenon
<1> QED BY <1>4, <1>5, <1>6, <1>7, <1>8

(* The invariant of the code depends on nothing else. *)
LEMMA CodeSame ==
  ASSUME CodeInv, UNCHANGED <<CompileStatuses, GreedyRACodePtrs, stub, perm, Ctx, pc, job, ret>>
  PROVE  CodeInv'
<1>1. \A t \in Threads : ContextOf(t)' = ContextOf(t)
  BY DEF ContextOf
<1>2. Held'
  BY <1>1, Zenon DEF CodeInv, Held, HeldBy, Compiled
<1>3. Published'
  <2>1. \A f, c : Compiled(f, c) => c \in Code /\ c.func = f /\ perm'[c] = "exec"
    BY Zenon DEF Compiled
  <2>2. \A f \in Funcs : /\ GreedyRACodePtrs[f] # None => Compiled(f, GreedyRACodePtrs[f])'
                         /\ stub[f] # None => Compiled(f, stub[f])'
    BY <2>1 DEF CodeInv, Published, Compiled
  <2> QED BY <2>2, Zenon DEF CodeInv, Published
<1>4. Once'
  <2>1. \A w \in Workers : OnceWorker(w) => OnceWorker(w)'
    BY Zenon DEF OnceWorker, Generated
  <2>2. \A c \in Callers : OnceCaller(c) => OnceCaller(c)'
    BY Zenon DEF OnceCaller, Generated
  <2>3. \A c \in Callers : OnceAsked(c) => OnceAsked(c)'
    BY Zenon DEF OnceAsked, Generated
  <2> QED BY <2>1, <2>2, <2>3, Zenon DEF CodeInv, Once
<1> QED BY <1>2, <1>3, <1>4 DEF CodeInv

Inv == TypeInv /\ Queued /\ CodeInv

(* Every step keeps the whole invariant. *)
LEMMA InvStep ==
  ASSUME OneCaller, Inv, [Next]_vars PROVE Inv'
<1>1. CASE Next
  <2>1. TypeInv' /\ Queued'
    BY <1>1, TypeInvStep, QueuedStep DEF Inv
  <2>2. CASE Precompile \/ Interrupt \/ Free
    <3>1. UNCHANGED <<CompileStatuses, GreedyRACodePtrs, stub, perm, Ctx, pc, job, ret>>
      BY <2>2, Zenon DEF Precompile, Interrupt, Free, atomics, local
    <3> QED BY <2>1, <3>1, CodeSame, Zenon DEF Inv
  <2>3. ASSUME NEW t \in Threads, CompileToMC(t) \/ EmitObject(t) \/ Link(t) PROVE Inv'
    BY <2>1, <2>3, CodeCompileStep, CodeEmitStep, CodeLinkStep, Zenon DEF Inv
  <2>4. ASSUME NEW w \in Workers,
               TakeDispatch(w) \/ TakeTask(w) \/ DispatchNext(w) \/ DispatchCallee(w)
               \/ DispatchEnd(w) \/ BackgroundStart(w) \/ BackgroundPublish(w)
               \/ BackgroundDone(w) \/ BackgroundPatch(w)
        PROVE  Inv'
    BY <2>1, <2>4, CodeQuietStep, CodePublishStep, CodeDoneStep, CodeBackgroundPatchStep, Zenon
    DEF Inv
  <2>5. ASSUME NEW c \in Callers,
               CallFunction(c) \/ Request(c) \/ Recheck(c) \/ UseGreedy(c) \/ CallerPatch(c)
               \/ Enter(c)
        PROVE  Inv'
    BY <2>1, <2>5, CodeCallerStep, CodeCallerPatchStep, Zenon DEF Inv
  <2> QED BY <1>1, <2>2, <2>3, <2>4, <2>5, NextCases, Zenon
<1>2. CASE UNCHANGED vars
  <2>1. TypeInv'
    BY <1>2, TypeInvStep DEF Inv
  <2>2. Queued'
    BY <1>2, QueuedSame, Zenon DEF Inv, vars, pool, atomics, local
  <2>3. UNCHANGED <<CompileStatuses, GreedyRACodePtrs, stub, perm, Ctx, pc, job, ret>>
    BY <1>2, Zenon DEF vars, atomics, local
  <2> QED BY <2>1, <2>2, <2>3, CodeSame, Zenon DEF Inv
<1> QED BY <1>1, <1>2

(* The whole invariant holds initially. *)
LEMMA InvInit ==
  ASSUME Init PROVE Inv
<1>1. TypeInv /\ Queued
  BY TypeInvInit, QueuedInit
<1>2. /\ \A t \in Threads : pc[t] \in {"idle", "guest"}
      /\ \A f \in Funcs : /\ GreedyRACodePtrs[f] = None /\ stub[f] = None
                          /\ CompileStatuses[f] = "None"
  BY Zenon DEF Init
<1>3. \A f \in Funcs, t \in Threads : ~Generated(f, t)
  BY DEF Init, Generated, Code
<1>4. Held
  BY <1>2, Zenon DEF Held, HeldBy
<1>5. Published
  BY <1>2, Zenon DEF Published
<1>6. Once
  BY <1>2, <1>3 DEF Once, OnceWorker, OnceCaller, OnceAsked, Threads
<1> QED BY <1>1, <1>4, <1>5, <1>6 DEF Inv, CodeInv

(* Guest code enters finished code of the function it called: under any    *)
(* interleaving of the callers' reads of status, pointer and stub with the *)
(* workers' writes, for any module and any number of workers               *)
(* (compileFunctionOnRequest, compileFunctionInBackgroud).                 *)
THEOREM EntersReady == OneCaller => (Spec => []EntersReadyCode)
<1> SUFFICES ASSUME OneCaller PROVE Spec => []EntersReadyCode
  OBVIOUS
<1>1. Init => Inv
  BY InvInit
<1>2. Inv /\ [Next]_vars => Inv'
  BY InvStep
<1>3. Inv => EntersReadyCode
  <2> SUFFICES ASSUME Inv, NEW c \in Callers, pc[c] = "enter"
               PROVE  ret[c] # None /\ ret[c].func = job[c] /\ perm[ret[c]] = "exec"
    BY Zenon DEF EntersReadyCode
  <2>1. c \in Threads
    BY DEF Threads
  <2>2. Compiled(job[c], ret[c]) /\ ret[c] # None
    BY <2>1, ReadyCode, Zenon DEF Inv, CodeInv
  <2> QED BY <2>2, Zenon DEF Compiled
<1> QED BY <1>1, <1>2, <1>3, PTL DEF Spec

(* No thread generates a function's code twice (dispatchCompileTask's      *)
(* idempotence, and the patched stub that keeps a caller from asking for   *)
(* what it has compiled).                                                  *)
THEOREM CompilesOnce == OneCaller => (Spec => CompiledOnce)
<1> SUFFICES ASSUME OneCaller PROVE Spec => CompiledOnce
  OBVIOUS
<1> DEFINE Grows == \A c \in Code : perm[c] # "none" => perm'[c] \in {perm[c], "exec"}
<1>1. Init => Inv
  BY InvInit
<1>2. Inv /\ [Next]_vars => Inv'
  BY InvStep
<1>3. ASSUME Inv, Next PROVE Grows
  <2>1. ASSUME NEW t \in Threads, EmitObject(t) PROVE Grows
    BY <1>3, <2>1, EffectEmit, Zenon DEF Inv, CodeInv, Effect, PermGrows
  <2>2. ASSUME NEW t \in Threads, Link(t) PROVE Grows
    BY <1>3, <2>2, EffectLink, Zenon DEF Inv, CodeInv, Effect, PermGrows
  <2>3. perm' = perm \/ \E t \in Threads : EmitObject(t) \/ Link(t)
    BY <1>3, Zenon DEF Next, Precompile, Interrupt, Free, WorkerStep, ResolverStep, CompileStep,
       TakeDispatch, TakeTask, DispatchNext, DispatchCallee, DispatchEnd, CompileToMC,
       BackgroundStart, BackgroundPublish, BackgroundDone, BackgroundPatch, CallFunction,
       Request, Recheck, UseGreedy, CallerPatch, Enter, Threads
  <2> QED BY <2>1, <2>2, <2>3, Zenon
<1>4. Inv /\ [Next]_vars => [Grows]_vars
  BY <1>3, Zenon
<1> QED BY <1>1, <1>2, <1>4, PTL DEF Spec, CompiledOnce
=============================================================================

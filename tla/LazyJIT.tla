------------------------------- MODULE LazyJIT -------------------------------
(***************************************************************************)
(* COMPILER::LazyJITCompiler (src/compiler/compiler.cpp) with its stubs    *)
(* (src/compiler/stub/stub_builder.cpp): every internal function of a Wasm *)
(* module starts as a stub whose jump leads to a resolver.  Background     *)
(* workers compile the functions and patch the stubs; a thread that runs   *)
(* guest code and meets the resolver compiles the function itself, with    *)
(* the fast register allocator, unless the background has finished it.     *)
(*                                                                         *)
(* The thread pool is the TaskQueue it promises to be.  With no Workers    *)
(* there is no pool: the single-thread lazy mode.                          *)
(*                                                                         *)
(* A piece of machine code is named by the function it was generated from  *)
(* and the thread that generated it; it has its own pages of the code pool *)
(* (the lazy mode allocates by pages), so a protection is a property of    *)
(* the piece.  Each access to an atomic is one step.                       *)
(***************************************************************************)
EXTENDS Naturals, Sequences

CONSTANTS Funcs,        \* the module's internal functions
          Workers,      \* the pool's threads, each with a context of its own
          Callers,      \* the threads that run guest code
          MainContext,  \* the one context of all on-request compilations
          Modules,      \* the call structures a module may have
          Dispatch,     \* the task that dispatches the compilation tasks
          None          \* no task, no function, no code

TaskIds == Funcs \cup {Dispatch}

(* ExportedFuncIdxs, StartFuncIdx and CallSeqMap of a module. *)
ModuleType == [exported : Seq(Funcs), start : Funcs \cup {None},
               calls : [Funcs -> Seq(Funcs)]]

Threads == Workers \cup Callers
Contexts == Workers \cup {MainContext}
Code == [func : Funcs, by : Threads]

ASSUME LazyJITAssumption ==
  /\ None \notin TaskIds /\ None \notin Code /\ Dispatch \notin Funcs
  /\ Workers \cap Callers = {} /\ MainContext \notin Workers
  /\ Modules \subseteq ModuleType

Status == {"None", "Pending", "InProgress", "Done"}

VARIABLES
  mod,                \* the module
  phase,              \* of the compiler object: new, ready, interrupted, freed
  Tasks, cur,         \* the pool's queue and its workers' tasks
  CompileStatuses,    \* atomic, per function
  GreedyRACodePtrs,   \* atomic, per function
  stub,               \* stub[f]: what f's stub jumps to, None for the resolver
  perm,               \* perm[c]: the protection of a piece of code
  Ctx,                \* Ctx[x]: the function and the code a context holds
  pc, job,            \* where a thread is, and for which function
  ret,                \* the code a thread has got or is about to enter
  Stack, Visited,     \* the depth-first dispatch, and the callees it has
  Callees             \* still to look at

pool == <<Tasks, cur>>
atomics == <<CompileStatuses, GreedyRACodePtrs, stub>>
local == <<pc, job, ret>>
search == <<Stack, Visited, Callees>>
vars == <<mod, phase, pool, atomics, perm, Ctx, local, search>>

Pool == INSTANCE TaskQueue WITH NoTask <- None

CompilePcs == {"compile", "emit", "link", "linked"}
WorkerPcs == {"idle", "dispatch", "inProgress", "done", "patch"} \cup CompilePcs
CallerPcs == {"guest", "request", "useGreedy", "patch", "enter"}
             \cup CompilePcs

TypeOK ==
  /\ mod \in Modules
  /\ phase \in {"new", "ready", "interrupted", "freed"}
  /\ Tasks \in Seq(TaskIds) /\ cur \in [Workers -> TaskIds \cup {None}]
  /\ CompileStatuses \in [Funcs -> Status]
  /\ GreedyRACodePtrs \in [Funcs -> Code \cup {None}]
  /\ stub \in [Funcs -> Code \cup {None}]
  /\ perm \in [Code -> {"none", "write", "exec"}]
  /\ Ctx \in [Contexts -> [func : Funcs \cup {None}, code : Code \cup {None}]]
  /\ pc \in [Threads -> WorkerPcs \cup CallerPcs]
  /\ job \in [Threads -> Funcs \cup {None}]
  /\ ret \in [Threads -> Code \cup {None}]
  /\ Stack \in Seq(Funcs) /\ Visited \in SUBSET Funcs /\ Callees \in Seq(Funcs)

Init ==
  /\ mod \in Modules /\ phase = "new"
  /\ Pool!Init
  /\ CompileStatuses = [f \in Funcs |-> "None"]
  /\ GreedyRACodePtrs = [f \in Funcs |-> None]
  /\ stub = [f \in Funcs |-> None]
  /\ perm = [c \in Code |-> "none"]
  /\ Ctx = [x \in Contexts |-> [func |-> None, code |-> None]]
  /\ pc = [t \in Threads |-> IF t \in Workers THEN "idle" ELSE "guest"]
  /\ job = [t \in Threads |-> None] /\ ret = [t \in Threads |-> None]
  /\ Stack = << >> /\ Visited = {} /\ Callees = << >>

Goto(t, l) == pc' = [pc EXCEPT ![t] = l]
HasPool == Workers # {}
ContextOf(t) == IF t \in Workers THEN t ELSE MainContext

-----------------------------------------------------------------------------
(* precompile: the stubs are written, made executable and entered in the   *)
(* code table; the dispatch task is pushed.  Nothing runs guest code yet.  *)
Precompile ==
  /\ phase = "new" /\ phase' = "ready"
  /\ IF HasPool THEN Pool!Push(Dispatch) ELSE UNCHANGED pool
  /\ UNCHANGED <<mod, atomics, perm, Ctx, local, search>>

(* The stack the search starts from: the exported functions, under the     *)
(* start function, which is taken out of where it stood.                   *)
Elems(s) == {s[i] : i \in DOMAIN s}
WithoutFirst(s, f) ==
  LET k == CHOOSE k \in DOMAIN s : s[k] = f /\ \A j \in 1..(k - 1) : s[j] # f
  IN IF f \in Elems(s)
       THEN [i \in 1..(Len(s) - 1) |-> IF i < k THEN s[i] ELSE s[i + 1]]
       ELSE s
EntryStack ==
  IF mod.start = None THEN mod.exported
  ELSE Append(WithoutFirst(mod.exported, mod.start), mod.start)

TakeDispatch(w) ==
  /\ pc[w] = "idle" /\ phase = "ready"
  /\ Pool!Take(w) /\ Head(Tasks) = Dispatch
  /\ Stack' = EntryStack /\ Visited' = {} /\ Callees' = << >>
  /\ Goto(w, "dispatch")
  /\ UNCHANGED <<mod, phase, atomics, perm, Ctx, job, ret>>

TakeTask(w) ==
  /\ pc[w] = "idle" /\ phase = "ready"
  /\ Pool!Take(w) /\ Head(Tasks) # Dispatch
  /\ job' = [job EXCEPT ![w] = Head(Tasks)]
  /\ Goto(w, "inProgress")
  /\ UNCHANGED <<mod, phase, atomics, perm, Ctx, ret, search>>

Last(s) == s[Len(s)]
Front(s) == SubSeq(s, 1, Len(s) - 1)

(* mutant: a function is dispatched each time the search meets it *)
DispatchAgain(w, f) ==
  /\ CompileStatuses' = [CompileStatuses EXCEPT ![f] = "Pending"]
  /\ Pool!Push(f)

(* The test, the store and the push are one step: no other thread takes a  *)
(* status away from None, or pushes.                                       *)
dispatchCompileTask(w, f) ==
  \/ /\ CompileStatuses[f] = "None"
     /\ CompileStatuses' = [CompileStatuses EXCEPT ![f] = "Pending"]
     /\ Pool!Push(f)
  \/ /\ CompileStatuses[f] # "None"
     /\ UNCHANGED <<CompileStatuses, pool>>

(* One round of dispatchCompileTasksDepthFirst: the function on top is     *)
(* dispatched and marked, and its callees are looked at, the last first.   *)
DispatchNext(w) ==
  /\ pc[w] = "dispatch" /\ Callees = << >> /\ Stack # << >>
  /\ dispatchCompileTask(w, Last(Stack))
  /\ Visited' = Visited \cup {Last(Stack)}
  /\ Callees' = mod.calls[Last(Stack)]
  /\ Stack' = Front(Stack)
  /\ UNCHANGED <<mod, phase, GreedyRACodePtrs, stub, perm, Ctx, local>>

(* mutant: a callee is marked when it is pushed *)
DispatchCalleeMarks(w) ==
  /\ pc[w] = "dispatch" /\ Callees # << >>
  /\ Callees' = Front(Callees)
  /\ Visited' = Visited \cup {Last(Callees)}
  /\ Stack' = IF Last(Callees) \in Visited' THEN Stack ELSE Append(Stack, Last(Callees))
  /\ UNCHANGED <<mod, phase, pool, atomics, perm, Ctx, local>>

DispatchCallee(w) ==
  /\ pc[w] = "dispatch" /\ Callees # << >>
  /\ Callees' = Front(Callees)
  /\ Stack' = IF Last(Callees) \in Visited THEN Stack ELSE Append(Stack, Last(Callees))
  /\ UNCHANGED <<mod, phase, pool, atomics, perm, Ctx, local, Visited>>

DispatchEnd(w) ==
  /\ pc[w] = "dispatch" /\ Callees = << >> /\ Stack = << >>
  /\ Pool!Finish(w)
  /\ Goto(w, "idle")
  /\ UNCHANGED <<mod, phase, atomics, perm, Ctx, job, ret, search>>

-----------------------------------------------------------------------------
(* compileFunction, by a worker in its own context or by a caller in the   *)
(* main context: compileWasmToMC, emitObjectBuffer, and the relocation and *)
(* protection of the code the context then points to.                      *)

CompileToMC(t) ==
  /\ pc[t] = "compile"
  /\ Ctx' = [Ctx EXCEPT ![ContextOf(t)].func = job[t]]
  /\ Goto(t, "emit")
  /\ UNCHANGED <<mod, phase, pool, atomics, perm, job, ret, search>>

EmitObject(t) ==
  /\ pc[t] = "emit"
  /\ LET x == ContextOf(t)
         c == [func |-> Ctx[x].func, by |-> t]
     IN /\ Ctx' = [Ctx EXCEPT ![x].code = c]
        /\ perm' = [perm EXCEPT ![c] = "write"]
  /\ Goto(t, "link")
  /\ UNCHANGED <<mod, phase, pool, atomics, job, ret, search>>

Link(t) ==
  /\ pc[t] = "link"
  /\ LET c == Ctx[ContextOf(t)].code
     IN /\ perm' = [perm EXCEPT ![c] = "exec"]
        /\ ret' = [ret EXCEPT ![t] = c]
  /\ Goto(t, "linked")
  /\ UNCHANGED <<mod, phase, pool, atomics, Ctx, job, search>>

-----------------------------------------------------------------------------
(* compileFunctionInBackgroud: the status is InProgress, the function is   *)
(* compiled, its code published, its status Done, its stub patched.        *)
BackgroundStart(w) ==
  /\ pc[w] = "inProgress"
  /\ CompileStatuses' = [CompileStatuses EXCEPT ![job[w]] = "InProgress"]
  /\ Goto(w, "compile")
  /\ UNCHANGED <<mod, phase, pool, GreedyRACodePtrs, stub, perm, Ctx, job, ret, search>>

(* mutant: Done is announced without the code *)
BackgroundUnpublished(w) ==
  /\ w \in Workers /\ pc[w] = "linked"
  /\ Goto(w, "done")
  /\ UNCHANGED <<mod, phase, pool, atomics, perm, Ctx, job, ret, search>>

BackgroundPublish(w) ==
  /\ w \in Workers /\ pc[w] = "linked"
  /\ GreedyRACodePtrs' = [GreedyRACodePtrs EXCEPT ![job[w]] = ret[w]]
  /\ Goto(w, "done")
  /\ UNCHANGED <<mod, phase, pool, CompileStatuses, stub, perm, Ctx, job, ret, search>>

BackgroundDone(w) ==
  /\ pc[w] = "done"
  /\ CompileStatuses' = [CompileStatuses EXCEPT ![job[w]] = "Done"]
  /\ Goto(w, "patch")
  /\ UNCHANGED <<mod, phase, pool, GreedyRACodePtrs, stub, perm, Ctx, job, ret, search>>

(* mutant: the stub is left to the resolver *)
BackgroundNoPatch(w) ==
  /\ w \in Workers /\ pc[w] = "patch"
  /\ job' = [job EXCEPT ![w] = None] /\ ret' = [ret EXCEPT ![w] = None]
  /\ Pool!Finish(w)
  /\ Goto(w, "idle")
  /\ UNCHANGED <<mod, phase, atomics, perm, Ctx, search>>

BackgroundPatch(w) ==
  /\ w \in Workers /\ pc[w] = "patch"
  /\ stub' = [stub EXCEPT ![job[w]] = ret[w]]
  /\ job' = [job EXCEPT ![w] = None] /\ ret' = [ret EXCEPT ![w] = None]
  /\ Pool!Finish(w)
  /\ Goto(w, "idle")
  /\ UNCHANGED <<mod, phase, CompileStatuses, GreedyRACodePtrs, perm, Ctx, search>>

-----------------------------------------------------------------------------
(* A thread running guest code calls f through its stub: it enters the     *)
(* code the stub jumps to, or the resolver's trampoline.                   *)
CallFunction(c) ==
  /\ phase = "ready" /\ pc[c] = "guest"
  /\ \E f \in Funcs :
       /\ job' = [job EXCEPT ![c] = f] /\ ret' = [ret EXCEPT ![c] = stub[f]]
       /\ Goto(c, IF stub[f] = None THEN "request" ELSE "enter")
  /\ UNCHANGED <<mod, phase, pool, atomics, perm, Ctx, search>>

(* The thread is in the code and goes on from there; the guest may call    *)
(* again at once.                                                          *)
Enter(c) ==
  /\ pc[c] = "enter"
  /\ job' = [job EXCEPT ![c] = None] /\ ret' = [ret EXCEPT ![c] = None]
  /\ Goto(c, "guest")
  /\ UNCHANGED <<mod, phase, pool, atomics, perm, Ctx, search>>

(* compileFunctionOnRequest *)
Request(c) ==
  /\ pc[c] = "request"
  /\ Goto(c, IF HasPool /\ CompileStatuses[job[c]] = "Done" THEN "useGreedy"
              ELSE "compile")
  /\ UNCHANGED <<mod, phase, pool, atomics, perm, Ctx, job, ret, search>>

(* mutant: the caller waits for the background *)
RecheckWaits(c) ==
  /\ c \in Callers /\ pc[c] = "linked"
  /\ CompileStatuses[job[c]] = "Done"
  /\ Goto(c, "useGreedy")
  /\ UNCHANGED <<mod, phase, pool, atomics, perm, Ctx, job, ret, search>>

Recheck(c) ==
  /\ c \in Callers /\ pc[c] = "linked"
  /\ Goto(c, IF HasPool /\ CompileStatuses[job[c]] = "Done" THEN "useGreedy"
              ELSE "patch")
  /\ UNCHANGED <<mod, phase, pool, atomics, perm, Ctx, job, ret, search>>

UseGreedy(c) ==
  /\ pc[c] = "useGreedy"
  /\ ret' = [ret EXCEPT ![c] = GreedyRACodePtrs[job[c]]]
  /\ Goto(c, "enter")
  /\ UNCHANGED <<mod, phase, pool, atomics, perm, Ctx, job, search>>

CallerPatch(c) ==
  /\ c \in Callers /\ pc[c] = "patch"
  /\ stub' = [stub EXCEPT ![job[c]] = ret[c]]
  /\ Goto(c, "enter")
  /\ UNCHANGED <<mod, phase, pool, CompileStatuses, GreedyRACodePtrs, perm, Ctx,
                 job, ret, search>>

-----------------------------------------------------------------------------
(* The destructor, when no thread runs guest code of the module: interrupt *)
(* stops the taking of tasks, and joins the workers before the contexts    *)
(* and the statuses are freed.                                             *)
Interrupt ==
  /\ phase = "ready" /\ \A c \in Callers : pc[c] = "guest"
  /\ phase' = "interrupted"
  /\ UNCHANGED <<mod, pool, atomics, perm, Ctx, local, search>>

Free ==
  /\ phase = "interrupted" /\ \A w \in Workers : pc[w] = "idle"
  /\ phase' = "freed"
  /\ UNCHANGED <<mod, pool, atomics, perm, Ctx, local, search>>

CompileStep(t) == CompileToMC(t) \/ EmitObject(t) \/ Link(t)

WorkerStep(w) ==
  \/ TakeDispatch(w) \/ TakeTask(w)
  \/ DispatchNext(w) \/ DispatchCallee(w) \/ DispatchEnd(w)
  \/ BackgroundStart(w) \/ CompileStep(w)
  \/ BackgroundPublish(w) \/ BackgroundDone(w) \/ BackgroundPatch(w)

ResolverStep(c) ==
  \/ Request(c) \/ CompileStep(c) \/ Recheck(c) \/ UseGreedy(c) \/ CallerPatch(c)

Next ==
  \/ Precompile \/ Interrupt \/ Free
  \/ \E w \in Workers : WorkerStep(w)
  \/ \E c \in Callers : CallFunction(c) \/ ResolverStep(c) \/ Enter(c)

Spec == Init /\ [][Next]_vars

(* The operating system runs every thread that can run.  Nothing obliges   *)
(* the guest to call, or the module's owner to unload it.                  *)
FairSpec ==
  /\ Spec /\ WF_vars(Precompile)
  /\ \A w \in Workers : WF_vars(WorkerStep(w))
  /\ \A c \in Callers : WF_vars(ResolverStep(c)) /\ WF_vars(Enter(c))

-----------------------------------------------------------------------------
(* The functions that dispatch can find: the start function, the exported  *)
(* ones, and what they call directly or indirectly.                        *)
Entries == Elems(mod.exported) \cup ({mod.start} \ {None})
Closed(S) == \A f \in S : Elems(mod.calls[f]) \subseteq S
Reachable ==
  {f \in Funcs : \A S \in SUBSET Funcs : Entries \subseteq S /\ Closed(S) => f \in S}

(* Wherever guest code goes, it enters finished code of the function it    *)
(* called: linked, executable, and never the code of another function,     *)
(* although the stub, the status and the published pointer change while    *)
(* the caller looks at them (compileFunctionOnRequest).                    *)
EntersReadyCode ==
  \A c \in Callers :
    pc[c] = "enter" => ret[c] # None /\ ret[c].func = job[c] /\ perm[ret[c]] = "exec"

(* No thread generates code for the same function twice: the dispatch is   *)
(* idempotent, and a caller that has compiled a function never meets the   *)
(* resolver for it again.                                                  *)
CompiledOnce ==
  [][\A c \in Code : perm[c] # "none" => perm'[c] \in {perm[c], "exec"}]_vars

(* The search that marks nodes when they leave the stack still dispatches  *)
(* every reachable function, and only those (dispatchCompileTasksDepthFirst). *)
DispatchIsExact ==
  /\ \A f \in Funcs : CompileStatuses[f] # "None" => f \in Reachable
  /\ Visited # {} /\ Stack = << >> /\ Callees = << >>
       => \A f \in Reachable : CompileStatuses[f] # "None"

(* Unless the module is unloaded, every function that dispatch can find    *)
(* gets compiled code in its stub, with no call of it.                     *)
BackgroundCompletes ==
  \A f \in Funcs : phase = "ready" /\ f \in Reachable /\ HasPool
                     ~> stub[f] # None \/ phase # "ready"

(* A call that meets the resolver gets into the function.                  *)
RequestsReturn == \A c \in Callers : pc[c] = "request" ~> pc[c] = "enter"
=============================================================================

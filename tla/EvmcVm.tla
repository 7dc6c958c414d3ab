------------------------------- MODULE EvmcVm -------------------------------
(***************************************************************************)
(* The EVMC library (src/vm/dt_evmc_vm.cpp): one DTVM object that executes *)
(* messages for a host, which calls it again, deeper, from inside its own  *)
(* callbacks.  Modules are cached by code address and revision, instances  *)
(* by depth; a module of initcode lives only as long as its call.          *)
(*                                                                         *)
(* A module or an instance is named by where it is in memory: a Slot is an *)
(* address of the heap, and a freed Slot may be given out again, so a      *)
(* pointer that outlives its module can meet another one.                  *)
(*                                                                         *)
(* execute() is one critical section of a recursive mutex.  Its lookups    *)
(* are split into steps; only a frame in stage "run" calls the host.       *)
(***************************************************************************)
EXTENDS Naturals, Sequences, FiniteSets

CONSTANTS Addrs, Revs, Codes, Contexts, Threads, Slots,
          Depths,                 \* of messages: the host counts calls
          Empty,                  \* the code of an address without code
          Finger,                 \* what validateCodeMatch compares
          Fallback,               \* the codes the analyzer keeps from the JIT
          Precompiles,            \* the addresses isLikelyPrecompile accepts
          Configs,                \* the configurations set_option may reach
          DEFAULT_REVISION,
          MAX_MODULE_CACHE_SIZE,
          CodeReused,             \* an address may get other code between calls
          None

Modes == {"interpreter", "multipass"}
Keys == Addrs \X Revs
Modules == [code : Codes, rev : Revs, config : Configs]
Instances == [mod : Slots, rev : Revs, msg : Depths]

(* Codes of different sizes never match.  A host that reuses addresses     *)
(* must not do it for codes that agree on their size, head and tail.       *)
ASSUME EvmcVmAssumption ==
  /\ Depths \subseteq Nat /\ Empty \in Codes /\ DEFAULT_REVISION \in Revs
  /\ None \notin Slots \cup Modules \cup Instances \cup Configs \cup Threads
                   \cup Contexts
  /\ \A c \in Codes : Finger[c] = Finger[Empty] => c = Empty
  /\ CodeReused => \A c, d \in Codes : Finger[c] = Finger[d] => c = d
  /\ Configs \subseteq [mode : Modes, metering : BOOLEAN]
  /\ CodeReused \in BOOLEAN

Kinds == {"call", "delegate", "create"}
Messages == [kind : Kinds, depth : Depths, addr : Addrs, rev : Revs]
Stages == {"find", "evict", "load", "found", "run"}
Frames == [msg : Messages, code : Codes, host : Contexts,
           prev : Contexts \cup {None}, path : Modes, stage : Stages,
           mod : Slots \cup {None}, loaded : Modules \cup {None},
           inst : Nat \cup {None}, guards : SUBSET Slots]

VARIABLES
  alive,            \* destroy has not been called
  owner,            \* of ExecuteMutex
  Config, RTConfig, \* of the DTVM, and of the Runtime once there is one
  EVMModulePool,    \* EVMModulePool[s]: the module at s, if one is loaded
  AddrCache, LRUOrder, L0Mod,
  CachedMainInst, CacheInsts,
  HostContext,      \* of the WrappedHost
  stack,            \* the frames of execute, innermost last
  HostCode          \* the host's accounts: HostCode[a] is the code of a

cache == <<AddrCache, LRUOrder, L0Mod>>
insts == <<CachedMainInst, CacheInsts>>
vars == <<alive, owner, Config, RTConfig, EVMModulePool, cache, insts,
          HostContext, stack, HostCode>>

TypeOK ==
  /\ alive \in BOOLEAN /\ owner \in Threads \cup {None}
  /\ Config \in Configs /\ RTConfig \in Configs \cup {None}
  /\ EVMModulePool \in [Slots -> Modules \cup {None}]
  /\ AddrCache \in [Keys -> Slots \cup {None}]
  /\ LRUOrder \in Seq(Keys) /\ L0Mod \in Slots \cup {None}
  /\ CachedMainInst \in Instances \cup {None}
  /\ CacheInsts \in Seq(Instances)
  /\ HostContext \in Contexts \cup {None}
  /\ stack \in Seq(Frames)
  /\ HostCode \in [Addrs -> Codes]

Init ==
  /\ alive = TRUE /\ owner = None
  /\ Config \in Configs /\ RTConfig = None
  /\ EVMModulePool = [s \in Slots |-> None]
  /\ AddrCache = [k \in Keys |-> None] /\ LRUOrder = << >> /\ L0Mod = None
  /\ CachedMainInst = None /\ CacheInsts = << >>
  /\ HostContext = None /\ stack = << >>
  /\ HostCode \in [Addrs -> Codes]

Top == stack[Len(stack)]
SetTop(f) == stack' = [stack EXCEPT ![Len(stack)] = f]
At(stage) == stack # << >> /\ Top.stage = stage

Key(f) == <<f.msg.addr, f.msg.rev>>
IsTransient(f) == f.msg.kind = "create"
HasJITCode(m) == m.config.mode = "multipass" /\ m.code \notin Fallback
ShouldFallbackToInterp(m) ==
  m.config.mode = "multipass" /\ m.code \in Fallback
Loaded == {s \in Slots : EVMModulePool[s] # None}
Cached == {k \in Keys : AddrCache[k] # None}

-----------------------------------------------------------------------------
(* The host.  Code appears at an address without code at any time, also    *)
(* while calls are under way; other code only between them.                *)
HostRuns == stack = << >> \/ (At("run") /\ Top.code # Empty)

HostDeploys(a) ==
  /\ HostRuns /\ HostCode[a] = Empty
  /\ \E c \in Codes \ {Empty} : HostCode' = [HostCode EXCEPT ![a] = c]
  /\ UNCHANGED <<alive, owner, Config, RTConfig, EVMModulePool, cache, insts,
                 HostContext, stack>>

HostReplaces(a) ==
  /\ CodeReused /\ stack = << >>
  /\ \E c \in Codes : HostCode' = [HostCode EXCEPT ![a] = c]
  /\ UNCHANGED <<alive, owner, Config, RTConfig, EVMModulePool, cache, insts,
                 HostContext, stack>>

(* At any time: the options are not locked, and reach neither the Runtime  *)
(* nor the modules there are already.                                      *)
set_option ==
  /\ alive /\ HostRuns
  /\ \/ \E mode \in Modes : Config' = [Config EXCEPT !.mode = mode]
     \/ \E on \in BOOLEAN : Config' = [Config EXCEPT !.metering = on]
  /\ Config' \in Configs
  /\ UNCHANGED <<alive, owner, RTConfig, EVMModulePool, cache, insts,
                 HostContext, stack, HostCode>>

-----------------------------------------------------------------------------
(* execute: ExecuteMutex, HostContextScope, ensureRuntimeAndIsolation and  *)
(* the choice of the path.  A nested call comes from the innermost frame   *)
(* and is deeper; the outermost one may have any depth, as other virtual   *)
(* machines of the host count too.                                         *)
NoCode(m, code) ==
  /\ Config.mode = "multipass" /\ code = Empty
  /\ m.kind = "call" /\ m.depth = 0 /\ m.addr \notin Precompiles

Path(m, code) ==
  IF m.kind = "call" /\ m.depth > 0 /\ code = Empty THEN "interpreter"
  ELSE Config.mode

CodeOf(m) == IF m.kind = "create" THEN Codes ELSE {HostCode[m.addr]}

(* The Runtime keeps the configuration it was created with. *)
ensureRuntimeAndIsolation ==
  RTConfig' = IF RTConfig = None THEN Config ELSE RTConfig

(* mutant: no mutex *)
AcquireNothing(t) == owner' = t

Acquire(t) == owner \in {None, t} /\ owner' = t

execute(t, m, host) ==
  /\ alive /\ HostRuns
  /\ owner = t => m.depth > Top.msg.depth
  /\ Acquire(t)
  /\ ensureRuntimeAndIsolation
  /\ \E code \in CodeOf(m) :
       /\ ~NoCode(m, code)
       /\ stack' = Append(stack,
            [msg |-> m, code |-> code, host |-> host, prev |-> HostContext,
             path |-> Path(m, code), stage |-> "find", mod |-> None,
             loaded |-> None, inst |-> None, guards |-> {}])
  /\ HostContext' = host
  /\ UNCHANGED <<alive, Config, EVMModulePool, cache, insts, HostCode>>

(* The early return of the multipass path: nothing to run. *)
executeNoCode(m) ==
  /\ alive /\ owner = None /\ NoCode(m, HostCode[m.addr])
  /\ ensureRuntimeAndIsolation
  /\ UNCHANGED <<alive, owner, Config, EVMModulePool, cache, insts,
                 HostContext, stack, HostCode>>

(* mutant: the host context of the inner call stays *)
LeaveContext == HostContext' = HostContext

RestoreContext == HostContext' = Top.prev

(* mutant: the guards are forgotten *)
UnloadNothing == EVMModulePool' = EVMModulePool

UnloadGuarded ==
  EVMModulePool' = [s \in Slots |-> IF s \in Top.guards THEN None
                                    ELSE EVMModulePool[s]]

(* Leaving the functions: the ModuleGuards unload, HostContextScope        *)
(* restores, the mutex is released.                                        *)
Leave ==
  /\ UnloadGuarded /\ RestoreContext
  /\ stack' = SubSeq(stack, 1, Len(stack) - 1)
  /\ owner' = IF Len(stack) = 1 THEN None ELSE owner
  /\ UNCHANGED <<alive, Config, RTConfig, cache, insts, HostCode>>

-----------------------------------------------------------------------------
(* loadEVMModuleWithRegAllocRetry: the module at s, compiled as the        *)
(* Runtime is configured; the retry compiles as the DTVM is.               *)
NewModule(f, s, config) ==
  /\ EVMModulePool[s] = None
  /\ config = RTConfig \/ (config = Config /\ RTConfig.mode = "multipass"
                                           /\ Config.mode = "multipass")
  /\ EVMModulePool' =
       [EVMModulePool EXCEPT ![s] = [code |-> f.code, rev |-> f.msg.rev,
                                     config |-> config]]

Found(f, s, pool) ==
  [f EXCEPT !.stage = "found", !.mod = s, !.loaded = pool[s]]

LoadTransient(s) ==
  /\ At("find") /\ IsTransient(Top)
  /\ \E config \in Configs : NewModule(Top, s, config)
  /\ SetTop([Found(Top, s, EVMModulePool') EXCEPT !.guards = @ \cup {s}])
  /\ UNCHANGED <<alive, owner, Config, RTConfig, cache, insts, HostContext,
                 HostCode>>

(* findModuleCached.  An element moves to the front of the list when its   *)
(* module is used again.                                                   *)
Without(s, k) ==
  LET i == CHOOSE i \in DOMAIN s : s[i] = k
  IN IF \E j \in DOMAIN s : s[j] = k
       THEN [j \in 1..(Len(s) - 1) |-> IF j < i THEN s[j] ELSE s[j + 1]]
       ELSE s

(* mutant: validated by nothing *)
MatchAnything(f) == AddrCache[Key(f)] # None

validateCodeMatch(f) ==
  /\ AddrCache[Key(f)] # None
  /\ Finger[EVMModulePool[AddrCache[Key(f)]].code] = Finger[f.code]

CacheHit ==
  /\ At("find") /\ ~IsTransient(Top) /\ validateCodeMatch(Top)
  /\ LET k == Key(Top) IN
       /\ LRUOrder' = <<k>> \o Without(LRUOrder, k)
       /\ L0Mod' = AddrCache[k]
       /\ SetTop(Found(Top, AddrCache[k], EVMModulePool))
  /\ UNCHANGED <<alive, owner, Config, RTConfig, EVMModulePool, AddrCache,
                 insts, HostContext, HostCode>>

(* mutant: the key stays in the list *)
EvictStaleListed(k) ==
  /\ EVMModulePool' = [EVMModulePool EXCEPT ![AddrCache[k]] = None]
  /\ AddrCache' = [AddrCache EXCEPT ![k] = None]
  /\ UNCHANGED LRUOrder

(* An entry whose module fails the validation goes. *)
EvictStale(k) ==
  /\ EVMModulePool' = [EVMModulePool EXCEPT ![AddrCache[k]] = None]
  /\ AddrCache' = [AddrCache EXCEPT ![k] = None]
  /\ LRUOrder' = Without(LRUOrder, k)

CacheMiss ==
  /\ At("find") /\ ~IsTransient(Top) /\ ~validateCodeMatch(Top)
  /\ LET k == Key(Top) IN
       \/ /\ AddrCache[k] = None
          /\ UNCHANGED <<EVMModulePool, cache>>
       \/ /\ AddrCache[k] # None
          /\ EvictStale(k)
          /\ L0Mod' = IF L0Mod = AddrCache[k] /\ Top.msg.depth = 0
                        THEN None ELSE L0Mod
  /\ SetTop([Top EXCEPT !.stage = "evict"])
  /\ UNCHANGED <<alive, owner, Config, RTConfig, insts, HostContext, HostCode>>

(* mutant: no instance is asked *)
UsedByNone(s) == FALSE

isModuleInUse(s) ==
  \/ CachedMainInst # None /\ CachedMainInst.mod = s
  \/ \E i \in DOMAIN CacheInsts : CacheInsts[i].mod = s

AtCapacity == Cardinality(Cached) >= MAX_MODULE_CACHE_SIZE /\ LRUOrder # << >>
Victim == LRUOrder[Len(LRUOrder)]

(* One turn of the eviction loop. *)
EvictLRU ==
  /\ At("evict") /\ AtCapacity /\ ~isModuleInUse(AddrCache[Victim])
  /\ EVMModulePool' = [EVMModulePool EXCEPT ![AddrCache[Victim]] = None]
  /\ L0Mod' = IF L0Mod = AddrCache[Victim] THEN None ELSE L0Mod
  /\ AddrCache' = [AddrCache EXCEPT ![Victim] = None]
  /\ LRUOrder' = SubSeq(LRUOrder, 1, Len(LRUOrder) - 1)
  /\ UNCHANGED <<alive, owner, Config, RTConfig, insts, HostContext, stack,
                 HostCode>>

(* Its end: there is room, or the last module is in use. *)
EvictEnd ==
  /\ At("evict")
  /\ AtCapacity => isModuleInUse(AddrCache[Victim])
  /\ SetTop([Top EXCEPT !.stage = "load"])
  /\ UNCHANGED <<alive, owner, Config, RTConfig, EVMModulePool, cache, insts,
                 HostContext, HostCode>>

LoadCached(s) ==
  /\ At("load")
  /\ \E config \in Configs : NewModule(Top, s, config)
  /\ AddrCache' = [AddrCache EXCEPT ![Key(Top)] = s]
  /\ LRUOrder' = <<Key(Top)>> \o LRUOrder
  /\ L0Mod' = s
  /\ SetTop(Found(Top, s, EVMModulePool'))
  /\ UNCHANGED <<alive, owner, Config, RTConfig, insts, HostContext, HostCode>>

LoadFails ==
  /\ At("load") \/ (At("find") /\ IsTransient(Top))
  /\ Leave

-----------------------------------------------------------------------------
(* mutant: the flag is not looked at *)
NeverFallsBack == FALSE

(* The multipass path hands a module unfit for the JIT to the interpreter  *)
(* path, which looks it up again; the guard of the first lookup stays.     *)
FallsBack ==
  /\ At("found") /\ Top.path = "multipass"
  /\ ShouldFallbackToInterp(Top.loaded)

ToInterpreter ==
  /\ FallsBack
  /\ SetTop([Top EXCEPT !.path = "interpreter", !.stage = "find"])
  /\ UNCHANGED <<alive, owner, Config, RTConfig, EVMModulePool, cache, insts,
                 HostContext, HostCode>>

Run(inst) == SetTop([Top EXCEPT !.stage = "run", !.inst = inst])
Reset(f) == [mod |-> f.mod, rev |-> f.msg.rev, msg |-> f.msg.depth]

(* getOrCreateInstance, then clearMessageCache and pushMessage. *)
NestedInstance(f) ==
  \/ /\ Len(CacheInsts) < f.msg.depth
     /\ CacheInsts' = Append(CacheInsts, Reset(f))
     /\ Run(Len(CacheInsts) + 1)
  \/ /\ Len(CacheInsts) >= f.msg.depth
     /\ CacheInsts' = [CacheInsts EXCEPT ![f.msg.depth] = Reset(f)]
     /\ Run(f.msg.depth)

(* A new main instance is not reset: it has the default revision. *)
MainInstance(f) ==
  /\ CachedMainInst' = IF CachedMainInst # None THEN Reset(f)
                       ELSE [Reset(f) EXCEPT !.rev = DEFAULT_REVISION]
  /\ Run(0)

GetInstance ==
  /\ At("found") /\ ~FallsBack
  /\ \/ Top.msg.depth > 0 /\ NestedInstance(Top) /\ UNCHANGED CachedMainInst
     \/ Top.msg.depth = 0 /\ MainInstance(Top) /\ UNCHANGED CacheInsts
  /\ UNCHANGED <<alive, owner, Config, RTConfig, EVMModulePool, cache,
                 HostContext, HostCode>>

(* createEVMInstance fails. *)
InstanceFails ==
  /\ At("found") /\ ~FallsBack
  /\ IF Top.msg.depth > 0 THEN Len(CacheInsts) < Top.msg.depth
     ELSE CachedMainInst = None
  /\ Leave

(* The interpreter or the JIT code ends, by whatever result or exception. *)
Return == At("run") /\ Leave

(* ~DTVM: the instances, then the cached modules. *)
UnloadCached ==
  EVMModulePool' = [s \in Slots |-> IF \E k \in Keys : AddrCache[k] = s
                                      THEN None ELSE EVMModulePool[s]]

destroy ==
  /\ alive /\ owner = None /\ alive' = FALSE
  /\ CachedMainInst' = None /\ CacheInsts' = << >>
  /\ UnloadCached
  /\ AddrCache' = [k \in Keys |-> None] /\ LRUOrder' = << >> /\ L0Mod' = None
  /\ UNCHANGED <<owner, Config, RTConfig, HostContext, stack, HostCode>>

-----------------------------------------------------------------------------
Lookup ==
  \/ \E s \in Slots : LoadTransient(s) \/ LoadCached(s)
  \/ CacheHit \/ CacheMiss \/ EvictLRU \/ EvictEnd \/ LoadFails

Next ==
  \/ \E a \in Addrs : HostDeploys(a) \/ HostReplaces(a)
  \/ set_option
  \/ \E t \in Threads, m \in Messages, host \in Contexts : execute(t, m, host)
  \/ \E m \in Messages : executeNoCode(m)
  \/ Lookup
  \/ ToInterpreter \/ GetInstance \/ InstanceFails \/ Return
  \/ destroy

Spec == Init /\ [][Next]_vars

-----------------------------------------------------------------------------
Running == {i \in DOMAIN stack : stack[i].stage = "run"}
InstanceOf(f) == IF f.inst = 0 THEN CachedMainInst ELSE CacheInsts[f.inst]

(* The interpreter's context: CachedCtx, or the NestedCtxPool's of a depth. *)
ContextOf(f) ==
  IF f.msg.depth = 0 /\ ~IsTransient(f) THEN <<"CachedCtx", 0>>
  ELSE <<"NestedCtxPool", f.msg.depth>>

(* No two calls under way share an instance or an interpreter context,     *)
(* though getOrCreateInstance reuses both by depth, and only one thread    *)
(* has calls under way.                                                    *)
FramesDisjoint ==
  /\ \A i, j \in Running : i # j =>
       stack[i].inst # stack[j].inst
       /\ ContextOf(stack[i]) # ContextOf(stack[j])
  /\ stack = << >> <=> owner = None

(* What a call under way runs on stays its own: its module is not unloaded *)
(* or replaced, by stale eviction, LRU eviction or another call's guard,   *)
(* and its instance still runs its message.                                *)
FramesIntact ==
  \A i \in Running : LET f == stack[i] IN
    /\ EVMModulePool[f.mod] = f.loaded
    /\ InstanceOf(f).mod = f.mod /\ InstanceOf(f).msg = f.msg.depth

(* A call runs the code the host passed, though findModuleCached compares  *)
(* only its size, head and tail.                                           *)
RunsHostCode ==
  \A i \in Running : stack[i].loaded.code = stack[i].code

(* Host calls of the innermost call go to its own context, and each outer  *)
(* call gets back the context it had.                                      *)
HostContextNests ==
  /\ HostContext = IF stack = << >> THEN None ELSE Top.host
  /\ \A i \in DOMAIN stack :
       stack[i].prev = IF i = 1 THEN None ELSE stack[i - 1].host

(* The list and the map of the cache have the same keys, each once, and    *)
(* each entry has a loaded module of its own, of the key's revision.       *)
CacheCoherent ==
  /\ {LRUOrder[i] : i \in DOMAIN LRUOrder} = Cached
  /\ \A i, j \in DOMAIN LRUOrder : LRUOrder[i] = LRUOrder[j] => i = j
  /\ \A k, l \in Cached : AddrCache[k] = AddrCache[l] => k = l
  /\ \A k \in Cached : /\ AddrCache[k] \in Loaded
                       /\ EVMModulePool[AddrCache[k]].rev = k[2]

(* The loaded modules are those of the cache and of the transient calls    *)
(* under way: none leaks, on no path, and destroy leaves none.             *)
NoModuleLeaks ==
  Loaded = {AddrCache[k] : k \in Cached}
           \cup UNION {stack[i].guards : i \in DOMAIN stack}

(* set_option chooses the path of a call, the Runtime's own configuration  *)
(* decides whether modules are compiled, and the fallback keeps codes the  *)
(* JIT refuses off the multipass path.  Together, with options changed at  *)
(* any time: a call on the multipass path has compiled code to enter if    *)
(* the Runtime was created for multipass, and only then.  A Runtime of the *)
(* interpreter leaves every later multipass call without code.             *)
JITCodeAsRuntime ==
  \A i \in Running : stack[i].path = "multipass" =>
    (HasJITCode(stack[i].loaded) <=> RTConfig.mode = "multipass")

(* What the docs say and the code does not keep: a call runs at the        *)
(* revision execute was given.                                             *)
RunsAtRevision ==
  \A i \in Running : InstanceOf(stack[i]).rev = stack[i].msg.rev
=============================================================================

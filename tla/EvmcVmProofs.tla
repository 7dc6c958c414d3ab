---------------------------- MODULE EvmcVmProofs ----------------------------
(***************************************************************************)
(* Proofs about EvmcVm: whatever the host calls, at whatever depths, a     *)
(* call under way keeps its instance, its module and its host context, it  *)
(* runs the code it was given, and no module leaks.                        *)
(***************************************************************************)
EXTENDS EvmcVm, TLAPS

-----------------------------------------------------------------------------
(* The inductive invariant.  A call under way is used by the ones inside   *)
(* it only through what they share: the cache, the instances, the pool.    *)

(* The instance of a running call: the main one at depth 0, else one of    *)
(* the nested ones, with an index of at most the depth.                    *)
InstanceOK(f) ==
  /\ IF f.msg.depth = 0 THEN f.inst = 0 /\ CachedMainInst # None
     ELSE f.inst \in 1..Len(CacheInsts) /\ f.inst <= f.msg.depth
  /\ InstanceOf(f).mod = f.mod /\ InstanceOf(f).msg = f.msg.depth

(* The module of a call that has one, in the cache or guarded. *)
ModuleOK(f) ==
  /\ f.mod \in Slots /\ f.loaded \in Modules
  /\ EVMModulePool[f.mod] = f.loaded /\ f.loaded.code = f.code
  /\ IF IsTransient(f) THEN f.mod \in f.guards ELSE AddrCache[Key(f)] = f.mod

GuardsOK(f) ==
  /\ ~IsTransient(f) => f.guards = {}
  /\ \A s \in f.guards : EVMModulePool[s] # None
  /\ \A k \in Keys : AddrCache[k] \notin f.guards

FrameOK(f) ==
  /\ f.stage \in {"found", "run"} => ModuleOK(f)
  /\ GuardsOK(f)
  /\ f.stage \in {"evict", "load"} => /\ ~IsTransient(f)
                                      /\ AddrCache[Key(f)] = None
  /\ ~IsTransient(f) /\ (f.stage # "run" \/ f.code # Empty)
       => HostCode[f.msg.addr] = f.code
  /\ f.stage = "run" => InstanceOK(f)

FrameSet == {stack[i] : i \in 1..Len(stack)}
Outer == {stack[i] : i \in 1..(Len(stack) - 1)}

FramesOK == \A f \in FrameSet : FrameOK(f)

(* A call and one inside it. *)
Apart(f, g) ==
  /\ f.stage = "run" /\ f.code # Empty
  /\ f.msg.depth < g.msg.depth
  /\ f.guards \cap g.guards = {}
  /\ g.stage = "run" => f.inst # g.inst

StackOK ==
  /\ stack = << >> <=> owner = None
  /\ \A i, j \in 1..Len(stack) : i < j => Apart(stack[i], stack[j])

CacheOK ==
  /\ \A k, l \in Keys : AddrCache[k] # None /\ AddrCache[k] = AddrCache[l]
                          => k = l
  /\ \A k \in Keys : AddrCache[k] # None =>
       /\ EVMModulePool[AddrCache[k]] # None
       /\ CodeReused \/ EVMModulePool[AddrCache[k]].code
                          \in {Empty, HostCode[k[1]]}

(* Every loaded module is one of the cache's or guarded. *)
Accounted ==
  \A s \in Slots : EVMModulePool[s] # None =>
    \/ \E k \in Keys : AddrCache[k] = s
    \/ \E f \in FrameSet : s \in f.guards

HostOK ==
  /\ HostContext = IF stack = << >> THEN None ELSE Top.host
  /\ \A i \in 1..Len(stack) :
       stack[i].prev = IF i = 1 THEN None ELSE stack[i - 1].host

Inv == TypeOK /\ FramesOK /\ StackOK /\ CacheOK /\ Accounted

-----------------------------------------------------------------------------
(* The stack. *)

(* Replacing the top frame leaves the others as they were. *)
LEMMA SetTopStack ==
  ASSUME stack \in Seq(Frames), stack # << >>, NEW g \in Frames, SetTop(g)
  PROVE /\ stack' \in Seq(Frames) /\ stack' # << >>
        /\ Len(stack') = Len(stack) /\ Len(stack) \in Nat \ {0}
        /\ stack'[Len(stack)] = g
        /\ \A i \in 1..(Len(stack) - 1) : stack'[i] = stack[i]
BY DEF SetTop

(* Entering execute adds one frame and leaves the others as they were. *)
LEMMA PushStack ==
  ASSUME stack \in Seq(Frames), NEW g \in Frames, stack' = Append(stack, g)
  PROVE /\ stack' \in Seq(Frames) /\ stack' # << >>
        /\ Len(stack') = Len(stack) + 1 /\ Len(stack) \in Nat
        /\ stack'[Len(stack) + 1] = g
        /\ \A i \in 1..Len(stack) : stack'[i] = stack[i]
OBVIOUS

(* A sequence without its last element. *)
LEMMA FrontSeq ==
  ASSUME NEW S, NEW s \in Seq(S), s # << >>
  PROVE /\ SubSeq(s, 1, Len(s) - 1) \in Seq(S)
        /\ Len(SubSeq(s, 1, Len(s) - 1)) = Len(s) - 1
        /\ Len(s) \in Nat \ {0} /\ s[Len(s)] \in S
        /\ \A i \in 1..(Len(s) - 1) : SubSeq(s, 1, Len(s) - 1)[i] = s[i]
<1> DEFINE n == Len(s)
           r == [i \in 1..(n - 1) |-> s[i]]
<1>1. n \in Nat \ {0} /\ DOMAIN s = 1..n /\ \A i \in 1..n : s[i] \in S
  OBVIOUS
<1>2. SubSeq(s, 1, n - 1) = r
  BY <1>1
<1> HIDE DEF n
<1>3. r \in Seq(S)
  BY <1>1
<1>4. DOMAIN r = 1..(n - 1) /\ \A i \in 1..(n - 1) : r[i] = s[i]
  BY Zenon
<1> HIDE DEF r
<1>5. Len(r) = n - 1
  BY <1>1, <1>3, <1>4
<1>6. s[n] \in S
  BY <1>1
<1>7. QED
  BY <1>1, <1>2, <1>3, <1>4, <1>5, <1>6 DEF n

(* A sequence is empty when its length is 0. *)
LEMMA EmptySeq ==
  ASSUME NEW S, NEW s \in Seq(S)
  PROVE Len(s) \in Nat /\ (s = << >> <=> Len(s) = 0)
OBVIOUS

(* Returning from execute drops the top frame only. *)
LEMMA PopStack ==
  ASSUME stack \in Seq(Frames), stack # << >>,
         stack' = SubSeq(stack, 1, Len(stack) - 1)
  PROVE /\ stack' \in Seq(Frames)
        /\ Len(stack') = Len(stack) - 1 /\ Len(stack) \in Nat \ {0}
        /\ \A i \in 1..(Len(stack) - 1) : stack'[i] = stack[i]
        /\ stack' = << >> <=> Len(stack) = 1
<1>1. /\ stack' \in Seq(Frames)
      /\ Len(stack') = Len(stack) - 1 /\ Len(stack) \in Nat \ {0}
      /\ \A i \in 1..(Len(stack) - 1) : stack'[i] = stack[i]
  BY FrontSeq
<1>2. stack' = << >> <=> Len(stack') = 0
  BY Zenon, <1>1, EmptySeq
<1>3. QED
  BY <1>1, <1>2

(* The top frame and the ones outside it are all the frames. *)
LEMMA TopFrame ==
  ASSUME stack \in Seq(Frames), stack # << >>
  PROVE /\ Top \in Frames /\ Top \in FrameSet /\ Len(stack) \in Nat \ {0}
        /\ FrameSet = Outer \cup {Top} /\ Outer \subseteq Frames
<1>1. /\ Len(stack) \in Nat \ {0}
      /\ \A i \in 1..Len(stack) : stack[i] \in Frames
  OBVIOUS
<1>2. 1..Len(stack) = (1..(Len(stack) - 1)) \cup {Len(stack)}
  BY <1>1
<1>3. FrameSet = Outer \cup {Top}
  BY <1>2, Zenon DEF FrameSet, Outer, Top
<1>4. Top \in Frames
  BY <1>1, <1>2, Zenon DEF Top
<1>5. Outer \subseteq Frames
  BY <1>1, <1>2, Zenon DEF Outer
<1>6. QED
  BY <1>1, <1>3, <1>4, <1>5, Zenon

(* The frame on top changes. *)
LEMMA StepTop ==
  ASSUME stack \in Seq(Frames), stack # << >>, StackOK,
         NEW g \in Frames, SetTop(g), owner' = owner, g.msg = Top.msg,
         \A f \in Outer : /\ f.guards \cap g.guards = {}
                          /\ g.stage = "run" => f.inst # g.inst
  PROVE stack' \in Seq(Frames) /\ StackOK' /\ FrameSet' = Outer \cup {g}
<1>1. /\ stack' \in Seq(Frames) /\ stack' # << >>
      /\ Len(stack') = Len(stack) /\ Len(stack) \in Nat \ {0}
      /\ stack'[Len(stack)] = g
      /\ \A i \in 1..(Len(stack) - 1) : stack'[i] = stack[i]
  BY SetTopStack
<1>2. 1..Len(stack) = (1..(Len(stack) - 1)) \cup {Len(stack)}
  BY <1>1
<1>3. FrameSet' = {stack'[i] : i \in 1..Len(stack)}
  BY <1>1, Zenon DEF FrameSet
<1>4. FrameSet' = Outer \cup {g}
  <2>1. ASSUME NEW i \in 1..Len(stack) PROVE stack'[i] \in Outer \cup {g}
    BY <1>1, <1>2, Zenon DEF Outer
  <2>2. ASSUME NEW i \in 1..(Len(stack) - 1) PROVE stack[i] \in FrameSet'
    BY <1>1, <1>2, <1>3, Zenon
  <2>3. g \in FrameSet'
    BY <1>1, <1>2, <1>3, Zenon
  <2>4. QED
    BY <1>3, <2>1, <2>2, <2>3, Zenon DEF Outer
<1>5. ASSUME NEW i \in 1..Len(stack), NEW j \in 1..Len(stack), i < j
      PROVE Apart(stack'[i], stack'[j])
  <2>1. i \in 1..(Len(stack) - 1) /\ stack'[i] = stack[i]
    BY <1>1, <1>5
  <2>2. CASE j # Len(stack)
    <3>1. j \in 1..(Len(stack) - 1)
      BY <1>1, <2>2
    <3>2. QED
      BY <1>1, <1>5, <2>1, <3>1, Zenon DEF StackOK
  <2>3. CASE j = Len(stack)
    <3>1. Apart(stack[i], Top)
      BY <1>5, <2>3, Zenon DEF StackOK, Top
    <3>2. stack[i] \in Outer
      BY <2>1, Zenon DEF Outer
    <3>3. QED
      BY <1>1, <2>1, <2>3, <3>1, <3>2, Zenon DEF Apart
  <2>4. QED
    BY <2>2, <2>3
<1>6. StackOK'
  <2>1. stack' = << >> <=> owner' = None
    BY <1>1, Zenon DEF StackOK
  <2>2. QED
    BY <1>1, <1>5, <2>1, Zenon DEF StackOK
<1>7. QED
  BY <1>1, <1>4, <1>6

(* Every outer frame is sound and apart from the top one. *)
LEMMA OuterFrames ==
  ASSUME stack \in Seq(Frames), stack # << >>, StackOK, FramesOK
  PROVE \A f \in Outer : f \in Frames /\ FrameOK(f) /\ Apart(f, Top)
<1>1. /\ Top \in FrameSet /\ FrameSet = Outer \cup {Top}
      /\ Outer \subseteq Frames /\ Len(stack) \in Nat \ {0}
  BY TopFrame
<1>2. ASSUME NEW i \in 1..(Len(stack) - 1)
      PROVE Apart(stack[i], Top)
  <2>1. i \in 1..Len(stack) /\ Len(stack) \in 1..Len(stack) /\ i < Len(stack)
    BY <1>1
  <2>2. QED
    BY <2>1, Zenon DEF StackOK, Top
<1>3. QED
  BY <1>1, <1>2, Zenon DEF Outer, FramesOK

(* A call begins. *)
LEMMA StepPush ==
  ASSUME stack \in Seq(Frames), StackOK, NEW g \in Frames,
         stack' = Append(stack, g), owner' # None,
         \A f \in FrameSet : Apart(f, g)
  PROVE stack' \in Seq(Frames) /\ StackOK' /\ FrameSet' = FrameSet \cup {g}
<1> DEFINE n == Len(stack)
<1>1. /\ stack' \in Seq(Frames) /\ stack' # << >>
      /\ Len(stack') = n + 1 /\ n \in Nat
      /\ stack'[n + 1] = g
      /\ \A i \in 1..n : stack'[i] = stack[i]
  BY PushStack
<1>2. 1..(n + 1) = (1..n) \cup {n + 1}
  BY <1>1
<1>3. FrameSet' = {stack'[i] : i \in 1..(n + 1)}
  BY <1>1, Zenon DEF FrameSet
<1>4. FrameSet' = FrameSet \cup {g}
  <2>1. ASSUME NEW i \in 1..(n + 1) PROVE stack'[i] \in FrameSet \cup {g}
    BY <1>1, <1>2, Zenon DEF FrameSet
  <2>2. ASSUME NEW i \in 1..n PROVE stack[i] \in FrameSet'
    BY <1>1, <1>2, <1>3, Zenon
  <2>3. g \in FrameSet'
    BY <1>1, <1>2, <1>3, Zenon
  <2>4. FrameSet = {stack[i] : i \in 1..n}
    BY Zenon DEF FrameSet
  <2>5. QED
    BY <1>3, <2>1, <2>2, <2>3, <2>4, Zenon
<1>5. ASSUME NEW i \in 1..(n + 1), NEW j \in 1..(n + 1), i < j
      PROVE Apart(stack'[i], stack'[j])
  <2>1. i \in 1..n /\ stack'[i] = stack[i]
    BY <1>1, <1>5
  <2>2. CASE j # n + 1
    <3>1. j \in 1..n
      BY <1>1, <2>2
    <3>2. QED
      BY <1>1, <1>5, <2>1, <3>1, Zenon DEF StackOK
  <2>3. CASE j = n + 1
    BY <1>1, <2>1, <2>3, Zenon DEF FrameSet
  <2>4. QED
    BY <2>2, <2>3
<1>6. StackOK'
  BY <1>1, <1>5, Zenon DEF StackOK
<1>7. QED
  BY <1>1, <1>4, <1>6

(* A call ends. *)
LEMMA StepPop ==
  ASSUME stack \in Seq(Frames), stack # << >>, StackOK,
         stack' = SubSeq(stack, 1, Len(stack) - 1),
         owner' = IF Len(stack) = 1 THEN None ELSE owner
  PROVE stack' \in Seq(Frames) /\ StackOK' /\ FrameSet' = Outer
<1> DEFINE n == Len(stack)
<1>1. /\ stack' \in Seq(Frames)
      /\ Len(stack') = n - 1 /\ n \in Nat \ {0}
      /\ \A i \in 1..(n - 1) : stack'[i] = stack[i]
      /\ stack' = << >> <=> n = 1
  BY PopStack
<1>2. FrameSet' = {stack'[i] : i \in 1..(n - 1)}
  BY <1>1, Zenon DEF FrameSet
<1>3. FrameSet' = Outer
  <2>1. Outer = {stack[i] : i \in 1..(n - 1)}
    BY Zenon DEF Outer
  <2>2. \A i \in 1..(n - 1) : stack'[i] = stack[i]
    BY <1>1
  <2> HIDE DEF n
  <2>3. QED
    BY <1>2, <2>1, <2>2, Zenon
<1>4. ASSUME NEW i \in 1..(n - 1), NEW j \in 1..(n - 1), i < j
      PROVE Apart(stack'[i], stack'[j])
  <2>1. i \in 1..n /\ j \in 1..n
    BY <1>1
  <2>2. QED
    BY <1>1, <1>4, <2>1, Zenon DEF StackOK
<1>5. stack' = << >> <=> owner' = None
  BY <1>1, Zenon DEF StackOK
<1>6. QED
  BY <1>1, <1>3, <1>4, <1>5, Zenon DEF StackOK

-----------------------------------------------------------------------------
(* A frame that is not on top keeps what it runs on, when the pool, the    *)
(* cache and the instances change elsewhere.                               *)
LEMMA FrameStays ==
  ASSUME NEW f \in Frames, FrameOK(f), f.stage = "run",
         \A s \in f.guards \cup {f.mod} : EVMModulePool'[s] = EVMModulePool[s],
         ~IsTransient(f) => /\ AddrCache'[Key(f)] = AddrCache[Key(f)]
                            /\ f.code # Empty =>
                                 HostCode'[f.msg.addr] = HostCode[f.msg.addr],
         \A k \in Keys : AddrCache'[k] \notin f.guards,
         InstanceOK(f)'
  PROVE FrameOK(f)'
<1>1. ModuleOK(f)'
  BY Zenon DEF FrameOK, ModuleOK
<1>2. GuardsOK(f)'
  BY Zenon DEF FrameOK, GuardsOK
<1>3. f.stage \notin {"evict", "load"}
  OBVIOUS
<1>4. QED
  BY <1>1, <1>2, <1>3, Zenon DEF FrameOK

(* A running call keeps its instance while no instance changes. *)
LEMMA InstanceStays ==
  ASSUME NEW f \in Frames, InstanceOK(f), UNCHANGED insts
  PROVE InstanceOK(f)'
BY Zenon DEF InstanceOK, InstanceOf, insts

(* A step that leaves modules, cache, instances and host code alone keeps
   every frame sound. *)
LEMMA QuietFrame ==
  ASSUME NEW f \in Frames, FrameOK(f),
         UNCHANGED <<EVMModulePool, cache, insts, HostCode>>
  PROVE FrameOK(f)'
<1>1. f.stage = "run" => InstanceOK(f)'
  BY InstanceStays, Zenon DEF FrameOK
<1>2. UNCHANGED <<EVMModulePool, AddrCache, HostCode>>
  BY Zenon DEF cache
<1>3. ModuleOK(f) => ModuleOK(f)'
  BY <1>2, Zenon DEF ModuleOK
<1>4. GuardsOK(f) => GuardsOK(f)'
  BY <1>2, Zenon DEF GuardsOK
<1>5. QED
  BY <1>1, <1>2, <1>3, <1>4, Zenon DEF FrameOK

(* The same for the cache. *)
LEMMA QuietCache ==
  ASSUME CacheOK, UNCHANGED <<EVMModulePool, cache, HostCode>>
  PROVE CacheOK'
BY Zenon DEF CacheOK, cache

(* The frame on top changes, and keeps its guards. *)
LEMMA FramesTop ==
  ASSUME Inv, stack # << >>, NEW g \in Frames, SetTop(g), owner' = owner,
         g.msg = Top.msg,
         \A f \in Outer : /\ f.guards \cap g.guards = {}
                          /\ g.stage = "run" => f.inst # g.inst
                          /\ FrameOK(f)',
         FrameOK(g)'
  PROVE stack' \in Seq(Frames) /\ FramesOK' /\ StackOK'
        /\ FrameSet' = Outer \cup {g}
<1>1. stack \in Seq(Frames) /\ StackOK
  BY Zenon DEF Inv, TypeOK
<1>2. stack' \in Seq(Frames) /\ StackOK' /\ FrameSet' = Outer \cup {g}
  BY <1>1, StepTop
<1>3. QED
  BY <1>2, Zenon DEF FramesOK

(* An empty stack has no frames. *)
LEMMA Frames0 ==
  ASSUME stack \in Seq(Frames), stack = << >>
  PROVE FrameSet = {}
BY DEF FrameSet

(* The facts of a step that starts at the frame on top. *)
LEMMA TopFacts ==
  ASSUME Inv, stack # << >>
  PROVE /\ Top \in Frames /\ FrameOK(Top) /\ Top \in FrameSet
        /\ FrameSet = Outer \cup {Top}
        /\ \A f \in Outer : f \in Frames /\ FrameOK(f) /\ Apart(f, Top)
        /\ TypeOK /\ CacheOK /\ Accounted /\ StackOK
<1>1. stack \in Seq(Frames) /\ StackOK /\ FramesOK
  BY Zenon DEF Inv, TypeOK
<1>2. Top \in Frames /\ Top \in FrameSet /\ FrameSet = Outer \cup {Top}
  BY <1>1, TopFrame
<1>3. \A f \in Outer : f \in Frames /\ FrameOK(f) /\ Apart(f, Top)
  BY <1>1, OuterFrames
<1>4. QED
  BY <1>1, <1>2, <1>3, Zenon DEF FramesOK, Inv

(* A step of the frame on top that touches nothing else. *)
LEMMA QuietTop ==
  ASSUME Inv, stack # << >>, NEW g \in Frames, SetTop(g),
         g.msg = Top.msg, g.guards = Top.guards, g.stage # "run", FrameOK(g)',
         UNCHANGED <<alive, owner, Config, RTConfig, EVMModulePool, cache,
                     insts, HostContext, HostCode>>
  PROVE Inv'
<1>1. /\ FrameSet = Outer \cup {Top}
      /\ \A f \in Outer : f \in Frames /\ FrameOK(f) /\ Apart(f, Top)
      /\ TypeOK /\ CacheOK /\ Accounted
  BY TopFacts, Zenon
<1>2. owner' = owner /\ UNCHANGED <<EVMModulePool, cache, insts, HostCode>>
  BY Zenon
<1>3. \A f \in Outer : /\ f.guards \cap g.guards = {}
                       /\ g.stage = "run" => f.inst # g.inst
                       /\ FrameOK(f)'
  BY <1>1, <1>2, QuietFrame, Zenon DEF Apart
<1>4. stack' \in Seq(Frames) /\ FramesOK' /\ StackOK'
      /\ FrameSet' = Outer \cup {g}
  BY <1>2, <1>3, FramesTop
<1>5. TypeOK'
  BY <1>1, <1>4, Zenon DEF TypeOK, cache, insts
<1>6. CacheOK'
  BY <1>1, <1>2, QuietCache
<1>7. Accounted'
  BY <1>1, <1>4, Zenon DEF Accounted, cache
<1>8. QED
  BY <1>4, <1>5, <1>6, <1>7 DEF Inv

-----------------------------------------------------------------------------
(* The frames the steps make. *)

(* A frame that moves to another stage keeps its other fields. *)
LEMMA StagedFrame ==
  ASSUME NEW f \in Frames, NEW stage \in Stages, NEW g,
         g = [f EXCEPT !.stage = stage]
  PROVE /\ g \in Frames /\ g.stage = stage
        /\ g.msg = f.msg /\ g.code = f.code /\ g.guards = f.guards
        /\ g.mod = f.mod /\ g.loaded = f.loaded /\ g.host = f.host
        /\ g.prev = f.prev /\ g.path = f.path
BY DEF Frames

(* A frame handed to the interpreter path keeps its other fields. *)
LEMMA InterpFrame ==
  ASSUME NEW f \in Frames, NEW g,
         g = [f EXCEPT !.path = "interpreter", !.stage = "find"]
  PROVE /\ g \in Frames /\ g.stage = "find" /\ g.path = "interpreter"
        /\ g.msg = f.msg /\ g.code = f.code /\ g.guards = f.guards
        /\ g.mod = f.mod /\ g.loaded = f.loaded /\ g.host = f.host
        /\ g.prev = f.prev
BY Zenon DEF Frames, Modes, Stages

(* A frame that has found its module keeps its other fields. *)
LEMMA FoundFrame ==
  ASSUME NEW f \in Frames, NEW s \in Slots, NEW pool, pool[s] \in Modules,
         NEW g, g = Found(f, s, pool)
  PROVE /\ g \in Frames /\ g.stage = "found" /\ g.mod = s /\ g.loaded = pool[s]
        /\ g.msg = f.msg /\ g.code = f.code /\ g.guards = f.guards
        /\ g.host = f.host /\ g.prev = f.prev /\ g.path = f.path
BY Zenon DEF Frames, Stages, Found

(* A frame that takes a guard of a module keeps its other fields. *)
LEMMA GuardedFrame ==
  ASSUME NEW f \in Frames, NEW s \in Slots, NEW g,
         g = [f EXCEPT !.guards = @ \cup {s}]
  PROVE /\ g \in Frames /\ g.stage = f.stage /\ g.mod = f.mod
        /\ g.loaded = f.loaded /\ g.msg = f.msg /\ g.code = f.code
        /\ g.guards = f.guards \cup {s}
        /\ g.host = f.host /\ g.prev = f.prev /\ g.path = f.path
BY DEF Frames

-----------------------------------------------------------------------------
(* The steps of a lookup that touch only the frame on top. *)

(* The end of the eviction loop keeps the invariant. *)
LEMMA EvictEndInv == ASSUME Inv, EvictEnd PROVE Inv'
<1>1. stack # << >> /\ Top.stage = "evict"
  BY DEF EvictEnd, At
<1>2. Top \in Frames /\ FrameOK(Top)
  BY <1>1, TopFacts, Zenon
<1>3. PICK g : g = [Top EXCEPT !.stage = "load"]
  BY Zenon
<1>4. "load" \in Stages
  BY DEF Stages
<1>5. /\ g \in Frames /\ g.stage = "load"
      /\ g.msg = Top.msg /\ g.code = Top.code /\ g.guards = Top.guards
      /\ g.mod = Top.mod /\ g.loaded = Top.loaded
  BY <1>2, <1>3, <1>4, StagedFrame
<1>6. /\ SetTop(g)
      /\ UNCHANGED <<alive, owner, Config, RTConfig, EVMModulePool, cache,
                     insts, HostContext, HostCode>>
  BY <1>3, Zenon DEF EvictEnd
<1>7. GuardsOK(g) /\ ~IsTransient(g) /\ AddrCache[Key(g)] = None
      /\ HostCode[g.msg.addr] = g.code
  <2>1. Top.stage # "run" /\ Top.stage \in {"evict", "load"}
    BY <1>1
  <2>2. QED
    BY <1>2, <1>5, <2>1, Zenon DEF FrameOK, GuardsOK, IsTransient, Key
<1>8. FrameOK(g)
  BY <1>5, <1>7 DEF FrameOK
<1>9. FrameOK(g)'
  BY <1>5, <1>6, <1>8, QuietFrame, Zenon
<1>10. g.stage # "run"
  BY <1>5
<1>11. QED
  BY <1>1, <1>5, <1>6, <1>9, <1>10, QuietTop

(* Handing an unfit module to the interpreter keeps the invariant. *)
LEMMA ToInterpreterInv == ASSUME Inv, ToInterpreter PROVE Inv'
<1>1. stack # << >> /\ Top.stage = "found"
  BY DEF ToInterpreter, FallsBack, At
<1>2. Top \in Frames /\ FrameOK(Top)
  BY <1>1, TopFacts, Zenon
<1>3. PICK g : g = [Top EXCEPT !.path = "interpreter", !.stage = "find"]
  OBVIOUS
<1>5. /\ g \in Frames /\ g.stage = "find"
      /\ g.msg = Top.msg /\ g.code = Top.code /\ g.guards = Top.guards
  BY Zenon, <1>2, <1>3, InterpFrame
<1>6. /\ SetTop(g)
      /\ UNCHANGED <<alive, owner, Config, RTConfig, EVMModulePool, cache,
                     insts, HostContext, HostCode>>
  BY <1>3, Zenon DEF ToInterpreter
<1>7. GuardsOK(g) /\ (~IsTransient(g) => HostCode[g.msg.addr] = g.code)
  <2>1. Top.stage # "run"
    BY <1>1
  <2>2. QED
    BY <1>2, <1>5, <2>1, Zenon DEF FrameOK, GuardsOK, IsTransient, Key
<1>8. FrameOK(g)
  BY <1>5, <1>7 DEF FrameOK
<1>9. FrameOK(g)'
  BY <1>5, <1>6, <1>8, QuietFrame, Zenon
<1>10. g.stage # "run"
  BY <1>5
<1>11. QED
  BY <1>1, <1>5, <1>6, <1>9, <1>10, QuietTop

-----------------------------------------------------------------------------
(* The host, and calls beginning and ending. *)

(* While the host runs, every call under way runs code. *)
LEMMA HostRunsFrames ==
  ASSUME Inv, HostRuns
  PROVE \A f \in FrameSet : f \in Frames /\ FrameOK(f) /\ f.stage = "run"
                            /\ f.code # Empty
<1>1. CASE stack = << >>
  BY <1>1, Frames0 DEF Inv, TypeOK
<1>2. CASE stack # << >> /\ Top.stage = "run" /\ Top.code # Empty
  <2>1. /\ Top \in Frames /\ FrameOK(Top) /\ FrameSet = Outer \cup {Top}
        /\ \A f \in Outer : f \in Frames /\ FrameOK(f) /\ Apart(f, Top)
    BY <1>2, TopFacts, Zenon
  <2>2. QED
    BY <1>2, <2>1, Zenon DEF Apart
<1>3. QED
  BY <1>1, <1>2 DEF HostRuns, At

(* A step that leaves the calls under way, the cache and the pool. *)
LEMMA QuietInv ==
  ASSUME Inv, TypeOK',
         UNCHANGED <<owner, EVMModulePool, cache, insts, stack, HostCode>>
  PROVE Inv'
<1>0. FrameSet' = FrameSet
  BY Zenon DEF FrameSet
<1>1. \A i \in 1..Len(stack) : stack[i] \in Frames
  BY DEF Inv, TypeOK
<1>2. FramesOK'
  BY <1>0, <1>1, QuietFrame, Zenon DEF Inv, FramesOK, FrameSet
<1>3. StackOK'
  BY Zenon DEF Inv, StackOK
<1>4. CacheOK'
  BY QuietCache, Zenon DEF Inv
<1>5. Accounted'
  BY <1>0, Zenon DEF Inv, Accounted, cache
<1>6. QED
  BY <1>2, <1>3, <1>4, <1>5 DEF Inv

(* set_option keeps the invariant. *)
LEMMA set_optionInv == ASSUME Inv, set_option PROVE Inv'
<1>1. TypeOK'
  BY Zenon DEF set_option, Inv, TypeOK, cache, insts
<1>2. QED
  BY <1>1, QuietInv, Zenon DEF set_option

(* A call without code returns at once and keeps the invariant. *)
LEMMA executeNoCodeInv ==
  ASSUME Inv, NEW m \in Messages, executeNoCode(m) PROVE Inv'
<1>1. TypeOK'
  BY Zenon DEF executeNoCode, ensureRuntimeAndIsolation, Inv, TypeOK, cache,
               insts
<1>2. QED
  BY <1>1, QuietInv, Zenon DEF executeNoCode

(* A deployment by the host, at an address without code and possibly
   during calls, keeps the invariant. *)
LEMMA HostDeploysInv ==
  ASSUME Inv, NEW a \in Addrs, HostDeploys(a) PROVE Inv'
<1>1. PICK c \in Codes : HostCode' = [HostCode EXCEPT ![a] = c]
  BY Zenon DEF HostDeploys
<1>2. /\ UNCHANGED <<alive, owner, Config, RTConfig, EVMModulePool, cache,
                     insts, HostContext, stack>>
      /\ HostRuns /\ HostCode[a] = Empty
  BY Zenon DEF HostDeploys
<1>3. TypeOK /\ HostCode \in [Addrs -> Codes]
  BY Zenon DEF Inv, TypeOK
<1>4. /\ HostCode' \in [Addrs -> Codes]
      /\ \A b \in Addrs : HostCode[b] # Empty => HostCode'[b] = HostCode[b]
  BY <1>1, <1>2, <1>3, Zenon
<1>5. TypeOK'
  BY <1>2, <1>3, <1>4, Zenon DEF TypeOK, cache, insts
<1>6. FrameSet' = FrameSet
  BY <1>2, Zenon DEF FrameSet
<1>7. ASSUME NEW f \in FrameSet PROVE FrameOK(f)'
  <2>1. f \in Frames /\ FrameOK(f) /\ f.stage = "run" /\ f.code # Empty
    BY <1>2, HostRunsFrames, Zenon
  <2>2. f.msg.addr \in Addrs
    BY <2>1 DEF Frames, Messages
  <2>3. ~IsTransient(f) => HostCode'[f.msg.addr] = HostCode[f.msg.addr]
    BY <1>4, <2>1, <2>2, Zenon DEF FrameOK
  <2>4. InstanceOK(f)'
    BY <1>2, <2>1, InstanceStays, Zenon DEF FrameOK
  <2>5. AddrCache' = AddrCache
    BY <1>2, Zenon DEF cache
  <2>6. \A k \in Keys : AddrCache'[k] \notin f.guards
    BY <2>1, <2>5, Zenon DEF FrameOK, GuardsOK
  <2>7. QED
    BY <1>2, <2>1, <2>3, <2>4, <2>5, <2>6, FrameStays, Zenon
<1>8. CacheOK'
  <2>1. CacheOK /\ UNCHANGED <<AddrCache, EVMModulePool>>
    BY <1>2, Zenon DEF Inv, cache
  <2>2. \A k \in Keys : k[1] \in Addrs
    BY DEF Keys
  <2>3. \A k \in Keys : {Empty, HostCode[k[1]]} \subseteq
                          {Empty, HostCode'[k[1]]}
    BY <1>4, <2>2, Zenon
  <2>4. QED
    BY <2>1, <2>3, Zenon DEF CacheOK
<1>9. Accounted'
  BY <1>2, <1>6, Zenon DEF Inv, Accounted, cache
<1>10. StackOK'
  BY <1>2, Zenon DEF Inv, StackOK
<1>11. QED
  BY <1>5, <1>6, <1>7, <1>8, <1>9, <1>10, Zenon DEF Inv, FramesOK

(* Replacing an address's code between calls keeps the invariant. *)
LEMMA HostReplacesInv ==
  ASSUME Inv, NEW a \in Addrs, HostReplaces(a) PROVE Inv'
<1>1. PICK c \in Codes : HostCode' = [HostCode EXCEPT ![a] = c]
  BY Zenon DEF HostReplaces
<1>2. /\ UNCHANGED <<alive, owner, Config, RTConfig, EVMModulePool, cache,
                     insts, HostContext, stack>>
      /\ CodeReused /\ stack = << >>
  BY Zenon DEF HostReplaces
<1>3. TypeOK'
  BY <1>1, <1>2, Zenon DEF Inv, TypeOK, cache, insts
<1>4. FrameSet = {}
  BY <1>2, Frames0, Zenon DEF Inv, TypeOK
<1>5. CacheOK'
  BY <1>2, Zenon DEF Inv, CacheOK, cache
<1>6. FrameSet' = FrameSet
  BY <1>2, Zenon DEF FrameSet
<1>7. Accounted'
  BY <1>2, <1>6, Zenon DEF Inv, Accounted, cache
<1>8. StackOK'
  BY <1>2, Zenon DEF Inv, StackOK
<1>9. QED
  BY <1>3, <1>4, <1>5, <1>6, <1>7, <1>8, Zenon DEF Inv, FramesOK

(* Call depths are natural numbers. *)
LEMMA DepthsNat == Depths \subseteq Nat
BY EvmcVmAssumption

(* None is no slot, module, instance or thread. *)
LEMMA NoneOutside ==
  /\ None \notin Slots /\ None \notin Modules /\ None \notin Instances
  /\ None \notin Threads
BY EvmcVmAssumption, Zenon

(* Entering execute, outermost or from a host callback, keeps the
   invariant. *)
LEMMA executeInv ==
  ASSUME Inv, NEW t \in Threads, NEW m \in Messages, NEW host \in Contexts,
         execute(t, m, host)
  PROVE Inv'
<1>1. /\ HostRuns /\ Acquire(t) /\ (owner = t => m.depth > Top.msg.depth)
      /\ HostContext' = host /\ ensureRuntimeAndIsolation
      /\ UNCHANGED <<alive, Config, EVMModulePool, cache, insts, HostCode>>
  BY Zenon DEF execute
<1>2. PICK code \in CodeOf(m) : stack' = Append(stack,
            [msg |-> m, code |-> code, host |-> host, prev |-> HostContext,
             path |-> Path(m, code), stage |-> "find", mod |-> None,
             loaded |-> None, inst |-> None, guards |-> {}])
  BY Zenon DEF execute
<1>3. PICK g : g = [msg |-> m, code |-> code, host |-> host,
             prev |-> HostContext, path |-> Path(m, code), stage |-> "find",
             mod |-> None, loaded |-> None, inst |-> None, guards |-> {}]
  BY Zenon
<1>4. TypeOK /\ StackOK /\ FramesOK /\ CacheOK /\ Accounted
  BY Zenon DEF Inv
<1>5. g \in Frames
  <2>1. m.addr \in Addrs
    BY DEF Messages
  <2>2. code \in Codes
    BY <1>4, <2>1, Zenon DEF CodeOf, TypeOK
  <2>3. Config.mode \in Modes
    BY <1>4, EvmcVmAssumption DEF TypeOK
  <2>4. Path(m, code) \in Modes
    BY <2>3 DEF Path, Modes
  <2>5. HostContext \in Contexts \cup {None}
    BY <1>4, Zenon DEF TypeOK
  <2>6. QED
    BY <1>3, <2>2, <2>4, <2>5 DEF Frames, Stages
<1>6. /\ g.msg = m /\ g.code = code /\ g.guards = {} /\ g.stage = "find"
  BY <1>3
<1>7. owner' = t /\ t # None
  BY <1>1, NoneOutside, Zenon DEF Acquire
<1>8. ASSUME NEW f \in FrameSet PROVE Apart(f, g)
  <2>1. f \in Frames /\ f.stage = "run" /\ f.code # Empty
    BY <1>1, HostRunsFrames, Zenon
  <2>2. stack # << >>
    BY <1>4, Frames0, Zenon DEF TypeOK
  <2>3. m.depth > Top.msg.depth
    BY <1>1, <1>4, <2>2, Zenon DEF Acquire, StackOK
  <2>4. /\ Top \in Frames /\ FrameSet = Outer \cup {Top}
        /\ \A h \in Outer : Apart(h, Top)
    BY <2>2, TopFacts, Zenon
  <2>5. f.msg.depth \in Nat /\ Top.msg.depth \in Nat /\ m.depth \in Nat
    BY Zenon, <2>1, <2>4, DepthsNat DEF Frames, Messages
  <2>6. f = Top \/ f.msg.depth < Top.msg.depth
    BY <2>4, Zenon DEF Apart
  <2>7. f.msg.depth < m.depth
    BY <2>3, <2>5, <2>6
  <2>8. QED
    BY <1>6, <2>1, <2>7 DEF Apart
<1>9. stack' \in Seq(Frames) /\ StackOK' /\ FrameSet' = FrameSet \cup {g}
  BY Zenon, <1>2, <1>3, <1>4, <1>5, <1>7, <1>8, StepPush DEF TypeOK
<1>10. FrameOK(g)'
  <2>1. ~IsTransient(g) => HostCode'[g.msg.addr] = g.code
    BY <1>1, <1>6, Zenon DEF IsTransient, CodeOf
  <2>2. GuardsOK(g)'
    BY <1>6, Zenon DEF GuardsOK
  <2>3. QED
    BY <1>6, <2>1, <2>2 DEF FrameOK
<1>11. FramesOK'
  <2>1. \A f \in FrameSet : f \in Frames /\ FrameOK(f)
    BY <1>1, HostRunsFrames, Zenon
  <2>2. \A f \in FrameSet : FrameOK(f)'
    BY <1>1, <2>1, QuietFrame, Zenon
  <2>3. QED
    BY <1>9, <1>10, <2>2, Zenon DEF FramesOK
<1>12. CacheOK'
  BY <1>1, <1>4, QuietCache, Zenon
<1>13. Accounted'
  BY <1>1, <1>4, <1>9, Zenon DEF Accounted, cache
<1>14. TypeOK'
  BY <1>1, <1>4, <1>7, <1>9, Zenon DEF TypeOK, cache, insts,
                                       ensureRuntimeAndIsolation
<1>15. QED
  BY <1>9, <1>11, <1>12, <1>13, <1>14 DEF Inv

(* Leaving execute, with its guards released and the host context
   restored, keeps the invariant. *)
LEMMA LeaveInv == ASSUME Inv, stack # << >>, Leave PROVE Inv'
<1>1. /\ EVMModulePool' = [s \in Slots |-> IF s \in Top.guards THEN None
                                           ELSE EVMModulePool[s]]
      /\ HostContext' = Top.prev
      /\ stack' = SubSeq(stack, 1, Len(stack) - 1)
      /\ owner' = IF Len(stack) = 1 THEN None ELSE owner
      /\ UNCHANGED <<alive, Config, RTConfig, cache, insts, HostCode>>
  BY Zenon DEF Leave, UnloadGuarded, RestoreContext
<1>2. /\ Top \in Frames /\ FrameOK(Top) /\ FrameSet = Outer \cup {Top}
      /\ \A f \in Outer : f \in Frames /\ FrameOK(f) /\ Apart(f, Top)
      /\ TypeOK /\ CacheOK /\ Accounted /\ StackOK
  BY TopFacts, Zenon
<1>3. stack' \in Seq(Frames) /\ StackOK' /\ FrameSet' = Outer
  <2>1. stack \in Seq(Frames)
    BY <1>2, Zenon DEF TypeOK
  <2>2. QED
    BY <1>1, <1>2, <2>1, StepPop
<1>4. AddrCache' = AddrCache
  BY <1>1, Zenon DEF cache
<1>5. \A k \in Keys : AddrCache[k] \notin Top.guards
  BY <1>2, Zenon DEF FrameOK, GuardsOK
<1>6. \A s \in Slots : s \notin Top.guards =>
                         EVMModulePool'[s] = EVMModulePool[s]
  BY <1>1, Zenon
<1>7. ASSUME NEW f \in Outer PROVE FrameOK(f)'
  <2>1. /\ f \in Frames /\ FrameOK(f) /\ f.stage = "run"
        /\ f.guards \cap Top.guards = {}
    BY <1>2, Zenon DEF Apart
  <2>2. ModuleOK(f) /\ InstanceOK(f) /\ GuardsOK(f)
    BY <2>1, Zenon DEF FrameOK
  <2>3. Key(f) \in Keys /\ f.guards \subseteq Slots
    BY <2>1 DEF Key, Keys, Frames, Messages
  <2>4. f.mod \in Slots /\ f.mod \notin Top.guards
    BY <1>5, <2>1, <2>2, <2>3, Zenon DEF ModuleOK
  <2>5. \A s \in f.guards \cup {f.mod} : EVMModulePool'[s] = EVMModulePool[s]
    BY <1>6, <2>1, <2>3, <2>4, Zenon
  <2>6. InstanceOK(f)'
    BY <1>1, <2>1, <2>2, InstanceStays, Zenon
  <2>7. \A k \in Keys : AddrCache'[k] \notin f.guards
    BY <1>4, <2>2, Zenon DEF GuardsOK
  <2>8. HostCode' = HostCode
    BY <1>1, Zenon
  <2>9. QED
    BY <1>4, <2>1, <2>5, <2>6, <2>7, <2>8, FrameStays, Zenon
<1>8. CacheOK'
  <2>1. \A k \in Keys : AddrCache[k] # None =>
                          EVMModulePool'[AddrCache[k]] = EVMModulePool[AddrCache[k]]
    BY <1>2, <1>5, <1>6, Zenon DEF TypeOK
  <2>2. HostCode' = HostCode
    BY <1>1, Zenon
  <2>3. QED
    BY <1>2, <1>4, <2>1, <2>2, Zenon DEF CacheOK
<1>9. Accounted'
  <2>1. SUFFICES ASSUME NEW s \in Slots, EVMModulePool'[s] # None
                 PROVE \/ \E k \in Keys : AddrCache[k] = s
                       \/ \E f \in Outer : s \in f.guards
    BY <1>3, <1>4, Zenon DEF Accounted
  <2>2. s \notin Top.guards /\ EVMModulePool[s] # None
    BY <1>1, <2>1, Zenon
  <2>3. QED
    BY <1>2, <2>2, Zenon DEF Accounted
<1>10. TypeOK'
  <2>1. EVMModulePool' \in [Slots -> Modules \cup {None}]
    BY <1>1, <1>2, Zenon DEF TypeOK
  <2>2. HostContext' \in Contexts \cup {None}
    BY <1>1, <1>2 DEF Frames
  <2>3. owner' \in Threads \cup {None}
    BY <1>1, <1>2, Zenon DEF TypeOK
  <2>4. QED
    BY <1>1, <1>2, <1>3, <2>1, <2>2, <2>3, Zenon DEF TypeOK, cache, insts
<1>11. FramesOK'
  BY <1>3, <1>7, Zenon DEF FramesOK
<1>12. QED
  BY <1>3, <1>8, <1>9, <1>10, <1>11 DEF Inv

(* A normal return, a failed load and a failed instance all keep the
   invariant. *)
LEMMA ReturnInv ==
  ASSUME Inv, Return \/ LoadFails \/ InstanceFails PROVE Inv'
<1>1. stack # << >> /\ Leave
  BY DEF Return, LoadFails, InstanceFails, At
<1>2. QED
  BY <1>1, LeaveInv

(* destroy keeps the invariant. *)
LEMMA destroyInv == ASSUME Inv, destroy PROVE Inv'
<1>1. /\ owner = None /\ alive' = FALSE
      /\ CachedMainInst' = None /\ CacheInsts' = << >>
      /\ EVMModulePool' = [s \in Slots |->
           IF \E k \in Keys : AddrCache[k] = s THEN None ELSE EVMModulePool[s]]
      /\ AddrCache' = [k \in Keys |-> None] /\ LRUOrder' = << >>
      /\ L0Mod' = None
      /\ UNCHANGED <<owner, Config, RTConfig, HostContext, stack, HostCode>>
  BY Zenon DEF destroy, UnloadCached
<1>2. TypeOK /\ CacheOK /\ Accounted /\ StackOK
  BY Zenon DEF Inv
<1>3. stack = << >> /\ FrameSet = {}
  BY <1>1, <1>2, Frames0, Zenon DEF StackOK, TypeOK
<1>4. FrameSet' = {}
  BY <1>1, <1>3, Zenon DEF FrameSet
<1>5. TypeOK'
  <2>1. EVMModulePool' \in [Slots -> Modules \cup {None}]
    BY <1>1, <1>2, Zenon DEF TypeOK
  <2>2. CacheInsts' \in Seq(Instances) /\ LRUOrder' \in Seq(Keys)
    BY <1>1
  <2>3. QED
    BY <1>1, <1>2, <2>1, <2>2, Zenon DEF TypeOK
<1>6. CacheOK'
  BY <1>1, Zenon DEF CacheOK
<1>7. Accounted'
  BY <1>1, <1>2, <1>3, Zenon DEF Accounted
<1>8. StackOK'
  BY <1>1, <1>2, Zenon DEF StackOK
<1>9. QED
  BY <1>4, <1>5, <1>6, <1>7, <1>8, Zenon DEF Inv, FramesOK

-----------------------------------------------------------------------------
(* The list of the cache. *)

(* A sequence with an element put in front. *)
LEMMA ConsSeq ==
  ASSUME NEW S, NEW x \in S, NEW s \in Seq(S)
  PROVE /\ <<x>> \o s \in Seq(S) /\ Len(<<x>> \o s) = Len(s) + 1
        /\ Len(s) \in Nat /\ (<<x>> \o s)[1] = x
        /\ \A i \in 1..Len(s) : (<<x>> \o s)[i + 1] = s[i]
OBVIOUS

(* A sequence without an element is a sequence. *)
LEMMA WithoutSeq ==
  ASSUME NEW S, NEW s \in Seq(S), NEW k
  PROVE Without(s, k) \in Seq(S)
<1> DEFINE i == CHOOSE i \in DOMAIN s : s[i] = k
           r == [j \in 1..(Len(s) - 1) |-> IF j < i THEN s[j] ELSE s[j + 1]]
<1>1. CASE \E j \in DOMAIN s : s[j] = k
  <2>1. Len(s) \in Nat \ {0} /\ \A j \in 1..Len(s) : s[j] \in S
    BY <1>1
  <2>2. \A j \in 1..(Len(s) - 1) : j \in 1..Len(s) /\ j + 1 \in 1..Len(s)
    BY <2>1
  <2>3. \A j \in 1..(Len(s) - 1) : (IF j < i THEN s[j] ELSE s[j + 1]) \in S
    BY <2>1, <2>2, Zenon
  <2>4. r \in [1..(Len(s) - 1) -> S]
    BY <2>3, Zenon
  <2>5. Len(s) - 1 \in Nat
    BY <2>1
  <2> HIDE DEF r
  <2>6. r \in Seq(S)
    BY <2>4, <2>5
  <2>7. Without(s, k) = r
    BY <1>1, Zenon DEF Without, r
  <2>8. QED
    BY <2>6, <2>7
<1>2. CASE ~\E j \in DOMAIN s : s[j] = k
  BY <1>2, Zenon DEF Without
<1>3. QED
  BY <1>1, <1>2

-----------------------------------------------------------------------------
(* The steps of a lookup that change the cache or the pool. *)

(* What a step at the frame on top leaves to the calls outside it, when    *)
(* the instances stay.                                                     *)
LEMMA OuterStays ==
  ASSUME Inv, stack # << >>, UNCHANGED <<insts, HostCode>>,
         NEW f \in Outer,
         \A s \in f.guards \cup {f.mod} : EVMModulePool'[s] = EVMModulePool[s],
         ~IsTransient(f) => AddrCache'[Key(f)] = AddrCache[Key(f)],
         \A k \in Keys : AddrCache'[k] \notin f.guards
  PROVE FrameOK(f)'
<1>1. f \in Frames /\ FrameOK(f) /\ f.stage = "run"
  BY TopFacts, Zenon DEF Apart
<1>2. InstanceOK(f)'
  <2>1. UNCHANGED insts
    BY Zenon
  <2>2. InstanceOK(f)
    BY <1>1, Zenon DEF FrameOK
  <2>3. QED
    BY <1>1, <2>1, <2>2, InstanceStays
<1>3. HostCode' = HostCode
  BY Zenon
<1>4. QED
  BY <1>1, <1>2, <1>3, FrameStays, Zenon

(* What is guarded, cached or run on is loaded. *)
LEMMA OuterLoaded ==
  ASSUME Inv, stack # << >>, NEW f \in Outer
  PROVE /\ f.guards \subseteq Slots /\ f.mod \in Slots
        /\ \A s \in f.guards \cup {f.mod} : EVMModulePool[s] # None
        /\ Key(f) \in Keys /\ GuardsOK(f) /\ ModuleOK(f) /\ InstanceOK(f)
        /\ f \in Frames /\ f.code # Empty /\ FrameOK(f)
<1>1. f \in Frames /\ FrameOK(f) /\ f.stage = "run" /\ f.code # Empty
  BY TopFacts, Zenon DEF Apart
<1>2. ModuleOK(f) /\ InstanceOK(f) /\ GuardsOK(f)
  BY <1>1, Zenon DEF FrameOK
<1>3. Key(f) \in Keys /\ f.guards \subseteq Slots
  BY <1>1 DEF Key, Keys, Frames, Messages
<1>4. \A s \in f.guards \cup {f.mod} : EVMModulePool[s] # None
  BY <1>2, NoneOutside, Zenon DEF ModuleOK, GuardsOK
<1>5. QED
  BY <1>1, <1>2, <1>3, <1>4, Zenon DEF ModuleOK

(* loadEVMModule fills one free slot with the code and the revision asked
   for, and no other. *)
LEMMA NewModuleFacts ==
  ASSUME TypeOK, NEW f \in Frames, NEW s \in Slots, NEW config \in Configs,
         NewModule(f, s, config)
  PROVE /\ EVMModulePool[s] = None /\ EVMModulePool'[s] \in Modules
        /\ EVMModulePool'[s].code = f.code
        /\ EVMModulePool'[s].rev = f.msg.rev
        /\ EVMModulePool'[s].config = config
        /\ EVMModulePool' \in [Slots -> Modules \cup {None}]
        /\ \A r \in Slots : r # s => EVMModulePool'[r] = EVMModulePool[r]
<1>1. PICK m : m = [code |-> f.code, rev |-> f.msg.rev, config |-> config]
  BY Zenon
<1>2. m \in Modules /\ m.code = f.code /\ m.rev = f.msg.rev
      /\ m.config = config
  BY <1>1 DEF Modules, Frames, Messages
<1>3. EVMModulePool[s] = None /\ EVMModulePool' = [EVMModulePool EXCEPT ![s] = m]
  BY <1>1, Zenon DEF NewModule
<1>4. EVMModulePool \in [Slots -> Modules \cup {None}]
  BY Zenon DEF TypeOK
<1>5. QED
  BY <1>2, <1>3, <1>4, Zenon

(* Loading a module outside the cache, guarded by the call, keeps the
   invariant. *)
LEMMA LoadTransientInv ==
  ASSUME Inv, NEW s \in Slots, LoadTransient(s) PROVE Inv'
<1>1. /\ stack # << >> /\ Top.stage = "find" /\ IsTransient(Top)
  BY DEF LoadTransient, At
<1>2. PICK config \in Configs : NewModule(Top, s, config)
  BY Zenon DEF LoadTransient
<1>3. /\ Top \in Frames /\ FrameOK(Top) /\ FrameSet = Outer \cup {Top}
      /\ \A f \in Outer : f \in Frames /\ FrameOK(f) /\ Apart(f, Top)
      /\ TypeOK /\ CacheOK /\ Accounted /\ StackOK
  BY <1>1, TopFacts, Zenon
<1>4. /\ EVMModulePool[s] = None /\ EVMModulePool'[s] \in Modules
      /\ EVMModulePool'[s].code = Top.code
      /\ EVMModulePool' \in [Slots -> Modules \cup {None}]
      /\ \A r \in Slots : r # s => EVMModulePool'[r] = EVMModulePool[r]
  BY <1>2, <1>3, NewModuleFacts
<1>5. PICK h : h = Found(Top, s, EVMModulePool')
  OBVIOUS
<1>6. /\ h \in Frames /\ h.stage = "found" /\ h.mod = s
      /\ h.loaded = EVMModulePool'[s] /\ h.msg = Top.msg /\ h.code = Top.code
      /\ h.guards = Top.guards
  BY <1>3, <1>4, <1>5, FoundFrame
<1>7. PICK g : g = [h EXCEPT !.guards = @ \cup {s}]
  BY Zenon
<1>8. /\ g \in Frames /\ g.stage = h.stage /\ g.mod = h.mod
      /\ g.loaded = h.loaded /\ g.msg = h.msg /\ g.code = h.code
      /\ g.guards = h.guards \cup {s}
  BY <1>6, <1>7, GuardedFrame
<1>9. /\ SetTop(g)
      /\ UNCHANGED <<alive, owner, Config, RTConfig, cache, insts, HostContext,
                     HostCode>>
  BY <1>5, <1>7, Zenon DEF LoadTransient
<1>10. AddrCache' = AddrCache /\ UNCHANGED <<insts, HostCode>> /\ owner' = owner
  BY <1>9, Zenon DEF cache
<1>11. GuardsOK(Top) /\ Top.guards \subseteq Slots
  BY <1>3 DEF FrameOK, Frames
<1>12. \A k \in Keys : AddrCache[k] # s
  BY <1>3, <1>4, NoneOutside, Zenon DEF CacheOK
<1>13. ASSUME NEW f \in Outer
       PROVE FrameOK(f)' /\ f.guards \cap g.guards = {}
  <2>1. /\ f.guards \subseteq Slots /\ f.mod \in Slots
        /\ \A r \in f.guards \cup {f.mod} : EVMModulePool[r] # None
        /\ GuardsOK(f)
    BY <1>1, OuterLoaded, Zenon
  <2>2. \A r \in f.guards \cup {f.mod} : EVMModulePool'[r] = EVMModulePool[r]
    BY <1>4, <2>1, Zenon
  <2>3. \A k \in Keys : AddrCache'[k] \notin f.guards
    BY <1>10, <2>1, Zenon DEF GuardsOK
  <2>4. FrameOK(f)'
    BY <1>1, <1>10, <2>2, <2>3, OuterStays, Zenon
  <2>5. f.guards \cap Top.guards = {} /\ s \notin f.guards
    BY <1>3, <1>4, <2>1, Zenon DEF Apart
  <2>6. QED
    BY <1>6, <1>8, <2>4, <2>5, Zenon
<1>14. FrameOK(g)'
  <2>1. IsTransient(g)
    BY <1>1, <1>6, <1>8, Zenon DEF IsTransient
  <2>2. ModuleOK(g)'
    BY <1>4, <1>6, <1>8, <2>1, Zenon DEF ModuleOK
  <2>3. ASSUME NEW r \in g.guards PROVE EVMModulePool'[r] # None
    <3>1. CASE r = s
      BY <1>4, <3>1, NoneOutside, Zenon
    <3>2. CASE r # s
      <4>1. r \in Slots /\ EVMModulePool[r] # None
        BY <1>6, <1>8, <1>11, <3>2, Zenon DEF GuardsOK
      <4>2. QED
        BY <1>4, <3>2, <4>1, Zenon
    <3>3. QED
      BY <3>1, <3>2
  <2>4. \A k \in Keys : AddrCache'[k] \notin g.guards
    BY <1>6, <1>8, <1>10, <1>11, <1>12, Zenon DEF GuardsOK
  <2>5. GuardsOK(g)'
    BY <2>1, <2>3, <2>4, Zenon DEF GuardsOK
  <2>6. QED
    BY <1>6, <1>8, <2>1, <2>2, <2>5 DEF FrameOK
<1>15. g.stage # "run" /\ g.msg = Top.msg
  BY <1>6, <1>8
<1>16. /\ stack' \in Seq(Frames) /\ FramesOK' /\ StackOK'
       /\ FrameSet' = Outer \cup {g}
  BY <1>1, <1>8, <1>9, <1>10, <1>13, <1>14, <1>15, FramesTop, Zenon
<1>17. TypeOK'
  BY <1>3, <1>4, <1>9, <1>16, Zenon DEF TypeOK, cache, insts
<1>18. CacheOK'
  <2>1. \A k \in Keys : AddrCache[k] # None =>
           EVMModulePool'[AddrCache[k]] = EVMModulePool[AddrCache[k]]
    BY <1>3, <1>4, <1>12, Zenon DEF TypeOK
  <2>2. HostCode' = HostCode
    BY <1>9, Zenon
  <2>3. QED
    BY <1>3, <1>10, <2>1, <2>2, Zenon DEF CacheOK
<1>19. Accounted'
  <2>1. SUFFICES ASSUME NEW r \in Slots, EVMModulePool'[r] # None
                 PROVE \/ \E k \in Keys : AddrCache[k] = r
                       \/ \E f \in Outer \cup {g} : r \in f.guards
    BY <1>10, <1>16, Zenon DEF Accounted
  <2>2. CASE r = s
    BY <1>8, <2>2, Zenon
  <2>3. CASE r # s
    BY <1>3, <1>4, <1>6, <1>8, <2>1, <2>3, Zenon DEF Accounted
  <2>4. QED
    BY <2>2, <2>3
<1>20. QED
  BY <1>16, <1>17, <1>18, <1>19 DEF Inv

(* A hit of the address cache keeps the invariant: the module it finds
   has the call's code, because code at an address does not change or
   fingerprints tell codes apart. *)
LEMMA CacheHitInv == ASSUME Inv, CacheHit PROVE Inv'
<1> DEFINE k == Key(Top)
           s == AddrCache[k]
<1>1. /\ stack # << >> /\ Top.stage = "find" /\ ~IsTransient(Top)
      /\ validateCodeMatch(Top)
  BY DEF CacheHit, At
<1>2. /\ LRUOrder' = <<k>> \o Without(LRUOrder, k) /\ L0Mod' = s
      /\ SetTop(Found(Top, s, EVMModulePool))
      /\ UNCHANGED <<alive, owner, Config, RTConfig, EVMModulePool, AddrCache,
                     insts, HostContext, HostCode>>
  BY Zenon DEF CacheHit
<1>3. /\ Top \in Frames /\ FrameOK(Top) /\ FrameSet = Outer \cup {Top}
      /\ \A f \in Outer : f \in Frames /\ FrameOK(f) /\ Apart(f, Top)
      /\ TypeOK /\ CacheOK /\ Accounted /\ StackOK
  BY <1>1, TopFacts, Zenon
<1>4. k \in Keys /\ Top.msg.addr \in Addrs /\ k[1] = Top.msg.addr
      /\ Top.code \in Codes
  BY <1>3 DEF Key, Keys, Frames, Messages
<1> HIDE DEF k
<1>5. s \in Slots /\ s # None /\ EVMModulePool[s] \in Modules
  <2>1. s # None
    BY <1>1, Zenon DEF validateCodeMatch, k
  <2>2. QED
    BY <1>3, <1>4, <2>1, Zenon DEF TypeOK, CacheOK
<1>6. EVMModulePool[s].code = Top.code
  <2>1. Finger[EVMModulePool[s].code] = Finger[Top.code]
    BY <1>1, Zenon DEF validateCodeMatch, k
  <2>2. EVMModulePool[s].code \in Codes
    BY <1>5 DEF Modules
  <2>3. CASE CodeReused
    BY <1>4, <2>1, <2>2, <2>3, EvmcVmAssumption, Zenon
  <2>4. CASE ~CodeReused
    <3>1. EVMModulePool[s].code \in {Empty, HostCode[k[1]]}
      BY <1>3, <1>4, <1>5, <2>4, Zenon DEF CacheOK
    <3>2. HostCode[k[1]] = Top.code
      <4>1. Top.stage # "run"
        BY <1>1
      <4>2. QED
        BY <1>1, <1>3, <1>4, <4>1, Zenon DEF FrameOK
    <3>3. QED
      BY <1>4, <2>1, <2>2, <3>1, <3>2, EvmcVmAssumption, Zenon
  <2>5. QED
    BY <2>3, <2>4
<1>7. PICK g : g = Found(Top, s, EVMModulePool)
  OBVIOUS
<1>8. /\ g \in Frames /\ g.stage = "found" /\ g.mod = s
      /\ g.loaded = EVMModulePool[s] /\ g.msg = Top.msg /\ g.code = Top.code
      /\ g.guards = Top.guards
  BY <1>3, <1>5, <1>7, FoundFrame
<1>9. GuardsOK(Top) /\ HostCode[Top.msg.addr] = Top.code
  <2>1. Top.stage # "run"
    BY <1>1
  <2>2. QED
    BY <1>1, <1>3, <2>1, Zenon DEF FrameOK
<1>10. FrameOK(g)'
  <2>1. ~IsTransient(g) /\ Key(g) = k
    BY <1>1, <1>8, Zenon DEF IsTransient, Key, k
  <2>2. ModuleOK(g)'
    BY <1>2, <1>5, <1>6, <1>8, <2>1, Zenon DEF ModuleOK
  <2>3. GuardsOK(g)'
    BY <1>2, <1>1, <1>8, <1>9, <2>1, Zenon DEF GuardsOK
  <2>4. HostCode'[g.msg.addr] = g.code
    BY <1>2, <1>8, <1>9, Zenon
  <2>5. QED
    BY <1>8, <2>1, <2>2, <2>3, <2>4 DEF FrameOK
<1>11. owner' = owner /\ UNCHANGED <<insts, HostCode>> /\ SetTop(g)
  BY <1>2, <1>7, Zenon
<1>12. ASSUME NEW f \in Outer
       PROVE FrameOK(f)' /\ f.guards \cap g.guards = {}
  <2>1. GuardsOK(f) /\ f.guards \cap Top.guards = {}
    BY <1>1, <1>3, OuterLoaded, Zenon DEF Apart
  <2>2. \A l \in Keys : AddrCache'[l] \notin f.guards
    BY <1>2, <2>1, Zenon DEF GuardsOK
  <2>3. FrameOK(f)'
    BY <1>1, <1>2, <1>11, <2>2, OuterStays, Zenon
  <2>4. QED
    BY <1>8, <2>1, <2>3, Zenon
<1>13. g.stage # "run" /\ g.msg = Top.msg
  BY <1>8
<1>14. /\ stack' \in Seq(Frames) /\ FramesOK' /\ StackOK'
       /\ FrameSet' = Outer \cup {g}
  BY <1>1, <1>8, <1>10, <1>11, <1>12, <1>13, FramesTop, Zenon
<1>15. LRUOrder' \in Seq(Keys)
  <2>1. LRUOrder \in Seq(Keys)
    BY <1>3, Zenon DEF TypeOK
  <2>2. Without(LRUOrder, k) \in Seq(Keys)
    BY <2>1, WithoutSeq
  <2>3. QED
    BY <1>2, <1>4, <2>2, ConsSeq
<1>16. TypeOK'
  BY <1>2, <1>3, <1>5, <1>14, <1>15, Zenon DEF TypeOK, insts
<1>17. CacheOK'
  BY <1>2, <1>3, Zenon DEF CacheOK
<1>18. Accounted'
  BY <1>2, <1>3, <1>8, <1>14, Zenon DEF Accounted
<1>19. QED
  BY <1>14, <1>16, <1>17, <1>18 DEF Inv

(* Two keys of the cache never share a module. *)
LEMMA CacheInjective ==
  ASSUME CacheOK, NEW i \in Keys, NEW j \in Keys, AddrCache[i] # None,
         AddrCache[i] = AddrCache[j]
  PROVE i = j
BY Zenon DEF CacheOK

(* A cached module is loaded and, unless addresses are reused, has the
   code of its address. *)
LEMMA CachedModule ==
  ASSUME CacheOK, NEW k \in Keys, AddrCache[k] # None
  PROVE /\ EVMModulePool[AddrCache[k]] # None
        /\ CodeReused \/ EVMModulePool[AddrCache[k]].code
                           \in {Empty, HostCode[k[1]]}
BY Zenon DEF CacheOK

(* Loading a module into the cache keeps the invariant. *)
LEMMA LoadCachedInv ==
  ASSUME Inv, NEW s \in Slots, LoadCached(s) PROVE Inv'
<1> DEFINE k == Key(Top)
<1>1. stack # << >> /\ Top.stage = "load"
  BY DEF LoadCached, At
<1>2. PICK config \in Configs : NewModule(Top, s, config)
  BY Zenon DEF LoadCached
<1>3. /\ Top \in Frames /\ FrameOK(Top) /\ FrameSet = Outer \cup {Top}
      /\ \A f \in Outer : f \in Frames /\ FrameOK(f) /\ Apart(f, Top)
      /\ TypeOK /\ CacheOK /\ Accounted /\ StackOK
  BY <1>1, TopFacts, Zenon
<1>4. /\ EVMModulePool[s] = None /\ EVMModulePool'[s] \in Modules
      /\ EVMModulePool'[s].code = Top.code
      /\ EVMModulePool' \in [Slots -> Modules \cup {None}]
      /\ \A r \in Slots : r # s => EVMModulePool'[r] = EVMModulePool[r]
  BY <1>2, <1>3, NewModuleFacts
<1>5. PICK g : g = Found(Top, s, EVMModulePool')
  OBVIOUS
<1>6. /\ g \in Frames /\ g.stage = "found" /\ g.mod = s
      /\ g.loaded = EVMModulePool'[s] /\ g.msg = Top.msg /\ g.code = Top.code
      /\ g.guards = Top.guards
  BY <1>3, <1>4, <1>5, FoundFrame
<1>7. /\ SetTop(g) /\ AddrCache' = [AddrCache EXCEPT ![k] = s]
      /\ LRUOrder' = <<k>> \o LRUOrder /\ L0Mod' = s
      /\ UNCHANGED <<alive, owner, Config, RTConfig, insts, HostContext,
                     HostCode>>
  BY <1>5, Zenon DEF LoadCached
<1>8. k \in Keys /\ Top.msg.addr \in Addrs /\ k[1] = Top.msg.addr
  BY <1>3 DEF Key, Keys, Frames, Messages
<1>9. ~IsTransient(Top) /\ AddrCache[k] = None /\ GuardsOK(Top)
      /\ HostCode[Top.msg.addr] = Top.code
  <2>1. Top.stage # "run" /\ Top.stage \in {"evict", "load"}
    BY <1>1
  <2>2. QED
    BY <1>3, <2>1, Zenon DEF FrameOK
<1>10. ~IsTransient(g) /\ Key(g) = k
  BY <1>6, <1>9, Zenon DEF IsTransient, Key
<1> HIDE DEF k
<1>11. /\ AddrCache' \in [Keys -> Slots \cup {None}] /\ AddrCache'[k] = s
       /\ \A l \in Keys : l # k => AddrCache'[l] = AddrCache[l]
  BY <1>3, <1>7, <1>8, Zenon DEF TypeOK
<1>12. \A l \in Keys : AddrCache[l] # s
  BY <1>3, <1>4, NoneOutside, Zenon DEF CacheOK
<1>13. owner' = owner /\ UNCHANGED <<insts, HostCode>>
  BY <1>7, Zenon
<1>14. ASSUME NEW f \in Outer
       PROVE FrameOK(f)' /\ f.guards \cap g.guards = {}
  <2>1. /\ f.guards \subseteq Slots /\ f.mod \in Slots
        /\ \A r \in f.guards \cup {f.mod} : EVMModulePool[r] # None
        /\ GuardsOK(f) /\ ModuleOK(f) /\ Key(f) \in Keys
    BY <1>1, OuterLoaded, Zenon
  <2>2. \A r \in f.guards \cup {f.mod} : EVMModulePool'[r] = EVMModulePool[r]
    BY <1>4, <2>1, Zenon
  <2>3. s \notin f.guards
    BY <1>4, <2>1, Zenon
  <2>4. \A l \in Keys : AddrCache'[l] \notin f.guards
    BY <1>11, <2>1, <2>3, Zenon DEF GuardsOK
  <2>5. ~IsTransient(f) => AddrCache'[Key(f)] = AddrCache[Key(f)]
    BY <1>9, <1>11, <2>1, NoneOutside, Zenon DEF ModuleOK
  <2>6. FrameOK(f)'
    BY <1>1, <1>13, <2>2, <2>4, <2>5, OuterStays, Zenon
  <2>7. f.guards \cap g.guards = {}
    BY <1>3, <1>6, Zenon DEF Apart
  <2>8. QED
    BY <2>6, <2>7
<1>15. FrameOK(g)'
  <2>1. ModuleOK(g)'
    BY <1>4, <1>6, <1>10, <1>11, Zenon DEF ModuleOK
  <2>2. g.guards = {}
    BY <1>6, <1>9, Zenon DEF GuardsOK
  <2>3. GuardsOK(g)'
    BY <2>2, Zenon DEF GuardsOK
  <2>4. HostCode'[g.msg.addr] = g.code
    BY <1>6, <1>7, <1>9, Zenon
  <2>5. QED
    BY <1>6, <1>10, <2>1, <2>3, <2>4 DEF FrameOK
<1>16. g.stage # "run" /\ g.msg = Top.msg
  BY <1>6
<1>17. /\ stack' \in Seq(Frames) /\ FramesOK' /\ StackOK'
       /\ FrameSet' = Outer \cup {g}
  BY <1>1, <1>6, <1>7, <1>13, <1>14, <1>15, <1>16, FramesTop, Zenon
<1>18. TypeOK'
  <2>1. LRUOrder' \in Seq(Keys)
    BY <1>3, <1>7, <1>8, ConsSeq DEF TypeOK
  <2>2. QED
    BY <1>3, <1>4, <1>7, <1>11, <1>17, <2>1, Zenon DEF TypeOK, insts
<1>19. CacheOK'
  <2>1. \A l \in Keys : l # k /\ AddrCache[l] # None =>
           EVMModulePool'[AddrCache[l]] = EVMModulePool[AddrCache[l]]
    BY <1>3, <1>4, <1>12, Zenon DEF TypeOK
  <2>2. HostCode' = HostCode
    BY <1>7, Zenon
  <2>3. ASSUME NEW i \in Keys, NEW j \in Keys, AddrCache'[i] # None,
               AddrCache'[i] = AddrCache'[j]
        PROVE i = j
    <3>1. i = k <=> j = k
      BY <1>11, <1>12, <2>3, Zenon
    <3>2. CASE i # k
      <4>1. AddrCache[i] # None /\ AddrCache[i] = AddrCache[j]
        BY <1>11, <2>3, <3>1, <3>2, Zenon
      <4>2. QED
        BY <1>3, <4>1, CacheInjective
    <3>3. QED
      BY <3>1, <3>2
  <2>4. ASSUME NEW l \in Keys, AddrCache'[l] # None
        PROVE /\ EVMModulePool'[AddrCache'[l]] # None
              /\ CodeReused \/ EVMModulePool'[AddrCache'[l]].code
                                 \in {Empty, HostCode'[l[1]]}
    <3>1. CASE l = k
      BY <1>4, <1>8, <1>9, <1>11, <2>2, <3>1, NoneOutside, Zenon
    <3>2. CASE l # k
      <4>1. AddrCache'[l] = AddrCache[l] /\ AddrCache[l] # None
        BY <1>11, <2>4, <3>2, Zenon
      <4>2. /\ EVMModulePool[AddrCache[l]] # None
            /\ CodeReused \/ EVMModulePool[AddrCache[l]].code
                               \in {Empty, HostCode[l[1]]}
        BY <1>3, <4>1, CachedModule, Zenon
      <4>3. EVMModulePool'[AddrCache[l]] = EVMModulePool[AddrCache[l]]
        BY <2>1, <3>2, <4>1, Zenon
      <4>4. QED
        BY <2>2, <4>1, <4>2, <4>3, Zenon
    <3>3. QED
      BY <3>1, <3>2
  <2>5. QED
    BY <2>3, <2>4, Zenon DEF CacheOK
<1>20. Accounted'
  <2>1. SUFFICES ASSUME NEW r \in Slots, EVMModulePool'[r] # None
                 PROVE \/ \E l \in Keys : AddrCache'[l] = r
                       \/ \E f \in Outer \cup {g} : r \in f.guards
    BY <1>17, Zenon DEF Accounted
  <2>2. CASE r = s
    BY <1>8, <1>11, <2>2, Zenon
  <2>3. CASE r # s
    <3>1. CASE \E f \in FrameSet : r \in f.guards
      BY <1>3, <1>6, <3>1, Zenon
    <3>2. CASE \E l \in Keys : AddrCache[l] = r
      BY <1>9, <1>11, <3>2, NoneOutside, Zenon
    <3>3. QED
      BY <1>3, <1>4, <2>1, <2>3, <3>1, <3>2, Zenon DEF Accounted
  <2>4. QED
    BY <2>2, <2>3
<1>21. QED
  BY <1>17, <1>18, <1>19, <1>20 DEF Inv

(* An entry goes, and its module. *)
LEMMA EvictFacts ==
  ASSUME TypeOK, CacheOK, NEW k \in Keys,
         EVMModulePool' = [EVMModulePool EXCEPT ![AddrCache[k]] = None],
         AddrCache' = [AddrCache EXCEPT ![k] = None], HostCode' = HostCode
  PROVE /\ CacheOK'
        /\ AddrCache' \in [Keys -> Slots \cup {None}] /\ AddrCache'[k] = None
        /\ \A l \in Keys : l # k => AddrCache'[l] = AddrCache[l]
        /\ EVMModulePool' \in [Slots -> Modules \cup {None}]
        /\ \A r \in Slots : r # AddrCache[k] =>
                              EVMModulePool'[r] = EVMModulePool[r]
        /\ \A r \in Slots : EVMModulePool'[r] # None =>
             /\ EVMModulePool[r] # None
             /\ (\E l \in Keys : AddrCache[l] = r) =>
                  \E l \in Keys : AddrCache'[l] = r
<1>1. /\ AddrCache \in [Keys -> Slots \cup {None}]
      /\ EVMModulePool \in [Slots -> Modules \cup {None}]
  BY Zenon DEF TypeOK
<1>2. /\ AddrCache' \in [Keys -> Slots \cup {None}] /\ AddrCache'[k] = None
      /\ \A l \in Keys : l # k => AddrCache'[l] = AddrCache[l]
  BY <1>1, Zenon
<1>3. /\ EVMModulePool' \in [Slots -> Modules \cup {None}]
      /\ \A r \in Slots : r # AddrCache[k] =>
                            EVMModulePool'[r] = EVMModulePool[r]
      /\ AddrCache[k] \in Slots => EVMModulePool'[AddrCache[k]] = None
  BY <1>1, Zenon
<1>4. ASSUME NEW r \in Slots, EVMModulePool'[r] # None
      PROVE /\ EVMModulePool[r] # None
            /\ (\E l \in Keys : AddrCache[l] = r) =>
                  \E l \in Keys : AddrCache'[l] = r
  <2>1. r # AddrCache[k]
    BY <1>3, <1>4, Zenon
  <2>2. QED
    BY <1>2, <1>3, <1>4, <2>1, Zenon
<1>5. ASSUME NEW l \in Keys, AddrCache'[l] # None
      PROVE /\ l # k /\ AddrCache'[l] = AddrCache[l]
            /\ EVMModulePool'[AddrCache[l]] = EVMModulePool[AddrCache[l]]
  <2>1. l # k /\ AddrCache'[l] = AddrCache[l]
    BY <1>2, <1>5, Zenon
  <2>2. AddrCache[l] # AddrCache[k] /\ AddrCache[l] \in Slots
    BY <1>1, <1>5, <2>1, Zenon DEF CacheOK
  <2>3. QED
    BY <1>3, <2>1, <2>2, Zenon
<1>6. CacheOK'
  <2>1. ASSUME NEW i \in Keys, NEW j \in Keys, AddrCache'[i] # None,
               AddrCache'[i] = AddrCache'[j]
        PROVE i = j
    <3>1. AddrCache'[i] = AddrCache[i] /\ AddrCache'[j] = AddrCache[j]
      BY <1>5, <2>1, Zenon
    <3>2. AddrCache[i] # None /\ AddrCache[i] = AddrCache[j]
      BY <2>1, <3>1
    <3>3. QED
      BY <3>2, CacheInjective
  <2>2. ASSUME NEW l \in Keys, AddrCache'[l] # None
        PROVE /\ EVMModulePool'[AddrCache'[l]] # None
              /\ CodeReused \/ EVMModulePool'[AddrCache'[l]].code
                                 \in {Empty, HostCode'[l[1]]}
    <3>1. AddrCache'[l] = AddrCache[l] /\ AddrCache[l] # None
          /\ EVMModulePool'[AddrCache[l]] = EVMModulePool[AddrCache[l]]
      BY <1>5, <2>2, Zenon
    <3>2. /\ EVMModulePool[AddrCache[l]] # None
          /\ CodeReused \/ EVMModulePool[AddrCache[l]].code
                             \in {Empty, HostCode[l[1]]}
      BY <3>1, CachedModule, Zenon
    <3>3. QED
      BY <3>1, <3>2, Zenon
  <2>3. QED
    BY <2>1, <2>2, Zenon DEF CacheOK
<1>7. QED
  BY <1>2, <1>3, <1>4, <1>6, Zenon

(* A miss, which unloads a stale entry, keeps the invariant: no call
   under way runs that module. *)
LEMMA CacheMissInv == ASSUME Inv, CacheMiss PROVE Inv'
<1> DEFINE k == Key(Top)
<1>1. /\ stack # << >> /\ Top.stage = "find" /\ ~IsTransient(Top)
      /\ ~validateCodeMatch(Top)
  BY DEF CacheMiss, At
<1>2. /\ \/ AddrCache[k] = None /\ UNCHANGED <<EVMModulePool, cache>>
         \/ /\ AddrCache[k] # None /\ EvictStale(k)
            /\ L0Mod' = IF L0Mod = AddrCache[k] /\ Top.msg.depth = 0
                          THEN None ELSE L0Mod
      /\ SetTop([Top EXCEPT !.stage = "evict"])
      /\ UNCHANGED <<alive, owner, Config, RTConfig, insts, HostContext,
                     HostCode>>
  BY Zenon DEF CacheMiss
<1>3. /\ Top \in Frames /\ FrameOK(Top) /\ FrameSet = Outer \cup {Top}
      /\ \A f \in Outer : f \in Frames /\ FrameOK(f) /\ Apart(f, Top)
      /\ TypeOK /\ CacheOK /\ Accounted /\ StackOK
  BY <1>1, TopFacts, Zenon
<1>4. PICK g : g = [Top EXCEPT !.stage = "evict"]
  BY Zenon
<1>5. "evict" \in Stages
  BY DEF Stages
<1>6. /\ g \in Frames /\ g.stage = "evict"
      /\ g.msg = Top.msg /\ g.code = Top.code /\ g.guards = Top.guards
      /\ g.mod = Top.mod /\ g.loaded = Top.loaded
  BY <1>3, <1>4, <1>5, StagedFrame
<1>7. k \in Keys
  BY <1>3 DEF Key, Keys, Frames, Messages
<1>8. ~IsTransient(g) /\ Key(g) = k /\ Key(Top) = k
  BY <1>1, <1>6, Zenon DEF IsTransient, Key
<1>9. g.stage # "run" /\ Top.stage # "run"
  BY <1>1, <1>6
<1>10. GuardsOK(Top) /\ HostCode[Top.msg.addr] = Top.code
  BY <1>1, <1>3, <1>9, Zenon DEF FrameOK
<1>11. g.guards = {}
  BY <1>1, <1>6, <1>10, Zenon DEF GuardsOK
<1> HIDE DEF k
<1>12. CASE AddrCache[k] = None /\ UNCHANGED <<EVMModulePool, cache>>
  <2>1. UNCHANGED <<alive, owner, Config, RTConfig, EVMModulePool, cache,
                    insts, HostContext, HostCode>>
    BY <1>2, <1>12, Zenon
  <2>2. FrameOK(g)
    <3>1. GuardsOK(g)
      BY <1>11, Zenon DEF GuardsOK
    <3>2. QED
      BY <1>6, <1>8, <1>10, <1>12, <3>1 DEF FrameOK
  <2>3. FrameOK(g)'
    BY <1>6, <2>1, <2>2, QuietFrame, Zenon
  <2>4. SetTop(g)
    BY <1>2, <1>4, Zenon
  <2>5. QED
    BY <1>1, <1>6, <1>9, <2>1, <2>3, <2>4, QuietTop, Zenon
<1>13. CASE /\ AddrCache[k] # None /\ EvictStale(k)
            /\ L0Mod' = IF L0Mod = AddrCache[k] /\ Top.msg.depth = 0
                          THEN None ELSE L0Mod
  <2>0. HostCode' = HostCode /\ owner' = owner /\ UNCHANGED <<insts, HostCode>>
        /\ SetTop(g)
    BY <1>2, <1>4, Zenon
  <2>1. /\ EVMModulePool' = [EVMModulePool EXCEPT ![AddrCache[k]] = None]
        /\ AddrCache' = [AddrCache EXCEPT ![k] = None]
        /\ LRUOrder' = Without(LRUOrder, k)
    BY <1>13, Zenon DEF EvictStale
  <2>2. /\ CacheOK'
        /\ AddrCache' \in [Keys -> Slots \cup {None}] /\ AddrCache'[k] = None
        /\ \A l \in Keys : l # k => AddrCache'[l] = AddrCache[l]
        /\ EVMModulePool' \in [Slots -> Modules \cup {None}]
        /\ \A r \in Slots : r # AddrCache[k] =>
                              EVMModulePool'[r] = EVMModulePool[r]
        /\ \A r \in Slots : EVMModulePool'[r] # None =>
             /\ EVMModulePool[r] # None
             /\ (\E l \in Keys : AddrCache[l] = r) =>
                  \E l \in Keys : AddrCache'[l] = r
    BY Zenon, <1>3, <1>7, <2>0, <2>1, EvictFacts
  <2>3. ASSUME NEW f \in Outer
        PROVE FrameOK(f)' /\ f.guards \cap g.guards = {}
    <3>1. /\ f.guards \subseteq Slots /\ f.mod \in Slots
          /\ Key(f) \in Keys /\ GuardsOK(f) /\ ModuleOK(f)
          /\ f \in Frames /\ f.code # Empty /\ FrameOK(f)
      BY <1>1, OuterLoaded, Zenon
    <3>2. ~IsTransient(f) => Key(f) # k
      <4>1. SUFFICES ASSUME ~IsTransient(f), Key(f) = k PROVE FALSE
        OBVIOUS
      <4>2. f.msg.addr = Top.msg.addr
        BY <1>8, <4>1 DEF Key
      <4>3. f.code = Top.code
        BY <1>10, <3>1, <4>1, <4>2, Zenon DEF FrameOK
      <4>4. EVMModulePool[AddrCache[k]].code = f.code
        BY <3>1, <4>1, Zenon DEF ModuleOK
      <4>5. QED
        BY <1>1, <1>8, <1>13, <4>3, <4>4, Zenon DEF validateCodeMatch
    <3>3. f.mod # AddrCache[k]
      <4>1. CASE IsTransient(f)
        BY <1>7, <3>1, <4>1, Zenon DEF ModuleOK, GuardsOK
      <4>2. CASE ~IsTransient(f)
        BY <1>3, <1>7, <1>13, <3>1, <3>2, <4>2, Zenon DEF ModuleOK, CacheOK
      <4>3. QED
        BY <4>1, <4>2
    <3>4. \A s \in f.guards \cup {f.mod} : EVMModulePool'[s] = EVMModulePool[s]
      BY <1>7, <2>2, <3>1, <3>3, Zenon DEF GuardsOK
    <3>5. ~IsTransient(f) => AddrCache'[Key(f)] = AddrCache[Key(f)]
      BY <2>2, <3>1, <3>2, Zenon
    <3>6. \A l \in Keys : AddrCache'[l] \notin f.guards
      BY <2>2, <3>1, NoneOutside, Zenon DEF GuardsOK
    <3>7. FrameOK(f)'
      BY <1>1, <2>0, <3>4, <3>5, <3>6, OuterStays, Zenon
    <3>8. QED
      BY <1>11, <3>7, Zenon
  <2>4. FrameOK(g)'
    <3>1. GuardsOK(g)'
      BY <1>11, Zenon DEF GuardsOK
    <3>2. HostCode'[g.msg.addr] = g.code
      BY <1>6, <1>10, <2>0, Zenon
    <3>3. AddrCache'[Key(g)] = None
      BY <1>8, <2>2, Zenon
    <3>4. QED
      BY <1>6, <1>8, <3>1, <3>2, <3>3 DEF FrameOK
  <2>5. /\ stack' \in Seq(Frames) /\ FramesOK' /\ StackOK'
        /\ FrameSet' = Outer \cup {g}
    BY <1>1, <1>6, <1>9, <2>0, <2>3, <2>4, FramesTop, Zenon
  <2>6. TypeOK'
    <3>1. LRUOrder' \in Seq(Keys)
      BY <1>3, <2>1, WithoutSeq DEF TypeOK
    <3>2. L0Mod' \in Slots \cup {None}
      BY <1>3, <1>13, Zenon DEF TypeOK
    <3>3. QED
      BY <1>2, <1>3, <2>2, <2>5, <3>1, <3>2, Zenon DEF TypeOK, insts
  <2>7. Accounted'
    <3>1. ASSUME NEW r \in Slots, EVMModulePool'[r] # None
          PROVE \/ \E l \in Keys : AddrCache'[l] = r
                \/ \E f \in Outer \cup {g} : r \in f.guards
      <4>1. EVMModulePool[r] # None /\ ((\E l \in Keys : AddrCache[l] = r) =>
                                          \E l \in Keys : AddrCache'[l] = r)
        BY <2>2, <3>1, Zenon
      <4>2. (\E l \in Keys : AddrCache[l] = r)
            \/ \E f \in Outer \cup {Top} : r \in f.guards
        BY <1>3, <4>1, Zenon DEF Accounted
      <4>3. QED
        BY <1>6, <4>1, <4>2, Zenon
    <3>2. QED
      BY <2>5, <3>1, Zenon DEF Accounted
  <2>8. QED
    BY <2>2, <2>5, <2>6, <2>7 DEF Inv
<1>14. QED
  BY <1>2, <1>12, <1>13 DEF k

(* Evicting the least recently used module keeps the invariant: no call
   under way runs it. *)
LEMMA EvictLRUInv == ASSUME Inv, EvictLRU PROVE Inv'
<1> DEFINE k == LRUOrder[Len(LRUOrder)]
<1>1. /\ stack # << >> /\ Top.stage = "evict" /\ LRUOrder # << >>
      /\ ~isModuleInUse(AddrCache[k])
  BY DEF EvictLRU, At, AtCapacity, Victim
<1>2. /\ EVMModulePool' = [EVMModulePool EXCEPT ![AddrCache[k]] = None]
      /\ L0Mod' = IF L0Mod = AddrCache[k] THEN None ELSE L0Mod
      /\ AddrCache' = [AddrCache EXCEPT ![k] = None]
      /\ LRUOrder' = SubSeq(LRUOrder, 1, Len(LRUOrder) - 1)
      /\ UNCHANGED <<alive, owner, Config, RTConfig, insts, HostContext, stack,
                     HostCode>>
  BY Zenon DEF EvictLRU, Victim
<1>3. /\ Top \in Frames /\ FrameOK(Top) /\ FrameSet = Outer \cup {Top}
      /\ \A f \in Outer : f \in Frames /\ FrameOK(f) /\ Apart(f, Top)
      /\ TypeOK /\ CacheOK /\ Accounted /\ StackOK
  BY <1>1, TopFacts, Zenon
<1>4. k \in Keys /\ LRUOrder' \in Seq(Keys)
  BY <1>1, <1>2, <1>3, FrontSeq DEF TypeOK
<1> HIDE DEF k
<1>5. HostCode' = HostCode /\ UNCHANGED <<insts, HostCode>>
  BY <1>2, Zenon
<1>6. /\ CacheOK'
      /\ AddrCache' \in [Keys -> Slots \cup {None}] /\ AddrCache'[k] = None
      /\ \A l \in Keys : l # k => AddrCache'[l] = AddrCache[l]
      /\ EVMModulePool' \in [Slots -> Modules \cup {None}]
      /\ \A r \in Slots : r # AddrCache[k] =>
                            EVMModulePool'[r] = EVMModulePool[r]
      /\ \A r \in Slots : EVMModulePool'[r] # None =>
           /\ EVMModulePool[r] # None
           /\ (\E l \in Keys : AddrCache[l] = r) =>
                \E l \in Keys : AddrCache'[l] = r
  BY Zenon, <1>2, <1>3, <1>4, <1>5, EvictFacts
<1>7. FrameSet' = FrameSet
  BY <1>2, Zenon DEF FrameSet
<1>8. ASSUME NEW f \in Outer PROVE FrameOK(f)'
  <2>1. /\ f.guards \subseteq Slots /\ f.mod \in Slots
        /\ Key(f) \in Keys /\ GuardsOK(f) /\ ModuleOK(f) /\ InstanceOK(f)
    BY <1>1, OuterLoaded, Zenon
  <2>2. f.mod # AddrCache[k]
    <3>1. CASE f.msg.depth = 0
      BY <1>1, <2>1, <3>1, Zenon DEF InstanceOK, InstanceOf, isModuleInUse
    <3>2. CASE f.msg.depth # 0
      <4>1. f.inst \in 1..Len(CacheInsts) /\ CacheInsts[f.inst].mod = f.mod
        <5>1. f.inst \in 1..Len(CacheInsts) /\ InstanceOf(f).mod = f.mod
          BY <2>1, <3>2, Zenon DEF InstanceOK
        <5>2. f.inst # 0
          BY <5>1
        <5>3. QED
          BY <5>1, <5>2, Zenon DEF InstanceOf
      <4>2. f.inst \in DOMAIN CacheInsts
        BY <1>3, <4>1 DEF TypeOK
      <4>3. QED
        BY <1>1, <4>1, <4>2, Zenon DEF isModuleInUse
    <3>3. QED
      BY <3>1, <3>2
  <2>3. \A s \in f.guards \cup {f.mod} : EVMModulePool'[s] = EVMModulePool[s]
    BY <1>4, <1>6, <2>1, <2>2, Zenon DEF GuardsOK
  <2>4. ~IsTransient(f) => AddrCache'[Key(f)] = AddrCache[Key(f)]
    BY <1>6, <2>1, <2>2, Zenon DEF ModuleOK
  <2>5. \A l \in Keys : AddrCache'[l] \notin f.guards
    BY <1>6, <2>1, NoneOutside, Zenon DEF GuardsOK
  <2>6. QED
    BY <1>1, <1>5, <2>3, <2>4, <2>5, OuterStays, Zenon
<1>9. PICK g : g = Top
  OBVIOUS
<1>10. FrameOK(g)'
  <2>1. g.stage = "evict" /\ g.stage # "run" /\ g.stage \in {"evict", "load"}
        /\ FrameOK(g) /\ g \in Frames
    BY <1>1, <1>3, <1>9
  <2>2. /\ GuardsOK(g) /\ ~IsTransient(g) /\ AddrCache[Key(g)] = None
        /\ HostCode[g.msg.addr] = g.code
    BY <2>1, Zenon DEF FrameOK
  <2>3. Key(g) \in Keys
    BY <2>1 DEF Key, Keys, Frames, Messages
  <2>4. AddrCache'[Key(g)] = None
    BY <1>6, <2>2, <2>3, Zenon
  <2>5. GuardsOK(g)'
    BY <2>2, Zenon DEF GuardsOK
  <2>6. HostCode'[g.msg.addr] = g.code
    BY <1>5, <2>2, Zenon
  <2>7. QED
    BY <2>1, <2>2, <2>4, <2>5, <2>6 DEF FrameOK
<1>11. FramesOK'
  BY <1>3, <1>7, <1>8, <1>9, <1>10, Zenon DEF FramesOK
<1>12. StackOK'
  BY <1>2, <1>3, Zenon DEF StackOK
<1>13. Accounted'
  BY <1>3, <1>6, <1>7, Zenon DEF Accounted
<1>14. TypeOK'
  <2>1. L0Mod' \in Slots \cup {None}
    BY <1>2, <1>3, Zenon DEF TypeOK
  <2>2. QED
    BY <1>2, <1>3, <1>4, <1>6, <2>1, Zenon DEF TypeOK, insts
<1>15. QED
  BY <1>6, <1>11, <1>12, <1>13, <1>14 DEF Inv

-----------------------------------------------------------------------------
(* The instances. *)

(* resetForNewCall puts the call's module, depth and revision into the
   instance. *)
LEMMA ResetInstance ==
  ASSUME NEW f \in Frames, f.mod \in Slots
  PROVE /\ Reset(f) \in Instances /\ Reset(f).mod = f.mod
        /\ Reset(f).msg = f.msg.depth /\ Reset(f).rev = f.msg.rev
BY DEF Reset, Instances, Frames, Messages

(* A sequence with an element appended. *)
LEMMA AppendSeq ==
  ASSUME NEW S, NEW s \in Seq(S), NEW x \in S
  PROVE /\ Append(s, x) \in Seq(S) /\ Len(Append(s, x)) = Len(s) + 1
        /\ Len(s) \in Nat /\ Append(s, x)[Len(s) + 1] = x
        /\ \A i \in 1..Len(s) : Append(s, x)[i] = s[i]
OBVIOUS

(* A sequence with one element replaced. *)
LEMMA ExceptSeq ==
  ASSUME NEW S, NEW s \in Seq(S), NEW x \in S, NEW n \in 1..Len(s)
  PROVE /\ [s EXCEPT ![n] = x] \in Seq(S)
        /\ Len([s EXCEPT ![n] = x]) = Len(s)
        /\ [s EXCEPT ![n] = x][n] = x
        /\ \A i \in 1..Len(s) : i # n => [s EXCEPT ![n] = x][i] = s[i]
OBVIOUS

(* A call gets an instance: a step of GetInstance, once the instance is    *)
(* known to be its own and the others' are known to stay.                  *)
LEMMA RunInv ==
  ASSUME Inv, At("found"), NEW inst \in Nat, Run(inst),
         UNCHANGED <<alive, owner, Config, RTConfig, EVMModulePool, cache,
                     HostContext, HostCode>>,
         CachedMainInst' \in Instances \cup {None},
         CacheInsts' \in Seq(Instances),
         \A f \in Outer : InstanceOK(f)' /\ f.inst # inst,
         IF Top.msg.depth = 0 THEN inst = 0 /\ CachedMainInst' # None
         ELSE inst \in 1..Len(CacheInsts') /\ inst <= Top.msg.depth,
         NEW i, i = IF inst = 0 THEN CachedMainInst' ELSE CacheInsts'[inst],
         i.mod = Top.mod, i.msg = Top.msg.depth
  PROVE Inv'
<1>1. stack # << >> /\ Top.stage = "found"
  BY DEF At
<1>2. /\ Top \in Frames /\ FrameOK(Top) /\ FrameSet = Outer \cup {Top}
      /\ \A f \in Outer : f \in Frames /\ FrameOK(f) /\ Apart(f, Top)
      /\ TypeOK /\ CacheOK /\ Accounted /\ StackOK
  BY <1>1, TopFacts, Zenon
<1>3. PICK g : g = [Top EXCEPT !.stage = "run", !.inst = inst]
  OBVIOUS
<1>4. /\ g \in Frames /\ g.stage = "run" /\ g.inst = inst
      /\ g.mod = Top.mod /\ g.loaded = Top.loaded /\ g.msg = Top.msg
      /\ g.code = Top.code /\ g.guards = Top.guards
  <2>1. Top \in Frames
    BY <1>2
  <2>2. PICK f \in Frames : f = Top
    BY <2>1, Zenon
  <2>3. g = [f EXCEPT !.stage = "run", !.inst = inst]
    BY <1>3, <2>2, Zenon
  <2>4. QED
    BY ONLY <2>2, <2>3, inst \in Nat, Zenon DEF Frames, Stages
<1>5. SetTop(g) /\ owner' = owner
      /\ UNCHANGED <<EVMModulePool, AddrCache, HostCode>>
  BY <1>3, Zenon DEF Run, cache
<1>6. /\ ModuleOK(Top) /\ GuardsOK(Top)
      /\ ~IsTransient(Top) => HostCode[Top.msg.addr] = Top.code
  <2>1. Top.stage # "run" /\ Top.stage \in {"found", "run"}
    BY SMTT(30), <1>1
  <2>2. QED
    BY <1>2, <2>1, Zenon DEF FrameOK
<1>7. FrameOK(g)'
  <2>1. InstanceOK(g)'
    BY <1>4, Zenon DEF InstanceOK, InstanceOf
  <2>2. ModuleOK(g)'
    BY <1>4, <1>5, <1>6, Zenon DEF ModuleOK, IsTransient, Key
  <2>3. GuardsOK(g)'
    BY <1>4, <1>5, <1>6, Zenon DEF GuardsOK, IsTransient
  <2>4. ~IsTransient(g) => HostCode'[g.msg.addr] = g.code
    BY <1>4, <1>5, <1>6, Zenon DEF IsTransient
  <2>5. QED
    BY <1>4, <2>1, <2>2, <2>3, <2>4 DEF FrameOK
<1>8. ASSUME NEW f \in Outer
      PROVE /\ FrameOK(f)' /\ f.guards \cap g.guards = {} /\ f.inst # g.inst
  <2>1. /\ f \in Frames /\ FrameOK(f) /\ f.stage = "run"
        /\ f.guards \cap Top.guards = {}
    BY <1>2, Zenon DEF Apart
  <2>2. \A k \in Keys : AddrCache'[k] \notin f.guards
    BY <1>5, <2>1, Zenon DEF FrameOK, GuardsOK
  <2>3. InstanceOK(f)'
    BY Zenon
  <2>4. FrameOK(f)'
    BY <1>5, <2>1, <2>2, <2>3, FrameStays, Zenon
  <2>5. QED
    BY <1>4, <2>1, <2>4, Zenon
<1>9. /\ stack' \in Seq(Frames) /\ FramesOK' /\ StackOK'
      /\ FrameSet' = Outer \cup {g}
  BY <1>1, <1>4, <1>5, <1>7, <1>8, FramesTop, Zenon
<1>10. TypeOK'
  BY <1>2, <1>9, Zenon DEF TypeOK, cache
<1>11. CacheOK'
  BY <1>2, <1>5, Zenon DEF CacheOK
<1>12. Accounted'
  BY <1>2, <1>4, <1>5, <1>9, Zenon DEF Accounted
<1>13. QED
  BY <1>9, <1>10, <1>11, <1>12 DEF Inv

(* The calls outside a call of depth 0 there are not, and those outside a  *)
(* deeper one have instances below its depth.                              *)
LEMMA OuterInstances ==
  ASSUME Inv, stack # << >>, NEW f \in Outer
  PROVE /\ f.msg.depth \in Nat /\ Top.msg.depth \in Nat
        /\ f.msg.depth < Top.msg.depth /\ InstanceOK(f)
        /\ f.inst = 0 \/ f.inst \in 1..Len(CacheInsts)
        /\ f.inst \in Nat /\ f.inst < Top.msg.depth
        /\ InstanceOf(f).mod = f.mod /\ InstanceOf(f).msg = f.msg.depth
<1>1. /\ Top \in Frames /\ f \in Frames /\ Apart(f, Top) /\ FrameOK(f)
      /\ TypeOK
  BY TopFacts, Zenon
<1>2. f.msg.depth \in Nat /\ Top.msg.depth \in Nat
  BY Zenon, <1>1, DepthsNat DEF Frames, Messages
<1>3. f.msg.depth < Top.msg.depth /\ InstanceOK(f)
  BY <1>1, Zenon DEF Apart, FrameOK
<1>4. Len(CacheInsts) \in Nat
  BY <1>1 DEF TypeOK
<1>5. /\ IF f.msg.depth = 0 THEN f.inst = 0
         ELSE f.inst \in 1..Len(CacheInsts) /\ f.inst <= f.msg.depth
      /\ InstanceOf(f).mod = f.mod /\ InstanceOf(f).msg = f.msg.depth
  BY <1>3, Zenon DEF InstanceOK
<1>6. QED
  BY <1>2, <1>3, <1>4, <1>5

(* Taking a pooled or new instance for a nested call keeps the invariant:
   an outer call's instance is never taken. *)
LEMMA NestedInstanceInv ==
  ASSUME Inv, At("found"), Top.msg.depth > 0, NestedInstance(Top),
         UNCHANGED CachedMainInst,
         UNCHANGED <<alive, owner, Config, RTConfig, EVMModulePool, cache,
                     HostContext, HostCode>>
  PROVE Inv'
<1>1. stack # << >> /\ Top.stage = "found" /\ Top.stage \in {"found", "run"}
  BY DEF At
<1>2. Top \in Frames /\ FrameOK(Top) /\ TypeOK
  BY <1>1, TopFacts, Zenon
<1>3. Top.mod \in Slots /\ Top.msg.depth \in Nat
  <2>1. Top.mod \in Slots
    BY <1>1, <1>2, Zenon DEF FrameOK, ModuleOK
  <2>2. Top.msg.depth \in Nat
    <3>1. Top.msg.depth \in Depths
      BY <1>2, Zenon DEF Frames, Messages
    <3>2. QED
      BY <3>1, DepthsNat, Zenon
  <2>3. QED
    BY <2>1, <2>2, Zenon
<1>4. PICK r : r = Reset(Top)
  OBVIOUS
<1>5. r \in Instances /\ r.mod = Top.mod /\ r.msg = Top.msg.depth
  BY <1>2, <1>3, <1>4, ResetInstance
<1>6. /\ CacheInsts \in Seq(Instances)
      /\ CachedMainInst' \in Instances \cup {None}
  BY <1>2, Zenon DEF TypeOK
<1>7. Len(CacheInsts) \in Nat
  BY <1>6
<1>8. \A f \in Outer : /\ f.inst = 0 \/ f.inst \in 1..Len(CacheInsts)
                       /\ f.inst \in Nat /\ f.inst < Top.msg.depth
                       /\ InstanceOK(f)
  BY <1>1, OuterInstances, Zenon
<1>9. Top.msg.depth # 0
  BY <1>3
<1>10. CASE /\ Len(CacheInsts) < Top.msg.depth
            /\ CacheInsts' = Append(CacheInsts, r)
            /\ Run(Len(CacheInsts) + 1)
  <2>1. PICK n : n = Len(CacheInsts) + 1
    OBVIOUS
  <2>2. /\ CacheInsts' \in Seq(Instances) /\ Len(CacheInsts') = n
        /\ CacheInsts'[n] = r
        /\ \A i \in 1..Len(CacheInsts) : CacheInsts'[i] = CacheInsts[i]
    BY <1>5, <1>6, <1>10, <2>1, AppendSeq
  <2>3. /\ n \in Nat /\ n # 0 /\ n \in 1..Len(CacheInsts')
        /\ n <= Top.msg.depth
        /\ \A i \in 1..Len(CacheInsts) : i \in 1..Len(CacheInsts')
    BY <1>3, <1>7, <1>10, <2>1, <2>2
  <2>4. ASSUME NEW f \in Outer PROVE InstanceOK(f)' /\ f.inst # n
    <3>1. f.inst # n
      BY <1>7, <1>8, <2>1
    <3>2. f.inst \in 1..Len(CacheInsts) => f.inst # 0
      OBVIOUS
    <3>3. InstanceOK(f)'
      BY <1>8, <2>2, <2>3, <3>2, Zenon DEF InstanceOK, InstanceOf
    <3>4. QED
      BY <3>1, <3>3
  <2>5. r = IF n = 0 THEN CachedMainInst' ELSE CacheInsts'[n]
    BY <2>2, <2>3, Zenon
  <2>6. Run(n)
    BY <1>10, <2>1, Zenon
  <2>7. QED
    BY <1>5, <1>6, <1>9, <2>2, <2>3, <2>4, <2>5, <2>6, RunInv, Zenon
<1>11. CASE /\ Len(CacheInsts) >= Top.msg.depth
            /\ CacheInsts' = [CacheInsts EXCEPT ![Top.msg.depth] = r]
            /\ Run(Top.msg.depth)
  <2>1. PICK n : n = Top.msg.depth
    OBVIOUS
  <2>2. n \in 1..Len(CacheInsts) /\ n \in Nat /\ n # 0 /\ n <= Top.msg.depth
    BY <1>3, <1>7, <1>9, <1>11, <2>1
  <2>3. /\ CacheInsts' \in Seq(Instances)
        /\ Len(CacheInsts') = Len(CacheInsts) /\ CacheInsts'[n] = r
        /\ \A i \in 1..Len(CacheInsts) : i # n =>
                                           CacheInsts'[i] = CacheInsts[i]
    BY <1>5, <1>6, <1>11, <2>1, <2>2, ExceptSeq
  <2>4. ASSUME NEW f \in Outer PROVE InstanceOK(f)' /\ f.inst # n
    <3>1. f.inst # n
      BY <1>3, <1>8, <2>1
    <3>2. f.inst \in 1..Len(CacheInsts) => f.inst # 0
      OBVIOUS
    <3>3. InstanceOK(f)'
      BY <1>8, <2>3, <3>1, <3>2, Zenon DEF InstanceOK, InstanceOf
    <3>4. QED
      BY <3>1, <3>3
  <2>5. r = IF n = 0 THEN CachedMainInst' ELSE CacheInsts'[n]
    BY <2>2, <2>3, Zenon
  <2>6. Run(n) /\ n \in 1..Len(CacheInsts')
    BY <1>11, <2>1, <2>2, <2>3, Zenon
  <2>7. QED
    BY <1>5, <1>6, <1>9, <2>2, <2>3, <2>4, <2>5, <2>6, RunInv, Zenon
<1>12. QED
  BY <1>4, <1>10, <1>11, Zenon DEF NestedInstance

(* Taking the main instance for an outermost call keeps the invariant. *)
LEMMA MainInstanceInv ==
  ASSUME Inv, At("found"), Top.msg.depth = 0, MainInstance(Top),
         UNCHANGED CacheInsts,
         UNCHANGED <<alive, owner, Config, RTConfig, EVMModulePool, cache,
                     HostContext, HostCode>>
  PROVE Inv'
<1>1. stack # << >> /\ Top.stage = "found" /\ Top.stage \in {"found", "run"}
  BY DEF At
<1>2. Top \in Frames /\ FrameOK(Top) /\ TypeOK
  BY <1>1, TopFacts, Zenon
<1>3. Top.mod \in Slots
  BY <1>1, <1>2, Zenon DEF FrameOK, ModuleOK
<1>4. PICK r : r = Reset(Top)
  OBVIOUS
<1>5. r \in Instances /\ r.mod = Top.mod /\ r.msg = Top.msg.depth
  BY <1>2, <1>3, <1>4, ResetInstance
<1>6. PICK i : i = IF CachedMainInst # None THEN r
                   ELSE [r EXCEPT !.rev = DEFAULT_REVISION]
  BY Zenon
<1>7. i \in Instances /\ i.mod = Top.mod /\ i.msg = Top.msg.depth
  BY <1>5, <1>6, EvmcVmAssumption DEF Instances
<1>8. CachedMainInst' = i /\ Run(0)
  BY <1>4, <1>6, Zenon DEF MainInstance
<1>9. CacheInsts' \in Seq(Instances)
  BY <1>2, Zenon DEF TypeOK
<1>10. \A f \in Outer : FALSE
  <2>1. ASSUME NEW f \in Outer PROVE FALSE
    <3>1. f.msg.depth \in Nat /\ f.msg.depth < Top.msg.depth
      BY <1>1, OuterInstances
    <3>2. QED
      BY <3>1
  <2>2. QED
    BY <2>1
<1>11. 0 \in Nat /\ i = (IF 0 = 0 THEN CachedMainInst' ELSE CacheInsts'[0])
       /\ CachedMainInst' # None /\ CachedMainInst' \in Instances \cup {None}
  BY <1>7, <1>8, NoneOutside
<1>12. QED
  BY <1>7, <1>8, <1>9, <1>10, <1>11, RunInv, Zenon

(* Getting an instance at either depth keeps the invariant. *)
LEMMA GetInstanceInv == ASSUME Inv, GetInstance PROVE Inv'
<1>1. At("found")
  BY DEF GetInstance
<1>2. UNCHANGED <<alive, owner, Config, RTConfig, EVMModulePool, cache,
                  HostContext, HostCode>>
  BY Zenon DEF GetInstance
<1>3. QED
  BY <1>1, <1>2, NestedInstanceInv, MainInstanceInv, Zenon DEF GetInstance

-----------------------------------------------------------------------------
(* The invariant holds of a new DTVM object. *)
LEMMA InitInv == Init => Inv
<1> SUFFICES ASSUME Init PROVE Inv
  OBVIOUS
<1>1. TypeOK
  <2>1. LRUOrder \in Seq(Keys) /\ CacheInsts \in Seq(Instances)
        /\ stack \in Seq(Frames)
    BY DEF Init
  <2>2. QED
    BY <2>1, Zenon DEF Init, TypeOK
<1>2. FrameSet = {}
  BY <1>1, Frames0, Zenon DEF Init, TypeOK
<1>3. StackOK
  BY DEF Init, StackOK
<1>4. QED
  BY <1>1, <1>2, <1>3, Zenon DEF Init, Inv, FramesOK, CacheOK, Accounted

(* Every step keeps the invariant. *)
LEMMA NextInv == Inv /\ [Next]_vars => Inv'
<1> SUFFICES ASSUME Inv, [Next]_vars PROVE Inv'
  OBVIOUS
<1>1. CASE UNCHANGED vars
  <2>1. TypeOK'
    BY <1>1, Zenon DEF vars, Inv, TypeOK, cache, insts
  <2>2. QED
    BY <1>1, <2>1, QuietInv, Zenon DEF vars
<1>2. CASE Next
  <2>1. ASSUME NEW a \in Addrs, HostDeploys(a) \/ HostReplaces(a) PROVE Inv'
    BY <2>1, HostDeploysInv, HostReplacesInv
  <2>2. ASSUME NEW s \in Slots, LoadTransient(s) \/ LoadCached(s) PROVE Inv'
    BY <2>2, LoadTransientInv, LoadCachedInv
  <2>3. ASSUME NEW t \in Threads, NEW m \in Messages, NEW host \in Contexts,
               execute(t, m, host)
        PROVE Inv'
    BY <2>3, executeInv
  <2>4. ASSUME NEW m \in Messages, executeNoCode(m) PROVE Inv'
    BY <2>4, executeNoCodeInv
  <2>5. CASE CacheHit \/ CacheMiss \/ EvictLRU \/ EvictEnd
    BY <2>5, CacheHitInv, CacheMissInv, EvictLRUInv, EvictEndInv
  <2>6. CASE LoadFails \/ InstanceFails \/ Return
    BY <2>6, ReturnInv
  <2>7. CASE set_option \/ ToInterpreter \/ GetInstance \/ destroy
    BY <2>7, set_optionInv, ToInterpreterInv, GetInstanceInv, destroyInv
  <2>8. QED
    BY <1>2, <2>1, <2>2, <2>3, <2>4, <2>5, <2>6, <2>7, Zenon DEF Next, Lookup
<1>3. QED
  BY <1>1, <1>2

(* The invariant holds in every reachable state. *)
LEMMA Invariant == Spec => []Inv
BY InitInv, NextInv, PTL DEF Spec

-----------------------------------------------------------------------------
(* What the invariant says. *)

(* A running call's frame is sound. *)
LEMMA RunningFrames ==
  ASSUME Inv, NEW i \in Running
  PROVE /\ i \in 1..Len(stack) /\ stack[i] \in Frames
        /\ stack[i].stage = "run" /\ FrameOK(stack[i])
<1>1. stack \in Seq(Frames) /\ FramesOK
  BY Zenon DEF Inv, TypeOK
<1>2. i \in 1..Len(stack) /\ stack[i] \in Frames /\ stack[i].stage = "run"
  BY <1>1 DEF Running
<1>3. stack[i] \in FrameSet
  BY <1>2, Zenon DEF FrameSet
<1>4. QED
  BY <1>1, <1>2, <1>3, Zenon DEF FramesOK

(* Every state has values of the declared kinds: getOrCreateInstance never *)
(* indexes CacheInsts out of its bounds, findModuleCached finds a module   *)
(* where it finds an entry.                                                *)
THEOREM TypeCorrect == Spec => []TypeOK
<1>1. Inv => TypeOK
  BY DEF Inv
<1>2. QED
  BY <1>1, Invariant, PTL

(* Calls under way never share an instance or an interpreter context, at   *)
(* whatever depths the host makes them, and are of one thread.             *)
THEOREM Disjoint == Spec => []FramesDisjoint
<1>1. ASSUME Inv PROVE FramesDisjoint
  <2>1. stack = << >> <=> owner = None
    BY <1>1, Zenon DEF Inv, StackOK
  <2>2. ASSUME NEW i \in Running, NEW j \in Running, i < j
        PROVE stack[i].inst # stack[j].inst
              /\ ContextOf(stack[i]) # ContextOf(stack[j])
    <3>1. /\ i \in 1..Len(stack) /\ j \in 1..Len(stack)
          /\ stack[i] \in Frames /\ stack[j] \in Frames
          /\ stack[j].stage = "run"
      BY <1>1, RunningFrames, Zenon
    <3>2. Apart(stack[i], stack[j])
      BY <1>1, <2>2, <3>1, Zenon DEF Inv, StackOK
    <3>3. /\ stack[i].msg.depth < stack[j].msg.depth
          /\ stack[i].inst # stack[j].inst
      BY <3>1, <3>2, Zenon DEF Apart
    <3>4. stack[i].msg.depth \in Nat /\ stack[j].msg.depth \in Nat
      BY Zenon, <3>1, DepthsNat DEF Frames, Messages
    <3>5. ContextOf(stack[j]) = <<"NestedCtxPool", stack[j].msg.depth>>
      BY <3>3, <3>4 DEF ContextOf
    <3>6. ContextOf(stack[i]) # ContextOf(stack[j])
      BY <3>3, <3>4, <3>5 DEF ContextOf
    <3>7. QED
      BY <3>3, <3>6
  <2>3. \A i \in Running : i \in Nat
    BY <1>1, RunningFrames
  <2>4. ASSUME NEW i \in Running, NEW j \in Running, i # j
        PROVE stack[i].inst # stack[j].inst
              /\ ContextOf(stack[i]) # ContextOf(stack[j])
    <3>1. i < j \/ j < i
      BY <2>3, <2>4
    <3>2. QED
      BY <2>2, <3>1, Zenon
  <2>5. QED
    BY <2>1, <2>4, Zenon DEF FramesDisjoint
<1>2. QED
  BY <1>1, Invariant, PTL

(* The module and the instance a call runs on stay its own until it        *)
(* returns, whatever nested calls evict, load, unload and reset.           *)
THEOREM Intact == Spec => []FramesIntact
<1>1. ASSUME Inv PROVE FramesIntact
  <2>1. ASSUME NEW i \in Running
        PROVE /\ EVMModulePool[stack[i].mod] = stack[i].loaded
              /\ InstanceOf(stack[i]).mod = stack[i].mod
              /\ InstanceOf(stack[i]).msg = stack[i].msg.depth
    <3>1. FrameOK(stack[i]) /\ stack[i].stage = "run"
      BY <1>1, RunningFrames, Zenon
    <3>2. ModuleOK(stack[i]) /\ InstanceOK(stack[i])
      BY <3>1, Zenon DEF FrameOK
    <3>3. QED
      BY <3>2, Zenon DEF ModuleOK, InstanceOK
  <2>2. QED
    BY <2>1, Zenon DEF FramesIntact
<1>2. QED
  BY <1>1, Invariant, PTL

(* A call runs the code the host passed, though validateCodeMatch compares *)
(* only its size, head and tail.                                           *)
THEOREM HostCodeRuns == Spec => []RunsHostCode
<1>1. ASSUME Inv PROVE RunsHostCode
  <2>1. ASSUME NEW i \in Running PROVE stack[i].loaded.code = stack[i].code
    <3>1. FrameOK(stack[i]) /\ stack[i].stage = "run"
      BY <1>1, RunningFrames, Zenon
    <3>2. ModuleOK(stack[i])
      BY <3>1, Zenon DEF FrameOK
    <3>3. QED
      BY <3>2, Zenon DEF ModuleOK
  <2>2. QED
    BY <2>1, Zenon DEF RunsHostCode
<1>2. QED
  BY <1>1, Invariant, PTL

(* The loaded modules are those of the cache and of the ModuleGuards of    *)
(* calls under way: no path leaks one.                                     *)
THEOREM NoLeaks == Spec => []NoModuleLeaks
<1>1. ASSUME Inv PROVE NoModuleLeaks
  <2>0. TypeOK /\ FramesOK /\ CacheOK /\ Accounted
    BY <1>1, Zenon DEF Inv
  <2>1. DOMAIN stack = 1..Len(stack)
        /\ \A i \in 1..Len(stack) : stack[i] \in Frames
    BY <2>0 DEF TypeOK
  <2>2. \A f \in FrameSet : f.guards \subseteq Loaded
    <3>1. \A f \in Frames : f.guards \subseteq Slots
      BY DEF Frames
    <3>2. QED
      BY <2>0, <2>1, <3>1, Zenon DEF FramesOK, FrameSet, FrameOK, GuardsOK,
                                     Loaded
  <2>3. \A k \in Cached : AddrCache[k] \in Loaded
    BY <2>0, Zenon DEF Cached, Loaded, CacheOK, TypeOK
  <2>4. ASSUME NEW s \in Loaded
        PROVE (\E k \in Cached : AddrCache[k] = s)
              \/ \E f \in FrameSet : s \in f.guards
    BY <2>0, NoneOutside, Zenon DEF Cached, Loaded, Accounted
  <2>5. UNION {stack[i].guards : i \in DOMAIN stack}
          = UNION {f.guards : f \in FrameSet}
    BY <2>1, Zenon DEF FrameSet
  <2>6. Loaded = {AddrCache[k] : k \in Cached}
                 \cup UNION {f.guards : f \in FrameSet}
    BY <2>2, <2>3, <2>4, Zenon
  <2>7. QED
    BY <2>5, <2>6, Zenon DEF NoModuleLeaks
<1>2. QED
  BY <1>1, Invariant, PTL

-----------------------------------------------------------------------------
(* HostContextNests is inductive on its own, given the stack. *)

(* Replacing the top frame changes no other one. *)
LEMMA SetTopAny ==
  ASSUME stack \in Seq(Frames), stack' \in Seq(Frames), stack # << >>,
         NEW g, SetTop(g)
  PROVE /\ Len(stack') = Len(stack) /\ Len(stack) \in Nat \ {0}
        /\ stack' # << >> /\ stack'[Len(stack)] = g
        /\ \A i \in 1..(Len(stack) - 1) : stack'[i] = stack[i]
BY DEF SetTop

(* The steps of the frame on top leave its contexts. *)
TopStep ==
  /\ stack # << >> /\ HostContext' = HostContext
  /\ \E g : SetTop(g) /\ g.host = Top.host /\ g.prev = Top.prev

(* Finding a module and an instance only changes the top frame, and not
   its host. *)
LEMMA TopSteps ==
  ASSUME Inv, \/ CacheHit \/ CacheMiss \/ EvictEnd \/ ToInterpreter
              \/ GetInstance
              \/ \E s \in Slots : LoadTransient(s) \/ LoadCached(s)
  PROVE TopStep
<1>0. stack # << >> => Top \in Frames
  BY TopFacts, Zenon
<1>2. CASE CacheHit
  <2>1. PICK g : g = Found(Top, AddrCache[Key(Top)], EVMModulePool)
    OBVIOUS
  <2>2. stack # << >> /\ HostContext' = HostContext /\ SetTop(g)
    BY <1>2, <2>1, Zenon DEF CacheHit, At
  <2>3. g.host = Top.host /\ g.prev = Top.prev
    BY <1>0, <2>1, <2>2 DEF Frames, Found
  <2>4. QED
    BY <2>2, <2>3, Zenon DEF TopStep
<1>3. CASE CacheMiss
  <2>1. PICK g : g = [Top EXCEPT !.stage = "evict"]
    BY Zenon
  <2>2. stack # << >> /\ HostContext' = HostContext /\ SetTop(g)
    BY <1>3, <2>1, Zenon DEF CacheMiss, At
  <2>3. g.host = Top.host /\ g.prev = Top.prev
    BY <1>0, <2>1, <2>2 DEF Frames
  <2>4. QED
    BY <2>2, <2>3, Zenon DEF TopStep
<1>4. CASE EvictEnd
  <2>1. PICK g : g = [Top EXCEPT !.stage = "load"]
    BY Zenon
  <2>2. stack # << >> /\ HostContext' = HostContext /\ SetTop(g)
    BY <1>4, <2>1, Zenon DEF EvictEnd, At
  <2>3. g.host = Top.host /\ g.prev = Top.prev
    BY <1>0, <2>1, <2>2 DEF Frames
  <2>4. QED
    BY <2>2, <2>3, Zenon DEF TopStep
<1>5. CASE ToInterpreter
  <2>1. PICK g : g = [Top EXCEPT !.path = "interpreter", !.stage = "find"]
    OBVIOUS
  <2>2. stack # << >> /\ HostContext' = HostContext /\ SetTop(g)
    BY <1>5, <2>1, Zenon DEF ToInterpreter, FallsBack, At
  <2>3. g.host = Top.host /\ g.prev = Top.prev
    BY <1>0, <2>1, <2>2 DEF Frames
  <2>4. QED
    BY <2>2, <2>3, Zenon DEF TopStep
<1>6. CASE GetInstance
  <2>1. stack # << >> /\ HostContext' = HostContext
    BY <1>6, Zenon DEF GetInstance, At
  <2>2. PICK n : SetTop([Top EXCEPT !.stage = "run", !.inst = n])
    BY <1>6, Zenon DEF GetInstance, NestedInstance, MainInstance, Run
  <2>3. PICK g : g = [Top EXCEPT !.stage = "run", !.inst = n]
    OBVIOUS
  <2>4. g.host = Top.host /\ g.prev = Top.prev
    BY <1>0, <2>1, <2>3 DEF Frames
  <2>5. QED
    BY <2>1, <2>2, <2>3, <2>4, Zenon DEF TopStep
<1>7. ASSUME NEW s \in Slots, LoadTransient(s) PROVE TopStep
  <2>1. PICK g : g = [Found(Top, s, EVMModulePool') EXCEPT !.guards = @ \cup {s}]
    BY Zenon
  <2>2. stack # << >> /\ HostContext' = HostContext /\ SetTop(g)
    BY <1>7, <2>1, Zenon DEF LoadTransient, At
  <2>3. g.host = Top.host /\ g.prev = Top.prev
    BY <1>0, <2>1, <2>2 DEF Frames, Found
  <2>4. QED
    BY <2>2, <2>3, Zenon DEF TopStep
<1>8. ASSUME NEW s \in Slots, LoadCached(s) PROVE TopStep
  <2>1. PICK g : g = Found(Top, s, EVMModulePool')
    OBVIOUS
  <2>2. stack # << >> /\ HostContext' = HostContext /\ SetTop(g)
    BY <1>8, <2>1, Zenon DEF LoadCached, At
  <2>3. g.host = Top.host /\ g.prev = Top.prev
    BY <1>0, <2>1, <2>2 DEF Frames, Found
  <2>4. QED
    BY <2>2, <2>3, Zenon DEF TopStep
<1>9. QED
  BY <1>2, <1>3, <1>4, <1>5, <1>6, <1>7, <1>8, Zenon

(* A step of the top frame keeps the host contexts nested. *)
LEMMA TopStepHost ==
  ASSUME stack \in Seq(Frames), stack' \in Seq(Frames), HostOK, TopStep
  PROVE HostOK'
<1> DEFINE n == Len(stack)
<1>1. PICK g : SetTop(g) /\ g.host = Top.host /\ g.prev = Top.prev
  BY Zenon DEF TopStep
<1>2. stack # << >> /\ HostContext' = HostContext
  BY Zenon DEF TopStep
<1>3. /\ Len(stack') = n /\ n \in Nat \ {0} /\ stack' # << >>
      /\ stack'[n] = g /\ \A i \in 1..(n - 1) : stack'[i] = stack[i]
  BY <1>1, <1>2, SetTopAny
<1>4. /\ HostContext = stack[n].host /\ g.host = stack[n].host
      /\ g.prev = stack[n].prev
      /\ \A i \in 1..n :
           stack[i].prev = IF i = 1 THEN None ELSE stack[i - 1].host
  BY <1>1, <1>2, Zenon DEF HostOK, Top
<1>5. HostContext' = stack'[Len(stack')].host
  BY <1>2, <1>3, <1>4, Zenon
<1> HIDE DEF n
<1>6. ASSUME NEW i \in 1..n
      PROVE stack'[i].host = stack[i].host /\ stack'[i].prev = stack[i].prev
  <2>1. i = n \/ i \in 1..(n - 1)
    BY <1>3
  <2>2. QED
    BY <1>3, <1>4, <2>1, Zenon
<1>7. ASSUME NEW i \in 1..n
      PROVE stack'[i].prev = IF i = 1 THEN None ELSE stack'[i - 1].host
  <2>1. i # 1 => i - 1 \in 1..n
    BY <1>3
  <2>2. QED
    BY <1>4, <1>6, <2>1, Zenon
<1>8. QED
  BY <1>3, <1>5, <1>7, Zenon DEF HostOK, Top

(* Every step keeps the host contexts nested. *)
LEMMA NextHost == Inv /\ Inv' /\ HostOK /\ [Next]_vars => HostOK'
<1> SUFFICES ASSUME Inv, Inv', HostOK, [Next]_vars PROVE HostOK'
  OBVIOUS
<1> DEFINE n == Len(stack)
<1>1. stack \in Seq(Frames) /\ stack' \in Seq(Frames)
  BY Zenon DEF Inv, TypeOK
<1>2. CASE UNCHANGED <<stack, HostContext>>
  BY <1>2, Zenon DEF HostOK, Top
<1>3. CASE TopStep
  BY <1>1, <1>3, TopStepHost
<1>4. ASSUME NEW g, stack' = Append(stack, g), g.prev = HostContext,
             HostContext' = g.host
      PROVE HostOK'
  <2>1. /\ Len(stack') = n + 1 /\ n \in Nat /\ stack' # << >>
        /\ stack'[n + 1] = g /\ \A i \in 1..n : stack'[i] = stack[i]
        /\ (stack = << >> <=> n = 0)
    BY <1>1, <1>4
  <2>2. /\ HostContext = IF stack = << >> THEN None ELSE stack[n].host
        /\ \A i \in 1..n :
             stack[i].prev = IF i = 1 THEN None ELSE stack[i - 1].host
    BY Zenon DEF HostOK, Top
  <2> HIDE DEF n
  <2>3. ASSUME NEW i \in 1..(n + 1)
        PROVE stack'[i].prev = IF i = 1 THEN None ELSE stack'[i - 1].host
    <3>1. CASE i \in 1..n
      <4>1. i # 1 => i - 1 \in 1..n
        BY <2>1, <3>1
      <4>2. QED
        BY <2>1, <2>2, <3>1, <4>1, Zenon
    <3>2. CASE i = n + 1
      <4>1. /\ i = 1 <=> n = 0
            /\ i # 1 => i - 1 = n /\ n \in 1..n
        BY <2>1, <3>2
      <4>2. QED
        BY <1>4, <2>1, <2>2, <3>2, <4>1, Zenon
    <3>3. QED
      BY <2>1, <3>1, <3>2
  <2>4. QED
    BY <1>4, <2>1, <2>3, Zenon DEF HostOK, Top
<1>5. CASE stack # << >> /\ Leave
  <2>1. stack' = SubSeq(stack, 1, Len(stack) - 1) /\ HostContext' = Top.prev
    BY <1>5, Zenon DEF Leave, RestoreContext
  <2>2. /\ Len(stack') = n - 1 /\ n \in Nat \ {0}
        /\ \A i \in 1..(n - 1) : stack'[i] = stack[i]
        /\ stack' = << >> <=> n = 1
    BY <1>1, <1>5, <2>1, PopStack
  <2>3. /\ HostContext' = stack[n].prev
        /\ \A i \in 1..n :
             stack[i].prev = IF i = 1 THEN None ELSE stack[i - 1].host
    BY <2>1, Zenon DEF HostOK, Top
  <2> HIDE DEF n
  <2>4. /\ n \in 1..n /\ (n # 1 => n - 1 \in 1..(n - 1))
        /\ \A i \in 1..(n - 1) : i \in 1..n /\ (i # 1 => i - 1 \in 1..(n - 1))
    BY <2>2
  <2>5. HostContext' = IF stack' = << >> THEN None
                       ELSE stack'[Len(stack')].host
    <3>1. CASE n = 1
      BY <2>2, <2>3, <2>4, <3>1, Zenon
    <3>2. CASE n # 1
      <4>1. stack' # << >> /\ stack'[Len(stack')] = stack[n - 1]
        BY <2>2, <2>4, <3>2, Zenon
      <4>2. stack[n].prev = stack[n - 1].host
        BY <2>3, <2>4, <3>2, Zenon
      <4>3. QED
        BY <2>3, <4>1, <4>2, Zenon
    <3>3. QED
      BY <3>1, <3>2
  <2>6. ASSUME NEW i \in 1..(n - 1)
        PROVE stack'[i].prev = IF i = 1 THEN None ELSE stack'[i - 1].host
    BY <2>2, <2>3, <2>4, Zenon
  <2>7. QED
    BY <2>2, <2>5, <2>6, Zenon DEF HostOK, Top
<1> HIDE DEF n
<1>6. ASSUME NEW t \in Threads, NEW m \in Messages, NEW host \in Contexts,
             execute(t, m, host)
      PROVE HostOK'
  <2>1. PICK code : stack' = Append(stack,
            [msg |-> m, code |-> code, host |-> host, prev |-> HostContext,
             path |-> Path(m, code), stage |-> "find", mod |-> None,
             loaded |-> None, inst |-> None, guards |-> {}])
    BY <1>6, Zenon DEF execute
  <2>2. PICK g : g = [msg |-> m, code |-> code, host |-> host,
             prev |-> HostContext, path |-> Path(m, code), stage |-> "find",
             mod |-> None, loaded |-> None, inst |-> None, guards |-> {}]
    BY Zenon
  <2>3. g.prev = HostContext /\ g.host = host
    BY <2>2
  <2>4. stack' = Append(stack, g) /\ HostContext' = host
    BY <1>6, <2>1, <2>2, Zenon DEF execute
  <2>5. QED
    BY <1>4, <2>3, <2>4, Zenon
<1>7. CASE Return \/ LoadFails \/ InstanceFails
  <2>1. stack # << >> /\ Leave
    BY <1>7 DEF Return, LoadFails, InstanceFails, At
  <2>2. QED
    BY <1>5, <2>1
<1>8. CASE \/ UNCHANGED vars \/ set_option \/ EvictLRU \/ destroy
           \/ \E m \in Messages : executeNoCode(m)
           \/ \E a \in Addrs : HostDeploys(a) \/ HostReplaces(a)
  BY <1>2, <1>8, Zenon DEF vars, set_option, EvictLRU, destroy, executeNoCode,
                           HostDeploys, HostReplaces
<1>9. CASE \/ CacheHit \/ CacheMiss \/ EvictEnd \/ ToInterpreter
           \/ GetInstance
           \/ \E s \in Slots : LoadTransient(s) \/ LoadCached(s)
  BY <1>3, <1>9, TopSteps
<1>10. QED
  BY <1>6, <1>7, <1>8, <1>9, Zenon DEF Next, Lookup

(* Each call, nested or not, calls its own host context, and gets it back  *)
(* after the calls inside it.                                              *)
THEOREM HostContexts == Spec => []HostContextNests
<1>1. Init => HostOK
  BY DEF Init, HostOK
<1>2. Inv /\ HostOK => HostContextNests
  <2>1. ASSUME Inv, HostOK PROVE HostContextNests
    <3>1. DOMAIN stack = 1..Len(stack)
      BY <2>1 DEF Inv, TypeOK
    <3>2. QED
      BY <2>1, <3>1, Zenon DEF HostOK, HostContextNests
  <2>2. QED
    BY <2>1
<1>3. QED
  BY <1>1, <1>2, Invariant, NextHost, PTL DEF Spec

-----------------------------------------------------------------------------
(* JITCodeAsRuntime: whatever the options are by now, the Runtime keeps    *)
(* the mode it was created with, and all modules have that mode.           *)

PathOK(f) == f.path = "multipass" /\ f.stage = "run" =>
               (HasJITCode(f.loaded) <=> RTConfig.mode = "multipass")

JITOK ==
  /\ RTConfig = None =>
       stack = << >> /\ \A s \in Slots : EVMModulePool[s] = None
  /\ \A s \in Slots : EVMModulePool[s] # None =>
                        EVMModulePool[s].config.mode = RTConfig.mode
  /\ \A f \in FrameSet : PathOK(f)

(* After the top frame is replaced, the frames are the outer ones and the
   new one. *)
LEMMA SetTopFrames ==
  ASSUME stack \in Seq(Frames), stack' \in Seq(Frames), stack # << >>,
         NEW g, SetTop(g)
  PROVE FrameSet' \subseteq Outer \cup {g}
<1>1. /\ Len(stack') = Len(stack) /\ Len(stack) \in Nat \ {0}
      /\ stack'[Len(stack)] = g
      /\ \A i \in 1..(Len(stack) - 1) : stack'[i] = stack[i]
  BY SetTopAny
<1>2. 1..Len(stack) = (1..(Len(stack) - 1)) \cup {Len(stack)}
  BY <1>1
<1>3. FrameSet' = {stack'[i] : i \in 1..Len(stack)}
  BY <1>1, Zenon DEF FrameSet
<1>4. ASSUME NEW i \in 1..Len(stack) PROVE stack'[i] \in Outer \cup {g}
  BY <1>1, <1>2, Zenon DEF Outer
<1>5. QED
  BY <1>3, <1>4, Zenon

(* A step of a call under way. *)
LEMMA JITFrom ==
  ASSUME JITOK, stack # << >>, UNCHANGED RTConfig,
         \A s \in Slots : EVMModulePool'[s] # None =>
           EVMModulePool'[s] = EVMModulePool[s]
           \/ EVMModulePool'[s].config.mode = RTConfig.mode,
         \A f \in FrameSet' : f \in FrameSet \/ PathOK(f)
  PROVE JITOK'
<1>1. RTConfig # None /\ RTConfig' = RTConfig
  BY Zenon DEF JITOK
<1>2. \A f : PathOK(f) => PathOK(f)'
  BY <1>1, Zenon DEF PathOK
<1>3. \A s \in Slots : EVMModulePool'[s] # None =>
                         EVMModulePool'[s].config.mode = RTConfig'.mode
  BY <1>1, Zenon DEF JITOK
<1>4. QED
  BY <1>1, <1>2, <1>3, Zenon DEF JITOK

(* A step of the top frame keeps the invariant about compiled code when
   new modules have the Runtime's mode and the frame has what the property
   says of its path. *)
LEMMA JITTop ==
  ASSUME Inv, Inv', JITOK, stack # << >>, UNCHANGED RTConfig,
         \A s \in Slots : EVMModulePool'[s] # None =>
           EVMModulePool'[s] = EVMModulePool[s]
           \/ EVMModulePool'[s].config.mode = RTConfig.mode,
         NEW g, SetTop(g), PathOK(g)
  PROVE JITOK'
<1>1. stack \in Seq(Frames) /\ stack' \in Seq(Frames)
  BY Zenon DEF Inv, TypeOK
<1>2. FrameSet' \subseteq Outer \cup {g}
  BY <1>1, SetTopFrames
<1>3. FrameSet = Outer \cup {Top}
  BY TopFacts, Zenon
<1>4. QED
  BY <1>2, <1>3, JITFrom, Zenon

(* A module is compiled, or not, as the Runtime's mode says, by the retry
   of the register allocation too. *)
LEMMA JITLoad ==
  ASSUME Inv, JITOK, stack # << >>, NEW s \in Slots, NEW config \in Configs,
         NewModule(Top, s, config)
  PROVE \A r \in Slots : EVMModulePool'[r] # None =>
          EVMModulePool'[r] = EVMModulePool[r]
          \/ EVMModulePool'[r].config.mode = RTConfig.mode
<1>1. TypeOK /\ Top \in Frames
  BY TopFacts, Zenon
<1>2. /\ EVMModulePool'[s].config = config
      /\ \A r \in Slots : r # s => EVMModulePool'[r] = EVMModulePool[r]
  BY <1>1, NewModuleFacts, Zenon
<1>3. config.mode = RTConfig.mode
  BY Zenon DEF NewModule
<1>4. QED
  BY <1>2, <1>3, Zenon

(* Finding a module and an instance keeps the invariant about compiled
   code. *)
LEMMA JITTopSteps ==
  ASSUME Inv, Inv', JITOK,
         \/ CacheHit \/ CacheMiss \/ EvictEnd \/ ToInterpreter \/ GetInstance
         \/ \E s \in Slots : LoadTransient(s) \/ LoadCached(s)
  PROVE JITOK'
<1>0. stack # << >> => /\ Top \in Frames /\ FrameOK(Top) /\ PathOK(Top)
                       /\ TypeOK
  BY TopFacts, Zenon DEF JITOK
<1>2. CASE CacheHit
  <2>1. PICK g : g = Found(Top, AddrCache[Key(Top)], EVMModulePool)
    OBVIOUS
  <2>2. stack # << >> /\ UNCHANGED RTConfig /\ SetTop(g)
    BY <1>2, <2>1, Zenon DEF CacheHit, At
  <2>3. g.path = Top.path /\ g.stage # "run"
    BY <1>0, <2>1, <2>2 DEF Frames, Found
  <2>4. PathOK(g)
    BY <1>0, <2>2, <2>3, Zenon DEF PathOK
  <2>5. EVMModulePool' = EVMModulePool
    BY <1>2, Zenon DEF CacheHit, At
  <2>6. QED
    BY <2>2, <2>4, <2>5, JITTop, Zenon
<1>3. CASE CacheMiss
  <2>1. PICK g : g = [Top EXCEPT !.stage = "evict"]
    BY Zenon
  <2>2. stack # << >> /\ UNCHANGED RTConfig /\ SetTop(g)
    BY <1>3, <2>1, Zenon DEF CacheMiss, At
  <2>3. g.path = Top.path /\ g.stage # "run"
    BY <1>0, <2>1, <2>2 DEF Frames
  <2>4. PathOK(g)
    BY <1>0, <2>2, <2>3, Zenon DEF PathOK
  <2>5. \A s \in Slots : EVMModulePool'[s] # None =>
                         EVMModulePool'[s] = EVMModulePool[s]
    <3>1. EVMModulePool \in [Slots -> Modules \cup {None}]
      BY <1>0, <2>2, Zenon DEF TypeOK
    <3>2. \/ EVMModulePool' = EVMModulePool
          \/ \E e : EVMModulePool' = [EVMModulePool EXCEPT ![e] = None]
      BY <1>3, Zenon DEF CacheMiss, EvictStale
    <3>3. QED
      BY <3>1, <3>2, Zenon
  <2>6. QED
    BY <2>2, <2>4, <2>5, JITTop, Zenon
<1>4. CASE EvictEnd
  <2>1. PICK g : g = [Top EXCEPT !.stage = "load"]
    BY Zenon
  <2>2. stack # << >> /\ UNCHANGED RTConfig /\ SetTop(g)
    BY <1>4, <2>1, Zenon DEF EvictEnd, At
  <2>3. g.path = Top.path /\ g.stage # "run"
    BY <1>0, <2>1, <2>2 DEF Frames
  <2>4. PathOK(g)
    BY <1>0, <2>2, <2>3, Zenon DEF PathOK
  <2>5. EVMModulePool' = EVMModulePool
    BY <1>4, Zenon DEF EvictEnd, At
  <2>6. QED
    BY <2>2, <2>4, <2>5, JITTop, Zenon
<1>5. CASE ToInterpreter
  <2>1. PICK g : g = [Top EXCEPT !.path = "interpreter", !.stage = "find"]
    OBVIOUS
  <2>2. stack # << >> /\ UNCHANGED RTConfig /\ SetTop(g)
    BY <1>5, <2>1, Zenon DEF ToInterpreter, FallsBack, At
  <2>3. g.path = "interpreter"
    BY <1>0, <2>1, <2>2 DEF Frames
  <2>4. PathOK(g)
    BY <1>0, <2>2, <2>3 DEF PathOK
  <2>5. EVMModulePool' = EVMModulePool
    BY <1>5, Zenon DEF ToInterpreter, FallsBack, At
  <2>6. QED
    BY <2>2, <2>4, <2>5, JITTop, Zenon
<1>7. ASSUME NEW s \in Slots, LoadTransient(s) PROVE JITOK'
  <2>1. PICK g : g = [Found(Top, s, EVMModulePool') EXCEPT !.guards = @ \cup {s}]
    BY Zenon
  <2>2. stack # << >> /\ UNCHANGED RTConfig /\ SetTop(g)
    BY <1>7, <2>1, Zenon DEF LoadTransient, At
  <2>3. g.path = Top.path /\ g.stage # "run"
    BY <1>0, <2>1, <2>2 DEF Frames, Found
  <2>4. PathOK(g)
    BY <1>0, <2>2, <2>3, Zenon DEF PathOK
  <2>5. PICK config \in Configs : NewModule(Top, s, config)
    BY <1>7, Zenon DEF LoadTransient, At
  <2>6. QED
    BY <2>2, <2>4, <2>5, JITLoad, JITTop, Zenon
<1>8. ASSUME NEW s \in Slots, LoadCached(s) PROVE JITOK'
  <2>1. PICK g : g = Found(Top, s, EVMModulePool')
    OBVIOUS
  <2>2. stack # << >> /\ UNCHANGED RTConfig /\ SetTop(g)
    BY <1>8, <2>1, Zenon DEF LoadCached, At
  <2>3. g.path = Top.path /\ g.stage # "run"
    BY <1>0, <2>1, <2>2 DEF Frames, Found
  <2>4. PathOK(g)
    BY <1>0, <2>2, <2>3, Zenon DEF PathOK
  <2>5. PICK config \in Configs : NewModule(Top, s, config)
    BY <1>8, Zenon DEF LoadCached, At
  <2>6. QED
    BY <2>2, <2>4, <2>5, JITLoad, JITTop, Zenon
<1>6. CASE GetInstance
  <2>1. /\ stack # << >> /\ Top.stage = "found" /\ ~FallsBack
        /\ UNCHANGED RTConfig /\ EVMModulePool' = EVMModulePool
    BY <1>6, Zenon DEF GetInstance, At
  <2>2. PICK n : SetTop([Top EXCEPT !.stage = "run", !.inst = n])
    BY <1>6, Zenon DEF GetInstance, NestedInstance, MainInstance, Run
  <2>3. PICK g : g = [Top EXCEPT !.stage = "run", !.inst = n]
    OBVIOUS
  <2>4. g.path = Top.path /\ g.loaded = Top.loaded
    BY <1>0, <2>1, <2>3 DEF Frames
  <2>5. Top.stage \in {"found", "run"}
    BY <2>1
  <2>6. ModuleOK(Top)
    BY <1>0, <2>1, <2>5, Zenon DEF FrameOK
  <2>7. Top.loaded.config.mode = RTConfig.mode
    BY <2>6, NoneOutside, Zenon DEF ModuleOK, JITOK
  <2>8. Top.path = "multipass" =>
          (HasJITCode(Top.loaded) <=> RTConfig.mode = "multipass")
    BY <2>1, <2>7, Zenon DEF FallsBack, At, ShouldFallbackToInterp, HasJITCode
  <2>9. PathOK(g)
    BY <1>0, <2>1, <2>4, <2>8, Zenon DEF PathOK
  <2>10. SetTop(g)
    BY <2>2, <2>3, Zenon
  <2>11. QED
    BY <2>1, <2>9, <2>10, JITTop, Zenon
<1>9. QED
  BY <1>2, <1>3, <1>4, <1>5, <1>6, <1>7, <1>8, Zenon

(* Every step keeps the invariant about compiled code, set_option too. *)
LEMMA NextJIT == Inv /\ Inv' /\ JITOK /\ [Next]_vars => JITOK'
<1> SUFFICES ASSUME Inv, Inv', JITOK, [Next]_vars PROVE JITOK'
  OBVIOUS
<1>0. stack \in Seq(Frames) /\ stack' \in Seq(Frames)
      /\ EVMModulePool \in [Slots -> Modules \cup {None}]
  BY Zenon DEF Inv, TypeOK
<1>1. CASE UNCHANGED <<RTConfig, EVMModulePool, stack>>
  BY <1>1, Zenon DEF JITOK, PathOK, FrameSet
<1>2. CASE set_option
  BY <1>1, <1>2, Zenon DEF set_option
<1>11. ASSUME RTConfig' = IF RTConfig = None THEN Config ELSE RTConfig
       PROVE /\ RTConfig' # None
             /\ \A s \in Slots : EVMModulePool[s] # None =>
                                   EVMModulePool[s].config.mode = RTConfig'.mode
             /\ \A f \in FrameSet : PathOK(f)'
  <2>1. Config # None
    BY EvmcVmAssumption, Zenon DEF Inv, TypeOK
  <2>2. CASE RTConfig = None
    <3>1. FrameSet = {} /\ \A s \in Slots : EVMModulePool[s] = None
      BY <1>0, <2>2, Frames0, Zenon DEF JITOK
    <3>2. QED
      BY <1>11, <2>1, <2>2, <3>1, Zenon
  <2>3. CASE RTConfig # None
    BY <1>11, <2>3, Zenon DEF JITOK, PathOK
  <2>4. QED
    BY <2>2, <2>3
<1>3. ASSUME NEW m \in Messages, executeNoCode(m) PROVE JITOK'
  <2>1. /\ UNCHANGED <<EVMModulePool, stack>>
        /\ RTConfig' = IF RTConfig = None THEN Config ELSE RTConfig
    BY <1>3, Zenon DEF executeNoCode, ensureRuntimeAndIsolation
  <2>2. FrameSet' = FrameSet
    BY <2>1, Zenon DEF FrameSet
  <2>3. QED
    BY <1>11, <2>1, <2>2, Zenon DEF JITOK
<1>4. ASSUME NEW t \in Threads, NEW m \in Messages, NEW host \in Contexts,
             execute(t, m, host)
      PROVE JITOK'
  <2>1. /\ EVMModulePool' = EVMModulePool
        /\ RTConfig' = IF RTConfig = None THEN Config ELSE RTConfig
    BY <1>4, Zenon DEF execute, ensureRuntimeAndIsolation
  <2>2. PICK code : stack' = Append(stack,
            [msg |-> m, code |-> code, host |-> host, prev |-> HostContext,
             path |-> Path(m, code), stage |-> "find", mod |-> None,
             loaded |-> None, inst |-> None, guards |-> {}])
    BY <1>4, Zenon DEF execute
  <2>3. PICK g : g = [msg |-> m, code |-> code, host |-> host,
             prev |-> HostContext, path |-> Path(m, code), stage |-> "find",
             mod |-> None, loaded |-> None, inst |-> None, guards |-> {}]
    BY Zenon
  <2>4. g.path = Path(m, code) /\ g.stage # "run"
    BY <2>3
  <2>5. PathOK(g)'
    BY <2>4, Zenon DEF PathOK
  <2>6. stack' = Append(stack, g)
    BY <2>2, <2>3, Zenon
  <2>7. FrameSet' \subseteq FrameSet \cup {g}
    <3>1. /\ Len(stack') = Len(stack) + 1 /\ Len(stack) \in Nat
          /\ stack'[Len(stack) + 1] = g
          /\ \A i \in 1..Len(stack) : stack'[i] = stack[i]
      BY <1>0, <2>6
    <3>2. 1..(Len(stack) + 1) = (1..Len(stack)) \cup {Len(stack) + 1}
      BY <3>1
    <3>3. FrameSet' = {stack'[i] : i \in 1..(Len(stack) + 1)}
      BY <3>1, Zenon DEF FrameSet
    <3>4. ASSUME NEW i \in 1..(Len(stack) + 1)
          PROVE stack'[i] \in FrameSet \cup {g}
      BY <3>1, <3>2, Zenon DEF FrameSet
    <3>5. QED
      BY <3>3, <3>4, Zenon
  <2>8. QED
    BY <1>11, <2>1, <2>5, <2>7, Zenon DEF JITOK
<1>5. CASE Return \/ LoadFails \/ InstanceFails
  <2>1. stack # << >> /\ Leave
    BY <1>5 DEF Return, LoadFails, InstanceFails, At
  <2>2. /\ UNCHANGED RTConfig
        /\ stack' = SubSeq(stack, 1, Len(stack) - 1)
        /\ owner' = IF Len(stack) = 1 THEN None ELSE owner
        /\ EVMModulePool' = [s \in Slots |-> IF s \in Top.guards THEN None
                                             ELSE EVMModulePool[s]]
    BY <2>1, Zenon DEF Leave, UnloadGuarded
  <2>3. FrameSet' = Outer /\ FrameSet = Outer \cup {Top}
    BY <1>0, <2>1, <2>2, StepPop, TopFacts, Zenon DEF Inv
  <2>4. \A s \in Slots : EVMModulePool'[s] # None =>
                           EVMModulePool'[s] = EVMModulePool[s]
    BY <2>2, Zenon
  <2>5. QED
    BY <2>1, <2>2, <2>3, <2>4, JITFrom, Zenon
<1>6. CASE EvictLRU
  <2>1. /\ stack # << >> /\ UNCHANGED RTConfig /\ stack' = stack
        /\ \E e : EVMModulePool' = [EVMModulePool EXCEPT ![e] = None]
    BY <1>6, Zenon DEF EvictLRU, At
  <2>2. FrameSet' = FrameSet
    BY <2>1, Zenon DEF FrameSet
  <2>3. \A s \in Slots : EVMModulePool'[s] # None =>
                           EVMModulePool'[s] = EVMModulePool[s]
    BY <1>0, <2>1, Zenon
  <2>4. QED
    BY <2>1, <2>2, <2>3, JITFrom, Zenon
<1>7. CASE destroy
  <2>1. /\ UNCHANGED <<RTConfig, stack>>
        /\ EVMModulePool' = [s \in Slots |->
             IF \E k \in Keys : AddrCache[k] = s THEN None
             ELSE EVMModulePool[s]]
    BY <1>7, Zenon DEF destroy, UnloadCached
  <2>2. FrameSet' = FrameSet
    BY <2>1, Zenon DEF FrameSet
  <2>3. \A s \in Slots : EVMModulePool'[s] # None =>
                           EVMModulePool'[s] = EVMModulePool[s]
    BY <2>1, Zenon
  <2>4. \A f : PathOK(f) => PathOK(f)'
    BY <2>1, Zenon DEF PathOK
  <2>5. QED
    BY <2>1, <2>2, <2>3, <2>4, Zenon DEF JITOK
<1>8. CASE \/ UNCHANGED vars
           \/ \E a \in Addrs : HostDeploys(a) \/ HostReplaces(a)
  BY <1>1, <1>8, Zenon DEF vars, HostDeploys, HostReplaces
<1>9. CASE \/ CacheHit \/ CacheMiss \/ EvictEnd \/ ToInterpreter
           \/ GetInstance
           \/ \E s \in Slots : LoadTransient(s) \/ LoadCached(s)
  BY <1>9, JITTopSteps
<1>10. QED
  BY <1>2, <1>3, <1>4, <1>5, <1>6, <1>7, <1>8, <1>9, Zenon DEF Next, Lookup

(* For every host, every order of set_option and execute and every set of  *)
(* codes the analyzer keeps from the JIT, a call on the multipass path has *)
(* compiled code to enter if and only if the Runtime, which the first      *)
(* execute creates, was created for multipass.                             *)
THEOREM JITCode == Spec => []JITCodeAsRuntime
<1>1. Init => JITOK
  <2>1. ASSUME Init PROVE FrameSet = {}
    <3>1. stack = << >> /\ stack \in Seq(Frames)
      BY <2>1 DEF Init
    <3>2. QED
      BY <3>1, Frames0
  <2>2. QED
    BY <2>1, Zenon DEF Init, JITOK
<1>2. Inv /\ JITOK => JITCodeAsRuntime
  <2>1. ASSUME Inv, JITOK, NEW i \in Running, stack[i].path = "multipass"
        PROVE HasJITCode(stack[i].loaded) <=> RTConfig.mode = "multipass"
    <3>1. i \in 1..Len(stack) /\ stack[i].stage = "run"
      BY <2>1, RunningFrames, Zenon
    <3>2. QED
      BY <2>1, <3>1, Zenon DEF JITOK, PathOK, FrameSet
  <2>2. QED
    BY <2>1, Zenon DEF JITCodeAsRuntime
<1>3. QED
  BY <1>1, <1>2, Invariant, NextJIT, PTL DEF Spec

-----------------------------------------------------------------------------
(* CacheCoherent: the list against the map. *)

Elems(s) == {s[i] : i \in 1..Len(s)}
Distinct(s) == \A i, j \in 1..Len(s) : s[i] = s[j] => i = j

(* The elements of a list with a new one put in front. *)
LEMMA ConsElems ==
  ASSUME NEW S, NEW x \in S, NEW s \in Seq(S), Distinct(s), x \notin Elems(s),
         NEW r, r = <<x>> \o s
  PROVE Distinct(r) /\ Elems(r) = Elems(s) \cup {x}
<1> DEFINE n == Len(s)
<1>1. /\ Len(r) = n + 1 /\ n \in Nat /\ r[1] = x
      /\ \A i \in 1..n : r[i + 1] = s[i]
  BY ConsSeq
<1> HIDE DEF n
<1>2. \A i \in 1..(n + 1) : i = 1 \/ (i - 1 \in 1..n /\ i = (i - 1) + 1)
  BY <1>1
<1>3. ASSUME NEW i \in 1..(n + 1)
      PROVE \/ i = 1 /\ r[i] = x
            \/ i - 1 \in 1..n /\ r[i] = s[i - 1]
  BY <1>1, <1>2, Zenon
<1>4. \A i \in 1..n : s[i] \in Elems(s) /\ s[i] # x
  BY Zenon DEF Elems, n
<1>5. ASSUME NEW i \in 1..(n + 1), NEW j \in 1..(n + 1), r[i] = r[j]
      PROVE i = j
  <2>1. CASE i = 1 \/ j = 1
    <3>1. i = 1 /\ j = 1
      BY <1>1, <1>3, <1>4, <1>5, <2>1, Zenon
    <3>2. QED
      BY <3>1
  <2>2. CASE i # 1 /\ j # 1
    <3>1. /\ i - 1 \in 1..n /\ j - 1 \in 1..n /\ s[i - 1] = s[j - 1]
      BY <1>3, <1>5, <2>2, Zenon
    <3>2. i - 1 = j - 1
      BY <3>1, Zenon DEF Distinct, n
    <3>3. QED
      BY <1>1, <3>2
  <2>3. QED
    BY <2>1, <2>2
<1>6. Distinct(r)
  BY <1>1, <1>5, Zenon DEF Distinct
<1>7. ASSUME NEW i \in 1..(n + 1) PROVE r[i] \in Elems(s) \cup {x}
  BY <1>3, <1>4, Zenon
<1>8. x \in Elems(r)
  <2>1. 1 \in 1..Len(r)
    BY <1>1
  <2>2. QED
    BY <1>1, <2>1, Zenon DEF Elems
<1>9. ASSUME NEW i \in 1..n PROVE s[i] \in Elems(r)
  <2>1. i + 1 \in 1..Len(r)
    BY <1>1
  <2>2. QED
    BY <1>1, <2>1, Zenon DEF Elems
<1>10. Elems(r) = {r[i] : i \in 1..(n + 1)} /\ Elems(s) = {s[i] : i \in 1..n}
  BY <1>1, Zenon DEF Elems, n
<1>11. Elems(r) \subseteq Elems(s) \cup {x}
  BY <1>7, <1>10, Zenon
<1>12. Elems(s) \subseteq Elems(r)
  BY <1>9, <1>10, Zenon
<1>13. QED
  BY <1>6, <1>8, <1>11, <1>12, Zenon

(* The elements of a list of distinct elements without its last. *)
LEMMA FrontElems ==
  ASSUME NEW S, NEW s \in Seq(S), s # << >>, Distinct(s),
         NEW r, r = SubSeq(s, 1, Len(s) - 1)
  PROVE Distinct(r) /\ Elems(r) = Elems(s) \ {s[Len(s)]}
<1> DEFINE n == Len(s)
<1>1. /\ Len(r) = n - 1 /\ n \in Nat \ {0}
      /\ \A i \in 1..(n - 1) : r[i] = s[i]
  BY FrontSeq
<1> HIDE DEF n
<1>2. 1..n = (1..(n - 1)) \cup {n} /\ n \notin 1..(n - 1)
  BY <1>1
<1>3. Distinct(r)
  <2>1. ASSUME NEW p \in 1..(n - 1), NEW q \in 1..(n - 1), r[p] = r[q]
        PROVE p = q
    <3>1. p \in 1..n /\ q \in 1..n /\ s[p] = s[q]
      BY <1>1, <1>2, <2>1, Zenon
    <3>2. QED
      BY <3>1, Zenon DEF Distinct, n
  <2>2. QED
    BY <1>1, <2>1, Zenon DEF Distinct
<1>4. ASSUME NEW i \in 1..(n - 1) PROVE r[i] \in Elems(s) /\ r[i] # s[n]
  BY <1>1, <1>2, Zenon DEF Elems, Distinct, n
<1>5. ASSUME NEW i \in 1..n, s[i] # s[n] PROVE s[i] \in Elems(r)
  <2>1. i \in 1..(n - 1)
    BY <1>2, <1>5, Zenon
  <2>2. QED
    BY <1>1, <2>1, Zenon DEF Elems
<1>6. Elems(r) = {r[i] : i \in 1..(n - 1)} /\ Elems(s) = {s[i] : i \in 1..n}
  BY <1>1, Zenon DEF Elems, n
<1>7. Elems(r) \subseteq Elems(s) \ {s[n]}
  BY <1>4, <1>6, Zenon
<1>8. Elems(s) \ {s[n]} \subseteq Elems(r)
  BY <1>5, <1>6, Zenon
<1>9. QED
  BY <1>3, <1>7, <1>8, Zenon DEF n

(* The elements of a list of distinct elements without one. *)
LEMMA WithoutElems ==
  ASSUME NEW S, NEW s \in Seq(S), NEW k, Distinct(s),
         NEW r, r = Without(s, k)
  PROVE Distinct(r) /\ Elems(r) = Elems(s) \ {k}
<1> DEFINE n == Len(s)
<1>1. n \in Nat /\ DOMAIN s = 1..n
  OBVIOUS
<1>2. CASE ~\E j \in DOMAIN s : s[j] = k
  <2>1. r = s
    BY <1>2, Zenon DEF Without
  <2>2. k \notin Elems(s)
    BY <1>1, <1>2, Zenon DEF Elems
  <2>3. QED
    BY <2>1, <2>2, Zenon
<1>3. CASE \E j \in DOMAIN s : s[j] = k
  <2>1. PICK i : i = CHOOSE j \in DOMAIN s : s[j] = k
    OBVIOUS
  <2>2. i \in 1..n /\ s[i] = k
    BY <1>1, <1>3, <2>1, Zenon
  <2>3. r = [j \in 1..(n - 1) |-> IF j < i THEN s[j] ELSE s[j + 1]]
    BY <1>3, <2>1, Zenon DEF Without
  <2>4. r \in Seq(S)
    BY WithoutSeq
  <2>5. DOMAIN r = 1..(n - 1)
        /\ \A j \in 1..(n - 1) : r[j] = IF j < i THEN s[j] ELSE s[j + 1]
    BY <2>3, Zenon
  <2> HIDE DEF n
  <2>6. Len(r) = n - 1
    BY <1>1, <2>2, <2>4, <2>5
  <2> DEFINE at(j) == IF j < i THEN j ELSE j + 1
  <2>7. ASSUME NEW j \in 1..(n - 1)
        PROVE at(j) \in 1..n /\ at(j) # i
    BY <1>1, <2>2
  <2>8. ASSUME NEW j \in 1..(n - 1) PROVE r[j] = s[at(j)]
    BY <2>5, Zenon
  <2>9. ASSUME NEW j \in 1..(n - 1), NEW l \in 1..(n - 1), at(j) = at(l)
        PROVE j = l
    BY <1>1, <2>2, <2>9
  <2>10. ASSUME NEW m \in 1..n, m # i
         PROVE \E j \in 1..(n - 1) : at(j) = m
    <3>1. CASE m < i
      <4>1. m \in 1..(n - 1) /\ at(m) = m
        BY <1>1, <2>2, <3>1
      <4>2. QED
        BY <4>1, Zenon
    <3>2. CASE ~(m < i)
      <4>1. m - 1 \in 1..(n - 1) /\ at(m - 1) = m
        BY <1>1, <2>2, <2>10, <3>2
      <4>2. QED
        BY <4>1, Zenon
    <3>3. QED
      BY <3>1, <3>2
  <2> HIDE DEF at
  <2>11. Distinct(r)
    <3>1. \A p, q \in 1..n : s[p] = s[q] => p = q
      BY Zenon DEF Distinct, n
    <3>2. ASSUME NEW p \in 1..(n - 1), NEW q \in 1..(n - 1), r[p] = r[q]
          PROVE p = q
      <4>1. s[at(p)] = s[at(q)] /\ at(p) \in 1..n /\ at(q) \in 1..n
        BY <2>7, <2>8, <3>2, Zenon
      <4>2. at(p) = at(q)
        BY <3>1, <4>1, Zenon
      <4>3. QED
        BY <2>9, <4>2, Zenon
    <3>3. QED
      BY <2>6, <3>2, Zenon DEF Distinct
  <2>12. Elems(r) = {s[at(j)] : j \in 1..(n - 1)}
    BY <2>6, <2>8, Zenon DEF Elems
  <2>13. ASSUME NEW j \in 1..(n - 1) PROVE s[at(j)] \in Elems(s) \ {k}
    BY <2>2, <2>7, Zenon DEF Elems, Distinct, n
  <2>14. ASSUME NEW m \in 1..n, s[m] # k PROVE s[m] \in Elems(r)
    BY <2>2, <2>10, <2>12, <2>14, Zenon
  <2>15. Elems(s) = {s[m] : m \in 1..n}
    BY Zenon DEF Elems, n
  <2>16. Elems(r) = Elems(s) \ {k}
    BY <2>12, <2>13, <2>14, <2>15, Zenon
  <2>17. QED
    BY <2>11, <2>16
<1>4. QED
  BY <1>2, <1>3

ListOK == Elems(LRUOrder) = Cached /\ Distinct(LRUOrder)

RevsOK == \A k \in Keys : AddrCache[k] # None =>
                            EVMModulePool[AddrCache[k]].rev = k[2]

(* The list and the cache stay consistent while neither changes. *)
LEMMA ListSame ==
  ASSUME ListOK, UNCHANGED <<LRUOrder, AddrCache>>
  PROVE ListOK'
<1>1. Cached' = Cached
  BY Zenon DEF Cached
<1>2. QED
  BY <1>1, Zenon DEF ListOK

(* A hit moves its key to the front and keeps the list consistent. *)
LEMMA ListCacheHit ==
  ASSUME Inv, ListOK, CacheHit PROVE ListOK'
<1> DEFINE k == Key(Top)
           w == Without(LRUOrder, k)
<1>1. stack # << >> /\ validateCodeMatch(Top) /\ AddrCache' = AddrCache
      /\ LRUOrder' = <<k>> \o w
  BY Zenon DEF CacheHit, At
<1>2. Top \in Frames /\ TypeOK
  BY <1>1, TopFacts, Zenon
<1>3. k \in Keys
  BY <1>2 DEF Key, Keys, Frames, Messages
<1>4. k \in Cached
  BY <1>1, <1>3, Zenon DEF validateCodeMatch, Cached
<1> HIDE DEF k, w
<1>5. LRUOrder \in Seq(Keys) /\ w \in Seq(Keys)
  BY <1>2, WithoutSeq DEF TypeOK, w
<1>6. Distinct(w) /\ Elems(w) = Elems(LRUOrder) \ {k}
  BY <1>5, WithoutElems DEF ListOK, w
<1>7. Distinct(LRUOrder') /\ Elems(LRUOrder') = Elems(w) \cup {k}
  BY Zenon, <1>1, <1>3, <1>5, <1>6, ConsElems
<1>8. Elems(LRUOrder') = Cached'
  BY <1>1, <1>4, <1>6, <1>7, Zenon DEF ListOK, Cached
<1>9. QED
  BY <1>7, <1>8, Zenon DEF ListOK, Elems, Distinct

(* An entry goes, from the list and from the map. *)
LEMMA ListEvict ==
  ASSUME TypeOK, ListOK, NEW k \in Keys,
         AddrCache' = [AddrCache EXCEPT ![k] = None],
         Distinct(LRUOrder)', Elems(LRUOrder)' = Elems(LRUOrder) \ {k}
  PROVE ListOK'
<1>1. AddrCache \in [Keys -> Slots \cup {None}]
  BY Zenon DEF TypeOK
<1>2. Cached' = Cached \ {k}
  BY <1>1, Zenon DEF Cached
<1>3. QED
  BY <1>2, Zenon DEF ListOK

(* A miss that drops a stale entry drops it from the list too. *)
LEMMA ListCacheMiss ==
  ASSUME Inv, ListOK, CacheMiss PROVE ListOK'
<1> DEFINE k == Key(Top)
<1>1. stack # << >>
      /\ \/ UNCHANGED cache
         \/ /\ LRUOrder' = Without(LRUOrder, k)
            /\ AddrCache' = [AddrCache EXCEPT ![k] = None]
  BY Zenon DEF CacheMiss, At, EvictStale
<1>2. Top \in Frames /\ TypeOK
  BY <1>1, TopFacts, Zenon
<1>3. k \in Keys
  BY <1>2 DEF Key, Keys, Frames, Messages
<1> HIDE DEF k
<1>4. CASE UNCHANGED cache
  BY <1>4, ListSame, Zenon DEF cache
<1>5. CASE /\ LRUOrder' = Without(LRUOrder, k)
           /\ AddrCache' = [AddrCache EXCEPT ![k] = None]
  <2>1. LRUOrder \in Seq(Keys)
    BY <1>2, Zenon DEF TypeOK
  <2>2. Distinct(LRUOrder') /\ Elems(LRUOrder') = Elems(LRUOrder) \ {k}
    BY <1>5, <2>1, WithoutElems DEF ListOK
  <2>3. Distinct(LRUOrder)' /\ Elems(LRUOrder)' = Elems(LRUOrder) \ {k}
    BY <2>2, Zenon DEF Distinct, Elems
  <2>4. QED
    BY Zenon, <1>2, <1>3, <1>5, <2>3, ListEvict
<1>6. QED
  BY <1>1, <1>4, <1>5

(* An eviction drops the key from the list and the cache. *)
LEMMA ListEvictLRU ==
  ASSUME Inv, ListOK, EvictLRU PROVE ListOK'
<1> DEFINE k == LRUOrder[Len(LRUOrder)]
<1>1. /\ LRUOrder # << >> /\ LRUOrder' = SubSeq(LRUOrder, 1, Len(LRUOrder) - 1)
      /\ AddrCache' = [AddrCache EXCEPT ![k] = None]
  BY Zenon DEF EvictLRU, AtCapacity, Victim
<1>2. TypeOK /\ LRUOrder \in Seq(Keys)
  BY Zenon DEF Inv, TypeOK
<1>3. k \in Keys
  BY <1>1, <1>2, FrontSeq
<1>4. Distinct(LRUOrder') /\ Elems(LRUOrder') = Elems(LRUOrder) \ {k}
  BY Zenon, <1>1, <1>2, FrontElems DEF ListOK
<1>5. Distinct(LRUOrder)' /\ Elems(LRUOrder)' = Elems(LRUOrder) \ {k}
  BY <1>4, Zenon DEF Distinct, Elems
<1>6. QED
  BY Zenon, <1>1, <1>2, <1>3, <1>5, ListEvict

(* A load adds the key to the list and the cache. *)
LEMMA ListLoadCached ==
  ASSUME Inv, ListOK, NEW s \in Slots, LoadCached(s) PROVE ListOK'
<1> DEFINE k == Key(Top)
<1>1. /\ stack # << >> /\ Top.stage = "load" /\ LRUOrder' = <<k>> \o LRUOrder
      /\ AddrCache' = [AddrCache EXCEPT ![k] = s]
  BY Zenon DEF LoadCached, At
<1>2. Top \in Frames /\ FrameOK(Top) /\ TypeOK
  BY <1>1, TopFacts, Zenon
<1>3. k \in Keys
  BY <1>2 DEF Key, Keys, Frames, Messages
<1>4. AddrCache[k] = None
  <2>1. Top.stage \in {"evict", "load"}
    BY <1>1
  <2>2. QED
    BY <1>2, <2>1, Zenon DEF FrameOK
<1> HIDE DEF k
<1>5. k \notin Elems(LRUOrder) /\ Distinct(LRUOrder) /\ LRUOrder \in Seq(Keys)
  BY <1>2, <1>4, Zenon DEF ListOK, Cached, TypeOK
<1>6. Distinct(LRUOrder') /\ Elems(LRUOrder') = Elems(LRUOrder) \cup {k}
  BY Zenon, <1>1, <1>3, <1>5, ConsElems
<1>7. Cached' = Cached \cup {k}
  <2>1. AddrCache \in [Keys -> Slots \cup {None}]
    BY <1>2, Zenon DEF TypeOK
  <2>2. QED
    BY <1>1, <1>3, <2>1, NoneOutside, Zenon DEF Cached
<1>8. QED
  BY <1>6, <1>7, Zenon DEF ListOK, Elems, Distinct

(* Every step keeps the list of keys and the cache consistent. *)
LEMMA NextList == Inv /\ ListOK /\ [Next]_vars => ListOK'
<1> SUFFICES ASSUME Inv, ListOK, [Next]_vars PROVE ListOK'
  OBVIOUS
<1>1. CASE destroy
  <2>1. LRUOrder' = << >> /\ AddrCache' = [k \in Keys |-> None]
    BY <1>1, Zenon DEF destroy
  <2>2. Cached' = {}
    BY <2>1, Zenon DEF Cached
  <2>3. Elems(LRUOrder)' = {} /\ Distinct(LRUOrder)'
    BY <2>1 DEF Elems, Distinct
  <2>4. QED
    BY <2>2, <2>3, Zenon DEF ListOK
<1>2. CASE LoadFails \/ InstanceFails \/ Return
  <2>1. Leave
    BY <1>2, Zenon DEF LoadFails, InstanceFails, Return
  <2>2. QED
    BY <2>1, ListSame, Zenon DEF Leave, cache
<1>3. CASE \/ UNCHANGED vars \/ set_option \/ ToInterpreter \/ GetInstance
           \/ EvictEnd
           \/ \E m \in Messages : executeNoCode(m)
           \/ \E a \in Addrs : HostDeploys(a) \/ HostReplaces(a)
           \/ \E s \in Slots : LoadTransient(s)
           \/ \E t \in Threads, m \in Messages, host \in Contexts :
                execute(t, m, host)
  <2>1. UNCHANGED cache
    BY <1>3, Zenon DEF vars, set_option, ToInterpreter, GetInstance, EvictEnd,
                       executeNoCode, HostDeploys, HostReplaces, LoadTransient,
                       execute
  <2>2. QED
    BY <2>1, ListSame, Zenon DEF cache
<1>4. CASE CacheHit \/ CacheMiss \/ EvictLRU
  BY <1>4, ListCacheHit, ListCacheMiss, ListEvictLRU
<1>5. ASSUME NEW s \in Slots, LoadCached(s) PROVE ListOK'
  BY <1>5, ListLoadCached
<1>6. QED
  BY <1>1, <1>2, <1>3, <1>4, <1>5, Zenon DEF Next, Lookup

(* Where an entry stays, so does its module. *)
LEMMA RevsFrom ==
  ASSUME RevsOK,
         \A k \in Keys : AddrCache'[k] # None =>
           /\ AddrCache'[k] = AddrCache[k]
           /\ EVMModulePool'[AddrCache[k]] = EVMModulePool[AddrCache[k]]
  PROVE RevsOK'
BY Zenon DEF RevsOK

(* Dropping a cache entry keeps the revisions of the others. *)
LEMMA RevsEvict ==
  ASSUME TypeOK, CacheOK, RevsOK, NEW k \in Keys,
         EVMModulePool' = [EVMModulePool EXCEPT ![AddrCache[k]] = None],
         AddrCache' = [AddrCache EXCEPT ![k] = None], HostCode' = HostCode
  PROVE RevsOK'
<1>1. /\ AddrCache'[k] = None
      /\ \A l \in Keys : l # k => AddrCache'[l] = AddrCache[l]
      /\ \A r \in Slots : r # AddrCache[k] =>
                            EVMModulePool'[r] = EVMModulePool[r]
  BY Zenon, EvictFacts
<1>2. ASSUME NEW l \in Keys, AddrCache'[l] # None
      PROVE /\ AddrCache'[l] = AddrCache[l]
            /\ EVMModulePool'[AddrCache[l]] = EVMModulePool[AddrCache[l]]
  <2>1. l # k /\ AddrCache'[l] = AddrCache[l]
    BY <1>1, <1>2, Zenon
  <2>2. AddrCache[l] # AddrCache[k] /\ AddrCache[l] \in Slots
    BY <1>2, <2>1, Zenon DEF CacheOK, TypeOK
  <2>3. QED
    BY <1>1, <2>1, <2>2, Zenon
<1>3. QED
  BY <1>2, RevsFrom, Zenon

(* A load leaves the cached modules alone and takes the call's revision. *)
LEMMA RevsLoad ==
  ASSUME Inv, RevsOK, stack # << >>, NEW s \in Slots, NEW config \in Configs,
         NewModule(Top, s, config)
  PROVE /\ \A k \in Keys : AddrCache[k] # None =>
             EVMModulePool'[AddrCache[k]] = EVMModulePool[AddrCache[k]]
        /\ EVMModulePool'[s].rev = Top.msg.rev
<1>1. Top \in Frames /\ TypeOK /\ CacheOK
  BY TopFacts, Zenon
<1>2. /\ EVMModulePool[s] = None /\ EVMModulePool'[s].rev = Top.msg.rev
      /\ \A r \in Slots : r # s => EVMModulePool'[r] = EVMModulePool[r]
  BY <1>1, NewModuleFacts, Zenon
<1>3. ASSUME NEW k \in Keys, AddrCache[k] # None
      PROVE AddrCache[k] \in Slots /\ AddrCache[k] # s
  <2>1. AddrCache[k] \in Slots
    BY <1>1, <1>3, Zenon DEF TypeOK
  <2>2. EVMModulePool[AddrCache[k]] # None
    BY <1>1, <1>3, CachedModule, Zenon
  <2>3. QED
    BY <1>2, <2>1, <2>2, Zenon
<1>4. QED
  BY <1>2, <1>3, Zenon

(* Every step keeps the cached modules at the revision of their keys. *)
LEMMA NextRevs == Inv /\ RevsOK /\ [Next]_vars => RevsOK'
<1> SUFFICES ASSUME Inv, RevsOK, [Next]_vars PROVE RevsOK'
  OBVIOUS
<1>0. TypeOK /\ CacheOK
  BY Zenon DEF Inv
<1>1. CASE destroy
  <2>1. AddrCache' = [k \in Keys |-> None]
    BY <1>1, Zenon DEF destroy
  <2>2. QED
    BY <2>1, Zenon DEF RevsOK
<1>2. CASE LoadFails \/ InstanceFails \/ Return
  <2>1. stack # << >> /\ Leave
    BY <1>2 DEF LoadFails, InstanceFails, Return, At
  <2>2. /\ AddrCache' = AddrCache
        /\ EVMModulePool' = [s \in Slots |-> IF s \in Top.guards THEN None
                                             ELSE EVMModulePool[s]]
    BY <2>1, Zenon DEF Leave, UnloadGuarded, cache
  <2>3. \A k \in Keys : AddrCache[k] \notin Top.guards
    BY <2>1, TopFacts, Zenon DEF FrameOK, GuardsOK
  <2>4. \A k \in Keys : AddrCache[k] # None =>
          EVMModulePool'[AddrCache[k]] = EVMModulePool[AddrCache[k]]
    BY <1>0, <2>2, <2>3, Zenon DEF TypeOK
  <2>5. QED
    BY <2>2, <2>4, RevsFrom, Zenon
<1>3. CASE \/ UNCHANGED vars \/ set_option \/ ToInterpreter \/ GetInstance
           \/ EvictEnd \/ CacheHit
           \/ \E m \in Messages : executeNoCode(m)
           \/ \E a \in Addrs : HostDeploys(a) \/ HostReplaces(a)
           \/ \E t \in Threads, m \in Messages, host \in Contexts :
                execute(t, m, host)
  <2>1. UNCHANGED <<EVMModulePool, AddrCache>>
    BY <1>3, Zenon DEF vars, set_option, ToInterpreter, GetInstance, EvictEnd,
                       executeNoCode, HostDeploys, HostReplaces, CacheHit,
                       execute, cache
  <2>2. QED
    BY <2>1, Zenon DEF RevsOK
<1>4. CASE CacheMiss
  <2>1. /\ stack # << >> /\ HostCode' = HostCode
        /\ \/ UNCHANGED <<EVMModulePool, cache>>
           \/ /\ EVMModulePool' = [EVMModulePool EXCEPT
                                     ![AddrCache[Key(Top)]] = None]
              /\ AddrCache' = [AddrCache EXCEPT ![Key(Top)] = None]
    BY <1>4, Zenon DEF CacheMiss, At, EvictStale
  <2>2. Top \in Frames
    BY <2>1, TopFacts, Zenon
  <2>3. Key(Top) \in Keys
    BY <2>2 DEF Key, Keys, Frames, Messages
  <2>4. CASE UNCHANGED <<EVMModulePool, cache>>
    BY <2>4, Zenon DEF RevsOK, cache
  <2>5. CASE /\ EVMModulePool' = [EVMModulePool EXCEPT
                                     ![AddrCache[Key(Top)]] = None]
             /\ AddrCache' = [AddrCache EXCEPT ![Key(Top)] = None]
    BY <1>0, <2>1, <2>3, <2>5, RevsEvict, Zenon
  <2>6. QED
    BY <2>1, <2>4, <2>5
<1>5. CASE EvictLRU
  <2>1. /\ LRUOrder # << >> /\ HostCode' = HostCode
        /\ EVMModulePool' = [EVMModulePool EXCEPT ![AddrCache[Victim]] = None]
        /\ AddrCache' = [AddrCache EXCEPT ![Victim] = None]
    BY <1>5, Zenon DEF EvictLRU, AtCapacity
  <2>2. Victim \in Keys
    BY <1>0, <2>1, FrontSeq DEF Victim, TypeOK
  <2>3. QED
    BY <1>0, <2>1, <2>2, RevsEvict, Zenon
<1>6. ASSUME NEW s \in Slots, LoadTransient(s) PROVE RevsOK'
  <2>1. stack # << >> /\ AddrCache' = AddrCache
        /\ \E config \in Configs : NewModule(Top, s, config)
    BY <1>6, Zenon DEF LoadTransient, At, cache
  <2>2. \A k \in Keys : AddrCache[k] # None =>
          EVMModulePool'[AddrCache[k]] = EVMModulePool[AddrCache[k]]
    BY <2>1, RevsLoad, Zenon
  <2>3. QED
    BY <2>1, <2>2, RevsFrom, Zenon
<1>7. ASSUME NEW s \in Slots, LoadCached(s) PROVE RevsOK'
  <2> DEFINE k == Key(Top)
  <2>1. stack # << >> /\ AddrCache' = [AddrCache EXCEPT ![k] = s]
        /\ \E config \in Configs : NewModule(Top, s, config)
    BY <1>7, Zenon DEF LoadCached, At
  <2>2. Top \in Frames
    BY <2>1, TopFacts, Zenon
  <2>3. k \in Keys /\ k[2] = Top.msg.rev
    BY <2>2 DEF Key, Keys, Frames, Messages
  <2>4. /\ \A l \in Keys : AddrCache[l] # None =>
             EVMModulePool'[AddrCache[l]] = EVMModulePool[AddrCache[l]]
        /\ EVMModulePool'[s].rev = Top.msg.rev
    BY <2>1, RevsLoad, Zenon
  <2> HIDE DEF k
  <2>5. /\ AddrCache'[k] = s
        /\ \A l \in Keys : l # k => AddrCache'[l] = AddrCache[l]
    BY <1>0, <2>1, <2>3, Zenon DEF TypeOK
  <2>6. ASSUME NEW l \in Keys, AddrCache'[l] # None
        PROVE EVMModulePool'[AddrCache'[l]].rev = l[2]
    <3>1. CASE l = k
      BY <2>3, <2>4, <2>5, <3>1, Zenon
    <3>2. CASE l # k
      <4>1. AddrCache'[l] = AddrCache[l] /\ AddrCache[l] # None
        BY <2>5, <2>6, <3>2, Zenon
      <4>2. EVMModulePool[AddrCache[l]].rev = l[2]
        BY <4>1, Zenon DEF RevsOK
      <4>3. QED
        BY <2>4, <4>1, <4>2, Zenon
    <3>3. QED
      BY <3>1, <3>2
  <2>7. QED
    BY <2>6, Zenon DEF RevsOK
<1>8. QED
  BY <1>1, <1>2, <1>3, <1>4, <1>5, <1>6, <1>7, Zenon DEF Next, Lookup

(* The list and the map of the module cache have the same keys, each once, *)
(* and an entry has a module of its own, of its revision: findModuleCached *)
(* and the eviction loop may use either.                                   *)
THEOREM Coherent == Spec => []CacheCoherent
<1>1. Init => ListOK /\ RevsOK
  <2>1. ASSUME Init PROVE ListOK /\ RevsOK
    <3>1. LRUOrder = << >> /\ AddrCache = [k \in Keys |-> None]
      BY <2>1, Zenon DEF Init
    <3>2. Elems(LRUOrder) = {} /\ Distinct(LRUOrder)
      BY <3>1 DEF Elems, Distinct
    <3>3. Cached = {}
      BY <3>1, Zenon DEF Cached
    <3>4. QED
      BY <3>1, <3>2, <3>3, Zenon DEF ListOK, RevsOK
  <2>2. QED
    BY <2>1
<1>2. Inv /\ ListOK /\ RevsOK => CacheCoherent
  <2>1. ASSUME Inv, ListOK, RevsOK PROVE CacheCoherent
    <3>1. DOMAIN LRUOrder = 1..Len(LRUOrder)
      BY <2>1 DEF Inv, TypeOK
    <3>2. /\ {LRUOrder[i] : i \in DOMAIN LRUOrder} = Cached
          /\ \A i, j \in DOMAIN LRUOrder : LRUOrder[i] = LRUOrder[j] => i = j
      BY <2>1, <3>1, Zenon DEF ListOK, Elems, Distinct
    <3>3. /\ \A k, l \in Cached : AddrCache[k] = AddrCache[l] => k = l
          /\ \A k \in Cached : /\ AddrCache[k] \in Loaded
                               /\ EVMModulePool[AddrCache[k]].rev = k[2]
      BY <2>1, Zenon DEF Inv, TypeOK, CacheOK, RevsOK, Cached, Loaded
    <3>4. QED
      BY <3>2, <3>3, Zenon DEF CacheCoherent
  <2>2. QED
    BY <2>1
<1>3. QED
  BY <1>1, <1>2, Invariant, NextList, NextRevs, PTL DEF Spec
=============================================================================

# DTVM in TLA+

DTVM executes EVM bytecode and WebAssembly with an interpreter for each and with
compilers: a multipass JIT for both, with an eager and a lazy driver, and a
singlepass JIT for WebAssembly. An EVM host uses it through the EVMC interface.
This directory has TLA+ models of the parts that can go wrong in ways a test
hardly reaches, TLC configurations that check them on small instances, and TLAPS
proofs that carry the main results to every size. `PROJECT.json` maps each
definition to the lines it models and lists all parts, modelled or not.

All models describe x86-64 without `ZEN_ENABLE_DWASM` and checked arithmetic. The
EVM models describe the default build, with `ZEN_ENABLE_CPU_EXCEPTION`: a runtime
helper that fails raises a CPU exception whose handler ends the call at once. (With
the option off, `throwInstanceExceptionOnJIT` does nothing and emitted code does not
test for an error after a helper, so it would run on; that build is not modelled.)
The Wasm models describe the build that checks and signals traps in software.

## Parts and modules

| part of the code | modules |
| --- | --- |
| `evm/interpreter.cpp`, `evm/opcode_handlers.cpp`, gas tables | `EvmCode`, `EvmMachine` |
| `evm/evm_cache.cpp`: jump table, push values, gas chunks | `EvmCache` |
| `compiler/evm_frontend/evm_analyzer.h` | `EvmAnalyzer` |
| `evm_bytecode_visitor.h`, `evm_mir_compiler.cpp`, `evm_imported.cpp` | `EvmJit` |
| a message call in either engine | `EvmExec`, `MCEvmExec` |
| 256-bit arithmetic as limbs and x86 instructions | `EvmU256`, `EvmLowering`, `EvmArith`, `MCEvmArith` |
| `vm/dt_evmc_vm.cpp`: the DTVM object, its caches and instances | `EvmcVm`, `MCEvmcVm` |
| `common/thread_pool.h` | `ThreadPool` (detailed), `TaskQueue` (what it promises) |
| the lazy JIT and its stubs (`compiler.cpp`, `stub_builder.cpp`) | `LazyJIT`, built on `TaskQueue` |
| Wasm validation, interpreter | `WasmCode`, `WasmLoader`, `WasmInterp` |
| multipass Wasm front end, its lowering | `WasmJit`, `WasmMachine` |
| singlepass JIT and the code it emits | `WasmSinglepass`, `WasmX64` |
| a Wasm call in all three engines | `WasmExec`, `MCWasmExec` |

Proofs: `EvmMachineProofs` (bytecode scans and the interpreter's handlers),
`EvmMeterProofs` (gas chunks against per-opcode gas), `EvmJitProofs` (compiled
code), `EvmExecProofs` (the theorems on message calls), `EvmU256Proofs`,
`EvmcVmProofs`, `LazyJITProofs`, `ThreadPoolProofs`.

A definition marked *mutant* is a plausible bug of the definition after it; no
specification uses it. Replacing the definition by it makes TLC report the
property that `PROJECT.json` pairs it with.

Deadlock is checked for the EVMC library, which always accepts another call. The
other models end: a message call returns, a pool's script and a module's life are
over; there the properties say how they may end.

## EVM execution

State: the program with its chunk table and front-end analysis, the message, and
two frames. `ref` executes the interpreter's per-opcode path, paying for every
instruction; `eng` executes either `interpret` with its gas chunks or the
compiled code. A frame has the program counter, stack, gas, memory size, return
data size, refund, host mutations and status, and what each engine keeps beside
it: the end of the paid chunk, the cached memory size, the block's precheck plan.
One step is one instruction with one answer of the host (values, cold access,
storage status, what a nested call used and returned). Memory contents are
abstract: a load yields any word of a small set, the same for both frames.

Run `evm_exec` executes 12,734 message calls: a sweep of gas limits over control
flow, memory and prechecks; every program of four pieces from a small alphabet;
control-flow graphs of four blocks; host calls at three revisions, static and at
the depth limit. Results agree (`EnginesAgree`), gas differs by exactly what is
prepaid (`GasLedger`), the cached memory size is right, one stack check per block
suffices, push data is never executed, static calls write nothing, every step
burns. `buildGasChunksSPP` also moves costs between the blocks of the control-flow
graph, but stores each block's own cost in the end; nothing depends on that pass
and it is not modelled.

Scaled: machine integers have 2 bytes, words 3, the stack 8 entries, memory 1024
bytes; so overflow of stack, memory and 64-bit operands all happen. Three cases
are left out of the comparison: MSIZE inside a prechecked block (run
`evm_jit_msize` shows that the engines differ there), delegated code for the JIT,
and output returned by a successful CREATE.

**Proved** for every word size, stack and memory limit, program, message and host
answer:

* `InterpreterAgrees` and `InterpreterPays`: a call run by the chunk-metered
  interpreter ends as the per-opcode reading does (`EnginesAgree`), and `GasLedger`
  holds throughout. The inductive
  invariant relates the two frames: either both run in the same state and the
  reference has more gas by the base cost of the rest of the paid chunk; or both
  ended alike; or the interpreter has failed early and the reference has less gas
  than that rest costs, so it is bound to fail. This needs every handler to
  preserve the relation (`HandlerRel` and `ExecuteRel` of `EvmMeterProofs`), a
  failure inside a chunk to be final (only the last instruction of a chunk jumps,
  ends or looks at the gas), and the cost of a chunk to be the sum of its
  instructions (`BaseCostSum`).
* `TypeCorrect`, `OnlyInstructions`, `StaticCalls`, `CachedSize`, `Burns`: for both
  engines, from an invariant on the frames, proved handler by handler in
  `EvmMachineProofs` and `EvmJitProofs` and for a whole step of compiled code in
  `JitExecutePasses` of `EvmExecProofs`.
* `StackChecks`: compiled code, which checks the stack once at the head of a block,
  never pops a word that is absent nor pushes past the limit
  (`StackCheckCoversBlock`). The inductive invariant (`StackInv`) says that at an
  instruction inside a block the stack has room for every height the rest of the
  block reaches (`Fits`); a block's check establishes it (`CoversBlock`), and each
  handler changes the height by what the analyser's table says.
* `InstrStartsClosed`, `BaseCostSum`, `LiveStartsClosed`: what the recursive
  functions that scan bytecode compute, by induction over the code.

Assumed: the chunk table and analysis of each program are sound (`ChunksSound`,
`FrontSound` in `ExecAssumption`; the latter includes that the heights the analyser
records cover those of `StackHeights`). The algorithms that build them are recursive
operators outside the provers' reach; TLC evaluates the assumption on every
program of the run, whose tables `EvmCache` and `EvmAnalyzer` build. Facts about
exponentiation in `CodeAssumption` are assumed and evaluated likewise.

Only model-checked: `EnginesAgree` and `GasLedger` for compiled code, whose
relation to the reference needs what the analyser's memory plans compute.

## 256-bit arithmetic

`EvmArith` compiles and interprets chains of two opcodes. An operand is a
constant, four limbs with a range the compiler claims, or a deferred NOT or
ISZERO. `LoweringExact`: the limbs are the number the interpreter has.
`RangeSound`: a claimed range is true. `DivideNeverTraps`: hardware divisions are
guarded. The run has limbs of 6 bits and bytes of 2; a limb can still hold every
shift amount and byte index. Its constraint continues a chain only from operands
whose form or range a later opcode inspects.

**Proved** for every limb width: the carry and borrow chains, unsigned
comparison, the cascade of divisions, ADDMOD's fast path with its eligibility
test, and on all paths and operand forms `handleAddMod`, addition, subtraction,
EQ, LT, GT and the general division. For every width of limb and byte, and all
opcodes with all their fast paths, the loop of EXP included: `ClaimedRanges`
(`RangeSound`) and `NoFaultingDivide` (`DivideNeverTraps`). The inductive invariant
`ArithInv` is that the operand on top is `Sound` (its limbs are limbs, its claim is
true, nothing faulted) and that the variables of EXP's loop are words; each handler
makes a sound operand of sound operands. Assumed of the inputs: they are sound
(`ArithAssumption`). Assumed of powers, because the provers evaluate only literal
ones: 2^(n + 1) = 2 * 2^n up to the word's width (`PowerAssumption`); positivity and
2^(a + b) = 2^a * 2^b follow by induction. TLC evaluates both assumptions.

`LoweringExact` as a whole is only model-checked: that the limbs of products,
shifts, BYTE, SIGNEXTEND and EXP are the right ones.

## EVMC library

`EvmcVm` has the module cache and its recency list, the instances by depth, the
host context, the recursive mutex and a stack of calls. `execute` is split where
its lookups are; the host calls `execute` again from a running call, deploys code
at any time and, with `CodeReused`, replaces it between calls. A freed slot may be
reused, so stale pointers meet other modules.

`set_option` may come at any time, between calls and from inside one: it changes the
options of the DTVM object and neither the Runtime, which has its own copy, nor the
modules loaded already.

`evmc_calls` (two threads, two host contexts, a cache of one module, two addresses,
three codes of which the JIT refuses one, both modes, depths 0 and 1, room for two
loaded modules so that freed slots are reused) checks that
calls under way keep instance, module and host context, that the map and the list
stay one cache, that nothing leaks, that a call runs the host's code, and
`JITCodeAsRuntime`: a call on the multipass path has compiled code to enter exactly
when the Runtime was created for multipass. The second half is a defect of the
code: a DTVM whose first call was interpreted and that is then switched to
multipass has no code for any later call, although `evmc-vm-interface/spec.md`
promises "dynamic configuration of execution modes". Slots, threads, contexts and
addresses are symmetric: no definition tells two of them apart.

**Proved** for any addresses (precompiles among them), codes, threads, cache size and
depths, skipped ones included: all seven of these properties and the types, from an
invariant that says of each call under way what it shares with the ones inside it
(`FrameOK`, `Apart`, `CacheOK`, `Accounted`). `HostCodeRuns` assumes that successive
codes of one address differ in the fingerprint `validateCodeMatch` compares.
`JITCode` assumes nothing about the options: its invariant (`JITOK`) says that every
loaded module was loaded in the Runtime's mode and that no call past the fallback's
test is on the multipass path with a code the JIT refuses.

No bound on the size of the cache holds: the eviction loop gives up when any
instance refers to the least recently used module, and an idle instance refers to
its last module for ever (`EvictEnd`).

## Thread pool and lazy JIT

`ThreadPool` has one step between two synchronisation points, with spurious
wakeups (at most two) and notifications sent without the mutex. Scripts are the
call sequences of the compilers. It implements `TaskQueue`, which `LazyJIT` uses:
workers compile in the background while a caller compiles on request, patches
stubs and enters code.

`thread_pool` and `lazy_jit` check conservation of tasks, that waiting means
done and emitted, that guest code only enters finished code of the function it
called, that dispatch reaches exactly the reachable functions, that nothing is
generated twice by a thread, and progress. Two workers, four tasks, two functions:
enough for two workers to race each other and the caller on one function, and for
recursion and repeated exports. Fairness is weak fairness of each thread: the
operating system runs a thread that can run.

**Proved** for any number of workers and tasks: `NoTaskLost`, `PoolIsTaskQueue` (the
refinement), `EagerWaits` and `EagerPops` (`WaitMeansDone` and
`PopsFromNonEmpty` when tasks push no tasks), `LazyPops` (`PopsFromNonEmpty` when the
owner never waits, as in the lazy compiler, whose tasks push tasks), `EagerEmits`
(`WaitMeansEmitted` for owners that bind every context once before they wait: the
invariant counts the tail tasks bound and not run); for any call graph `DispatchExact`, and with one caller
`EntersReady` and `CompilesOnce`. Liveness stays with TLC.

## WebAssembly

`WasmExec` loads a function opcode by opcode, calls it in the interpreter, compiles
it with both JITs and runs their code from the same instance. The interpreter's
flat array, its block cache, the multipass JIT's lazy expressions and the
singlepass JIT's registers, stack slots and emitted instructions are all explicit.
`wasm_exec` checks that validation bounds what the interpreter uses
(`FramesIntact`, `HeightsAsValidated`), that cached block ends are right, that no
assertion of a compiler fails, that compiled code reads nothing undefined and
never traps in a division, and that all engines end alike.

Functions come from skeletons: sequences of slots, each a set of short opcode
sequences, chosen so that a read meets what changes it, a comparison what it is
fused with, an access the end of memory, an argument the register of another.
Scaled: bytes of 2 bits, i32 of 4, i64 of 8, pages of 4 bytes. `Fuel`, `JitFuel` and
`NativeFuel` bound executed instructions. The loader counts a value of unknown type as
one cell when it is pushed and by its type when it is popped; `lost`, which is not
in the code, is the number of cells the counted height is too low by, and
`HeightsAsValidated` allows the interpreter's height to be higher by no more. Two
cases break the code and have runs of their own: a SELECT of two unknown operands
(`wasm_select`), and integer and float arguments moved together while a float is in
`XMM8` (`wasm_arguments`). Registers have the numbers of the enumerations in
`asm/register.h`, where general and XMM registers share numbers; the first free
temporary and the order of argument moves depend on them.

Not modelled: float
arithmetic and comparison, conversions to floats, call-stack exhaustion in
compiled code, host functions that grow memory. These modules use recursive
operators and bitwise operations, so they are model-checked only.

## Runs that end in a violation

| run | what it shows |
| --- | --- |
| `evm_jit_msize` | MSIZE in a prechecked block reads the block's final memory size under the JIT |
| `evmc_revision` | the first top-level call runs at the default revision, not the message's |
| `lazy_jit_shared` | two threads of guest code share one compile context, and one enters the other's function |
| `thread_pool_interrupt` | `interrupt()` notifies without the mutex; a worker may miss it and the join hangs |
| `wasm_select` | a SELECT of two unknown operands is counted as one cell and popped as two; the frame is too small for the code after it |
| `wasm_arguments` | the sort of argument moves takes general and XMM registers for one numbering, and an argument is overwritten before it is read |

Each is quoted against the comment or document it contradicts in `PROJECT.json`.

## What the provers do not reach

Liveness and ENABLED; what recursive *operators* compute. Recursive *functions* are
within reach: `EvmMachineProofs` and `EvmU256Proofs` state induction as a
first-order lemma, show that the functions exist, and prove what they compute.

## Not modelled

Hazards met while reading and left out of the models: the interpreter's dispatch
tables are filled on first use without synchronisation (both writers store the same
values); a depth above 1024 is only asserted; a lazy compilation on request may
overwrite a better version of the function in its stub; the code pool is never
reclaimed; a pool that is reset must have its contexts bound again, or its tail
counter wraps; a host function may grow the memory of the Wasm instance.

Most of the repository's lines are register allocation and code emission adapted
from LLVM, generated tables, parsers, host libraries, platform code and tests:
`PROJECT.json` lists each with the reason. The map therefore covers a small share of
the repository.

------------------------------ MODULE WasmExec ------------------------------
(***************************************************************************)
(* A Wasm function through the engine: its body is loaded opcode by        *)
(* opcode, called in the interpreter, then compiled by the multipass and   *)
(* by the singlepass JIT and called again from the same initial instance.  *)
(***************************************************************************)
EXTENDS WasmLoader, WasmInterp, WasmJit, WasmMachine

SP == INSTANCE WasmX64

CONSTANTS
  Main,        \* the function under test
  Skeletons,   \* sequence of [slots, args, gas]: a slot is a set of opcode sequences
  Fuel,        \* bound on interpreted opcodes
  JitFuel,     \* bound on machine instructions of the multipass JIT
  NativeFuel   \* and of the singlepass JIT

VARIABLES
  phase,   \* "load", "rejected", "call", "interp", "compile", "singlepass", "execute", "native", "done"
  sk,      \* which skeleton
  cur,     \* the function being worked on: every other one, then Main
  pos,     \* its next slot
  ld,      \* its loader
  lib,     \* CodeEntry of every bytecode function loaded
  args,    \* of the call
  mach,    \* the interpreter
  steps,   \* opcodes interpreted
  cf,      \* functions compiled by the multipass JIT
  run,     \* the outcome of their code
  nf,      \* functions compiled by the singlepass JIT
  nat      \* the outcome of their code

vars == <<phase, sk, cur, pos, ld, lib, args, mach, steps, cf, run, nf, nat>>

ByteCodeFuncs == {f \in DOMAIN Funcs : Funcs[f].kind = "code"}
NextOf(done) == LET rest == ByteCodeFuncs \ (done \cup {Main}) IN IF rest = {} THEN Main ELSE CHOOSE f \in rest : \A g \in rest : f <= g
Slots == IF cur = Main THEN Skeletons[sk].slots ELSE <<{Bodies[cur]}>>
Instance0 == NewInstance(Skeletons[sk].gas)

Init ==
  /\ phase = "load"
  /\ sk \in DOMAIN Skeletons
  /\ cur = NextOf({})
  /\ pos = 1
  /\ ld = NewLoader(cur)
  /\ lib = <<>>
  /\ args = <<>>
  /\ mach = <<>>
  /\ steps = 0
  /\ cf = <<>>
  /\ run = <<>>
  /\ nf = <<>>
  /\ nat = <<>>

Load ==
  /\ phase = "load" /\ pos <= Len(Slots)
  /\ \E is \in Slots[pos] :
       \E L \in {FoldLeft(LoadStep, ld, is)} :
         /\ ld' = IF pos = Len(Slots) THEN Finish(L) ELSE L
         /\ phase' = IF ld'.err = "none" THEN "load" ELSE "rejected"
  /\ pos' = pos + 1
  /\ UNCHANGED <<sk, cur, lib, args, mach, steps, cf, run, nf, nat>>

(* A function is loaded; Main is called in the interpreter before it is compiled. *)
Loaded ==
  /\ phase = "load" /\ pos > Len(Slots)
  /\ lib' = (cur :> CodeEntry(ld)) @@ lib
  /\ phase' = IF cur = Main THEN "call" ELSE "compile"
  /\ UNCHANGED <<sk, cur, pos, ld, args, mach, steps, cf, run, nf, nat>>

CallInterpreter ==
  /\ phase = "call"
  /\ \E as \in Skeletons[sk].args :
       /\ args' = as
       /\ mach' = Start(lib, Main, as, Instance0)
  /\ phase' = "interp"
  /\ UNCHANGED <<sk, cur, pos, ld, lib, steps, cf, run, nf, nat>>

Interpret ==
  /\ phase = "interp" /\ mach.out = "run" /\ ~mach.bad /\ steps < Fuel
  /\ mach' = Step(mach)
  /\ steps' = steps + 1
  /\ phase' = IF mach'.out = "run" THEN "interp" ELSE "compile"
  /\ UNCHANGED <<sk, cur, pos, ld, lib, args, cf, run, nf, nat>>

Compile ==
  /\ phase = "compile"
  /\ cf' = (cur :> compile(cur, lib[cur])) @@ cf
  /\ phase' = "singlepass"
  /\ UNCHANGED <<sk, cur, pos, ld, lib, args, mach, steps, run, nf, nat>>

CompileSinglepass ==
  /\ phase = "singlepass"
  /\ nf' = (cur :> SP!compile(cur, lib[cur])) @@ nf
  /\ phase' = IF cur = Main THEN "execute" ELSE "load"
  /\ cur' = IF cur = Main THEN cur ELSE NextOf(DOMAIN nf')
  /\ pos' = IF cur = Main THEN pos ELSE 1
  /\ ld' = IF cur = Main THEN ld ELSE NewLoader(cur')
  /\ UNCHANGED <<sk, lib, args, mach, steps, cf, run, nat>>

ExecuteCompiled ==
  /\ phase = "execute"
  /\ run' = RunCompiled(cf, Main, args, Instance0, JitFuel)
  /\ phase' = "native"
  /\ UNCHANGED <<sk, cur, pos, ld, lib, args, mach, steps, cf, nf, nat>>

ExecuteSinglepass ==
  /\ phase = "native"
  /\ nat' = SP!callNative(nf, Main, args, Instance0, NativeFuel)
  /\ phase' = "done"
  /\ UNCHANGED <<sk, cur, pos, ld, lib, args, mach, steps, cf, run, nf>>

Next == Load \/ Loaded \/ CallInterpreter \/ Interpret \/ Compile \/ CompileSinglepass \/ ExecuteCompiled \/ ExecuteSinglepass

Spec == Init /\ [][Next]_vars

-----------------------------------------------------------------------------
(* No assertion of InterpFrame fails and no frame header or BlockInfo is    *)
(* overwritten while validated code runs: MaxStackSize and MaxBlockDepth    *)
(* bound what the interpreter pushes, and callee locals laid over the       *)
(* caller's free stack stay clear of the callee's header.                   *)
(* The loader breaks it with a SELECT of two operands of unknown type.      *)
FramesIntact == mach # <<>> => ~mach.bad

(* While Main itself runs, the value stack and the control stack have the   *)
(* heights the loader computed for the opcode at Ip.  The one way the       *)
(* tracked size goes wrong is an unknown type popped as a 64-bit value in   *)
(* dead code; it is then low, also behind the block, by no more than the    *)
(* cells lost there.                                                        *)
HeightsAsValidated ==
  phase = "interp" /\ mach.f = Main /\ ~ld.at[mach.ip].poly =>
    /\ mach.sp - Frame(mach).vbase - ld.at[mach.ip].size \in 0 .. ld.at[mach.ip].lost
    /\ mach.cp - Frame(mach).cbase = ld.at[mach.ip].depth

(* END and ELSE of the block whose body starts at s, from the nesting alone. *)
BlockStructure(code, s) ==
  LET Depth(q) == Cardinality({k \in s .. q - 1 : code[k].op \in BlockOps})
                  - Cardinality({k \in s .. q - 1 : code[k].op = "end"})
      At(op) == {q \in s .. Len(code) : code[q].op = op /\ Depth(q) = 0}
      end == CHOOSE q \in At("end") : \A r \in At("end") : q <= r
      elses == {q \in At("else") : q < end}
  IN [els |-> IF elses = {} THEN 0 ELSE CHOOSE q \in elses : TRUE, end |-> end]

(* Every entry the interpreter's scans leave in BlockAddrCache, for the     *)
(* block asked for and for those nested in it, is that block's own.         *)
BlockCacheExact ==
  phase \in {"interp", "compile"} /\ mach # <<>> => \A k \in DOMAIN mach.cache : mach.cache[k] = BlockStructure(mach.fns[k[1]].code, k[2])

(* Validated code never fails an assertion of the multipass visitor and     *)
(* builder, nor of the singlepass code generator: no temporary register is  *)
(* taken or released twice, operands have the types of their instructions,  *)
(* no argument is read from a register a previous argument has overwritten. *)
(* The last breaks when integer and float arguments are moved together and  *)
(* a float is in XMM8.                                                      *)
CompilersAssertsHold ==
  /\ phase = "execute" => \A f \in ByteCodeFuncs : ~cf[f].bad
  /\ phase = "execute" => \A f \in ByteCodeFuncs : ~nf[f].bad

(* Code of the multipass JIT reads no register before writing it, the one   *)
(* place where a lazy expression was emitted being on every path to its     *)
(* uses; and it neither traps in a division nor uses a memory base that a   *)
(* grow, here or in a callee, made stale.                                   *)
CompiledCodeSafe == phase = "native" => ~run.undef /\ ~run.fault

(* The multipass JIT ends the call as the interpreter does: result, error,  *)
(* gas, globals, memory.                                                    *)
EnginesAgree ==
  phase = "native" /\ ~run.undef /\ ~run.fault =>
    /\ run.stk = <<>>
    /\ run.inst = mach.inst
    /\ mach.out = "done" => run.ret = Result(mach)

(* Native code keeps to its frame: it reads nothing it has not written,     *)
(* stays above the stack pointer, returns through the frame it entered,     *)
(* divides without a trap and reaches the linear memory where it is.        *)
NativeFrameSafe == phase = "done" => ~nat.undef /\ ~nat.fault

(* The singlepass JIT ends the call as the interpreter does: result, error, *)
(* gas, globals, memory.                                                    *)
SinglepassAgrees ==
  phase = "done" /\ ~nat.undef /\ ~nat.fault =>
    /\ nat.done
    /\ nat.inst = mach.inst
    /\ mach.out = "done" => nat.ret = Result(mach)
=============================================================================

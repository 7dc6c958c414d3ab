------------------------------- MODULE EvmExec -------------------------------
(***************************************************************************)
(* One message call executed by one of the two engines, in lockstep with   *)
(* the reference reading of the same program: the interpreter's per-opcode *)
(* path, which pays for every instruction as it executes it.               *)
(*                                                                         *)
(* Both frames get the same answers from the host.  The compiled code runs *)
(* a run of JUMPDESTs in one step and may fail before the reference does;  *)
(* the reference then catches up alone.                                    *)
(***************************************************************************)
EXTENDS EvmJit

CONSTANTS
  Messages,     \* pairs of a program [code, rev, cache, front] and a message
                \* [gas, static, deep, refund] that calls it
  Words,        \* words a load or an abstract operation may yield
  NestedCalls   \* what the host may answer to CALL and CREATE

VARIABLES
  prog,         \* the program with its bytecode cache and its analysis
  call,         \* the message
  engine,       \* "interp" or "jit"
  eng,          \* the frame of that engine
  ref           \* the frame of the reference
vars == <<prog, call, engine, eng, ref>>

ASSUME ExecAssumption ==
  /\ \A p \in {m[1] : m \in Messages} :
       /\ p.code \in Seq(Bytes) /\ p.rev \in Nat
       /\ ChunksSound(p) /\ FrontSound(p)
  /\ \A c \in {m[2] : m \in Messages} :
       c.gas \in Nat /\ c.refund \in Int /\ c.static \in BOOLEAN /\ c.deep \in BOOLEAN
  /\ Words \subseteq Nat
  /\ \A n \in NestedCalls :
       /\ n.left \in Nat /\ n.refund \in Int /\ n.size \in Nat /\ n.word \in Nat
       /\ {n.cold, n.poor, n.missing, n.ok} \subseteq BOOLEAN

SStatuses == {"ASSIGNED", "ADDED", "DELETED", "MODIFIED", "DELETED_ADDED",
              "MODIFIED_DELETED", "DELETED_RESTORED", "ADDED_DELETED",
              "MODIFIED_RESTORED"}

(* The host's answers to one instruction; poor: the balance is below the
   value (for SELFDESTRUCT: zero), missing: the account does not exist. *)
Quiet == [cold |-> FALSE, poor |-> FALSE, missing |-> FALSE, ok |-> TRUE, left |-> 2,
          refund |-> 0, size |-> 0, word |-> 0, status |-> "ASSIGNED", delegate |-> "none"]

StartFrame(p, c) ==
  [pc |-> 0, stack |-> <<>>, gas |-> c.gas, mem |-> 0, ret |-> 0, refund |-> c.refund,
   log |-> <<>>, st |-> "running", until |-> 0, snap |-> c.refund, rev |-> p.rev,
   static |-> c.static, deep |-> c.deep, msz |-> 0, plan |-> NoPlan, begin |-> TRUE]

Init ==
  /\ \E m \in Messages : prog = m[1] /\ call = m[2]
  /\ engine \in {"interp", "jit"}
  /\ eng = StartFrame(prog, call)
  /\ ref = eng

Execute(f, in) ==
  IF engine = "jit" THEN JitExecute(f, prog.code, prog.cache, prog.front, in)
  ELSE interpret(f, prog.code, prog.cache, in)

Aligned == Running(eng) /\ eng.pc = ref.pc

(* The instruction at the reference's counter, with one answer of the host. *)
Lockstep(in) ==
  /\ ref' = SlowPath(ref, prog.code, prog.cache.dests, in)
  /\ eng' = IF Aligned THEN Execute(eng, in) ELSE eng
  /\ UNCHANGED <<prog, call, engine>>

QueryOps == (LoadOps \cup EnvOps \cup UnaryOps \cup BinaryOps \cup TernaryOps
               \cup {KECCAK256, EXTCODECOPY}) \ {ADD, SUB, LT, ISZERO, GAS, PC, MSIZE, RETURNDATASIZE}

(* What the host may answer to an opcode.  A successful CREATE returns no
   output, and code is delegated only for the interpreter. *)
QueryAnswers == {[Quiet EXCEPT !.word = w, !.cold = c] : w \in Words, c \in BOOLEAN}
StoreAnswers == {[Quiet EXCEPT !.status = s, !.cold = c] : s \in SStatuses, c \in BOOLEAN}
CallAnswers == {n \in NestedCalls : engine = "jit" => n.delegate = "none"}
CreateAnswers == {n \in NestedCalls : n.delegate = "none" /\ (n.ok => n.size = 0)}
DestructAnswers ==
  {[Quiet EXCEPT !.cold = c, !.poor = p, !.missing = m, !.ok = k] : c, p, m, k \in BOOLEAN}

Answers(op) ==
  CASE op \in QueryOps -> QueryAnswers
    [] op = SSTORE -> StoreAnswers
    [] op \in CallOps -> CallAnswers
    [] op \in CreateOps -> CreateAnswers
    [] op = SELFDESTRUCT -> DestructAnswers
    [] OTHER -> {Quiet}

(* Running off the end of the code is a STOP. *)
NextOpcode == IF ref.pc < Len(prog.code) THEN Byte(prog.code, ref.pc) ELSE STOP

Next == Running(ref) /\ \E in \in Answers(NextOpcode) : Lockstep(in)

Spec == Init /\ [][Next]_vars
-----------------------------------------------------------------------------
(* Frames stay within the machine: counters, stack and gas in range. *)
TypeOK ==
  \A f \in {eng, ref} :
    /\ f.pc \in Nat /\ f.gas \in Nat /\ f.mem \in Nat /\ f.ret \in Nat
    /\ f.mem % 32 = 0 /\ f.mem <= MaxMemory + 31
    /\ Len(f.stack) <= MaxStack
    /\ f.refund \in Int

(* Both engines end a call as the per-opcode reading does: success and
   revert with the same remaining gas, refund, output and host mutations,
   failure whenever it fails.  An engine may fail early, because it charges
   a chunk or a block's memory at once, but only if the reference fails. *)
EnginesAgree ==
  /\ ~Running(ref) => /\ ~Running(eng)
                      /\ Finished(eng) <=> Finished(ref)
                      /\ Finished(ref) => /\ eng.st = ref.st
                                          /\ eng.gas = ref.gas
                                          /\ eng.refund = ref.refund
                                          /\ eng.ret = ref.ret
                                          /\ eng.log = ref.log
  /\ Running(ref) /\ ~Running(eng) => Failed(eng)

(* Base cost of what the engine has paid for and not executed. *)
Prepaid(f) == BaseCost(prog.code, f.rev, f.pc, f.until)

(* The gas an engine is behind the reference is exactly the rest of the
   chunk it has paid for, plus the memory its block's precheck has grown in
   advance: nothing is charged twice and nothing is forgotten. *)
GasLedger ==
  Aligned /\ Running(ref) =>
    eng.gas + Prepaid(eng) + MemoryGas(eng.mem) = ref.gas + MemoryGas(ref.mem)

(* The compiled code's cached memory size is the instance's at every
   instruction, whichever helper grew the memory last. *)
CachedMemorySize == engine = "jit" /\ Running(eng) => eng.msz = eng.mem

(* The one stack check at the head of a compiled block covers all its
   instructions: none pops an absent word or pushes past the limit. *)
StackCheckCoversBlock == eng.st # "CORRUPT"

(* Control only reaches instructions, never the data of a PUSH. *)
NoPushDataExecuted ==
  \A f \in {eng, ref} : f.pc < Len(prog.code) => f.pc \in InstrStarts(prog.code)

(* A frame of a static call leaves the host as it found it. *)
StaticFrameWritesNothing == call.static => eng.log = <<>> /\ ref.log = <<>>

(* Every execution is paid for and ends: no step gives gas back, the stipend
   of a call that transfers value included, and a step that does not end the
   reference's frame uses up gas or moves forward in the code, so no loop of
   a program is free. *)
EveryStepBurns ==
  [][/\ eng'.gas <= eng.gas /\ ref'.gas <= ref.gas
     /\ Running(ref') => ref'.gas < ref.gas \/ ref'.pc > ref.pc]_vars
=============================================================================

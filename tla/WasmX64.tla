------------------------------- MODULE WasmX64 -------------------------------
(***************************************************************************)
(* Execution of the code WasmSinglepass emits on x86-64: registers, flags, *)
(* and one native stack shared by all frames, in units of 4 bytes.         *)
(*                                                                         *)
(* A write of 32 bits clears the upper half of its register.  Undef is     *)
(* what a register or a stack unit holds that nothing has written; it may  *)
(* be copied and saved, but branching on it, addressing with it, dividing  *)
(* by it or letting it escape sets undef.  fault is a hardware trap, an    *)
(* access below the stack pointer or outside the linear memory, a return   *)
(* through a smashed frame, or a call with a misaligned stack.             *)
(***************************************************************************)
EXTENDS WasmMachine, WasmSinglepass

StackTop == 120

(* Stack contents that are not data: a saved frame pointer, a return address. *)
SavedRbp(rbp) == 1000 + rbp
ReturnAddress(depth) == 2000 + depth

NoFlags == [ok |-> FALSE, t |-> "I32", a |-> 0, b |-> 0, un |-> FALSE, c |-> FALSE]

Undefined(R) == [R EXCEPT !.undef = TRUE]
Faulty(R) == [R EXCEPT !.fault = TRUE]
Next1(R) == [R EXCEPT !.pc = @ + 1]

(* Low bits of a register read as type t; pointers are not scaled. *)
Truncated(t, v) == IF v = Undef \/ t = "PTR" THEN v ELSE v % Mod(t)

WriteReg(R, t, r, v) == [R EXCEPT !.reg[r] = Truncated(t, v)]

(***************************************************************************)
(* Operands.                                                               *)
(***************************************************************************)
SlotOf(R, o) == (IF o.k = "frame" THEN R.rbp ELSE R.rsp) + o.v
OnStack(o) == o.k \in {"frame", "out"}
Accessible(R, o) == OnStack(o) => SlotOf(R, o) >= R.rsp /\ SlotOf(R, o) + SizeOf(o.t) <= StackTop

(* A 64-bit value takes two units. *)
ReadSlot(R, t, a) ==
  IF ~is64(t) THEN R.mem[a]
  ELSE IF Undef \in {R.mem[a], R.mem[a + 1]} THEN Undef ELSE R.mem[a] + Mod("I32") * R.mem[a + 1]
WriteSlot(R, t, a, v) ==
  LET lo == IF v = Undef THEN Undef ELSE v % Mod("I32")
      hi == IF v = Undef THEN Undef ELSE (v \div Mod("I32")) % Mod("I32")
  IN IF is64(t) THEN [R EXCEPT !.mem[a] = lo, !.mem[a + 1] = hi] ELSE [R EXCEPT !.mem[a] = lo]

Read(R, t, o) ==
  CASE o.k = "reg" -> Truncated(t, R.reg[o.v])
    [] o.k = "imm" -> o.v
    [] OnStack(o) -> ReadSlot(R, t, SlotOf(R, o))
    [] o.k = "glob" -> R.inst.glob[o.v]
    [] o.k = "gas" -> R.inst.gas
    [] o.k = "err" -> Bool(R.inst.exc # "none")
    [] o.k = "tblsize" -> Len(Table)
    [] o.k = "msize" -> MemSize(R.inst)
    [] o.k = "mbase" -> MemoryBase(R.inst)

(* Globals and gas are seen by others. *)
Write(R, t, o, v) ==
  CASE o.k = "reg" -> WriteReg(R, t, o.v, v)
    [] OnStack(o) -> WriteSlot(R, t, SlotOf(R, o), v)
    [] o.k \in {"glob", "gas"} /\ v = Undef -> Undefined(R)
    [] o.k = "glob" /\ v # Undef -> [R EXCEPT !.inst.glob[o.v] = v]
    [] o.k = "gas" /\ v # Undef -> [R EXCEPT !.inst.gas = v]

(***************************************************************************)
(* Arithmetic and flags.                                                   *)
(***************************************************************************)
Alu(R, i) ==
  LET a == Read(R, i.t, RegOf(i.t, i.d))
      b == Read(R, i.t, i.s)
      v == CASE i.t = "PTR" -> a + b
             [] i.f \in {"rotl", "rotr"} -> MachineRotate(i.f, i.t, a, b)
             [] OTHER -> PlainOp(i.f, i.t, a, b)
      fl == [ok |-> i.f \in {"add", "sub"}, t |-> i.t, a |-> a, b |-> b, un |-> FALSE,
             c |-> i.f = "add" /\ i.t # "PTR" /\ a + b >= Mod(i.t)]
  IN IF Undef \in {a, b} THEN WriteReg([R EXCEPT !.fl = NoFlags], i.t, i.d, Undef)
     ELSE WriteReg([R EXCEPT !.fl = fl], i.t, i.d, v)

SetFlags(R, t, a, b) ==
  [R EXCEPT !.fl = IF Undef \in {a, b} THEN NoFlags ELSE [ok |-> TRUE, t |-> t, a |-> a, b |-> b, un |-> FALSE, c |-> FALSE]]

(* UCOMIS: unordered sets the carry, zero and parity flags. *)
FloatFlags(R, i) ==
  LET Nan(o) == o.k = "reg" /\ IsNaN(i.t, Read(R, i.t, o))
      H(o) == IF o.k = "reg" THEN FloatHalves(i.t, Read(R, i.t, o)) ELSE o.v
      fl == [ok |-> TRUE, t |-> "PTR", a |-> H(i.a), b |-> H(i.b), un |-> Nan(i.a) \/ Nan(i.b), c |-> FALSE]
  IN [R EXCEPT !.fl = IF Undef \in {IF o.k = "reg" THEN Read(R, i.t, o) ELSE 0 : o \in {i.a, i.b}} THEN NoFlags ELSE fl]

(* Whether condition f holds; after UCOMIS the unsigned conditions are used. *)
Holds(fl, f) ==
  CASE f = "always" -> TRUE
    [] f = "carry" -> fl.c
    [] f = "p" -> fl.un
    [] f = "no" -> Signed(fl.t, fl.a) # -Half(fl.t)
    [] fl.t = "PTR" /\ f = "lt_u" -> fl.un \/ fl.a < fl.b
    [] fl.t = "PTR" /\ f = "le_u" -> fl.un \/ fl.a <= fl.b
    [] fl.t = "PTR" /\ f = "ge_u" -> ~fl.un /\ fl.a >= fl.b
    [] OTHER -> IntCompare(f, fl.t, fl.a, fl.b) = 1

Divide(R, i) ==
  LET a == Read(R, i.t, RegOf(i.t, RAX))
      b == Read(R, i.t, RegOf(i.t, i.s))
      s == i.f \in {"div_s", "rem_s"}
      q == MachineDivide(IF s THEN "div_s" ELSE "div_u", i.t, a, b)
      r == MachineDivide(IF s THEN "rem_s" ELSE "rem_u", i.t, a, b)
  IN CASE Undef \in {a, b} -> Undefined(R)
       [] Undef \notin {a, b} /\ q.fault -> Faulty(R)
       [] OTHER -> WriteReg(WriteReg([R EXCEPT !.fl = NoFlags], i.t, RAX, q.v), i.t, RDX, r.v)

Unary(R, t, d, v, result) == WriteReg(R, t, d, IF v = Undef THEN Undef ELSE result)

(***************************************************************************)
(* Linear memory.                                                          *)
(***************************************************************************)
Address(R, i) == R.reg[i.b] + i.disp + (IF i.x = NoReg THEN 0 ELSE R.reg[i.x])

MemoryAccess(R, i) ==
  LET a == Address(R, i)
      off == a - MemoryBase(R.inst)
      v == IF i.m = "store" THEN Read(R, i.t, i.s) ELSE 0
  IN CASE Undef \in {R.reg[i.b], v} \/ (i.x # NoReg /\ R.reg[i.x] = Undef) -> Undefined(R)
       [] ~(Undef \in {R.reg[i.b], v} \/ (i.x # NoReg /\ R.reg[i.x] = Undef)) ->
            IF ~Access(R.inst, a, i.w) THEN Faulty(R)
            ELSE IF i.m = "store" THEN [R EXCEPT !.inst.lin = WriteBytes(@, off, i.w, v)]
            ELSE WriteReg(R, i.t, i.d, Extend(i.t, ReadBytes(R.inst.lin, off, i.w), i.w, i.s))

(***************************************************************************)
(* Calls and returns.                                                      *)
(***************************************************************************)
CallerSaved == {RAX, RCX, RDX, RDI, RSI, R10, R11, R8, R9} \cup XMM0 .. XMM0 + 15

(* A call into the runtime or the host: v comes back in the low half of    *)
(* RAX below garbage in the upper half; caller-saved registers are lost.   *)
Native(R, inst, v) ==
  LET garbage == 5 * Mod("I32")
  IN IF R.rsp % 4 # 0 THEN Faulty(R)
     ELSE Next1([R EXCEPT !.inst = inst, !.fl = NoFlags,
                          !.reg = [r \in DOMAIN @ |-> CASE r = RAX -> v + garbage
                                                        [] r \in CallerSaved \ {RAX} -> Undef
                                                        [] OTHER -> @[r]]])

CallFunction(R, g) ==
  LET arg == Read(R, "I32", RegOf("I32", RSI))
      h == HostCall(<<arg>>)
      ra == R.rsp - 2
  IN CASE Funcs[g].kind = "host" /\ arg = Undef -> Undefined(R)
       [] Funcs[g].kind = "host" /\ arg # Undef ->
            Native(R, IF h.ok THEN R.inst ELSE [R.inst EXCEPT !.exc = "HostError"], h.v)
       [] OTHER ->
            IF R.rsp % 4 # 0 \/ ra < 0 THEN Faulty(R)
            ELSE [R EXCEPT !.f = g, !.pc = 1, !.rsp = ra, !.rets = Append(@, [f |-> R.f, pc |-> R.pc + 1, rbp |-> R.rbp]),
                           !.mem[ra] = ReturnAddress(Len(R.rets)), !.mem[ra + 1] = ReturnAddress(Len(R.rets)), !.fl = NoFlags]

(* push rbp; mov rbp, rsp *)
Enter(R) ==
  LET a == R.rsp - 2
  IN IF a < 0 THEN Faulty(R)
     ELSE Next1([R EXCEPT !.mem[a] = SavedRbp(R.rbp), !.mem[a + 1] = SavedRbp(R.rbp), !.rbp = a, !.rsp = a])

(* mov rsp, rbp; pop rbp; ret *)
Return(R) ==
  LET to == Last(R.rets)
      b == R.rbp
      intact == /\ R.mem[b] = SavedRbp(to.rbp) /\ R.mem[b + 1] = SavedRbp(to.rbp)
                /\ R.mem[b + 2] = ReturnAddress(Len(R.rets) - 1) /\ R.mem[b + 3] = ReturnAddress(Len(R.rets) - 1)
  IN IF ~intact THEN Faulty(R)
     ELSE [R EXCEPT !.f = to.f, !.pc = to.pc, !.rbp = to.rbp, !.rsp = b + 4, !.rets = Front(@), !.done = Len(R.rets) = 1]

(* What the stack pointer uncovers holds nothing. *)
MoveStackPointer(R, n) ==
  IF R.rsp + n < 0 THEN Faulty(R)
  ELSE Next1([R EXCEPT !.rsp = @ + n, !.fl = NoFlags, !.mem = [a \in DOMAIN @ |-> IF a < R.rsp THEN Undef ELSE @[a]]])

(* The except block of e: setException, and on to the exception exit. *)
ExceptBlock(R, e, exit) ==
  IF R.rsp % 4 # 0 THEN Faulty(R)
  ELSE [R EXCEPT !.inst.exc = e, !.pc = exit, !.reg[GasReg] = IF e = "GasLimitExceeded" THEN 0 ELSE @]

growOnX64(R) ==
  LET delta == Read(R, "I32", RegOf("I32", RSI))
      g == growLinearMemory(R.inst, delta)
  IN IF delta = Undef THEN Undefined(R) ELSE Native(R, g.inst, IF g.ok THEN R.inst.pages ELSE Mod("I32") - 1)

(***************************************************************************)
(* One instruction.                                                        *)
(***************************************************************************)
MachineOperands(i) == CASE i.m = "mov" -> {i.d, i.s} [] i.m = "cmp" -> {i.a, i.b}
                        [] i.m \in {"alu", "cmov", "extend", "tblelem"} -> {i.s} [] OTHER -> {}

Branches(R, i, lab) ==
  CASE ~R.fl.ok /\ i.f # "always" -> Undefined(R)
    [] (R.fl.ok \/ i.f = "always") /\ ~Holds(R.fl, i.f) -> IF i.m = "setcc" THEN Next1(WriteReg(R, "I32", i.d, 0)) ELSE Next1(R)
    [] OTHER -> CASE i.m = "jcc" -> [R EXCEPT !.pc = lab[i.l]]
                  [] i.m = "jexc" -> ExceptBlock(R, i.e, lab[1])
                  [] i.m = "setcc" -> Next1(WriteReg(R, "I32", i.d, 1))
                  [] i.m = "cmov" -> Next1(WriteReg(R, i.t, i.d, Read(R, i.t, i.s)))

TableGet(R, o) ==
  LET v == Read(R, "I32", o)
  IN CASE v = Undef -> Undefined(R)
       [] v # Undef /\ v \notin 0 .. Len(Table) - 1 -> Faulty(R)
       [] OTHER -> WriteReg(R, "I32", RAX, Table[v + 1])

CompareType(R, n) ==
  LET g == R.reg[RAX] IN IF g \in DOMAIN Funcs THEN SetFlags(R, "I32", SmallestTypeIdx(Funcs[g].type), n) ELSE Faulty(R)

MachineStep(R, i, lab) ==
  CASE \E o \in MachineOperands(i) : ~Accessible(R, o) -> Faulty(R)
    [] \A o \in MachineOperands(i) : Accessible(R, o) ->
       CASE i.m = "mov" -> Next1(Write(R, i.t, i.d, Read(R, i.t, i.s)))
         [] i.m = "alu" -> Next1(Alu(R, i))
         [] i.m = "cmp" -> Next1(SetFlags(R, i.t, Read(R, i.t, i.a), Read(R, i.t, i.b)))
         [] i.m = "fcmp" -> Next1(FloatFlags(R, i))
         [] i.m \in {"jcc", "jexc", "setcc", "cmov"} -> Branches(R, i, lab)
         [] i.m = "jtab" -> LET v == Read(R, "I32", i.a)
                            IN CASE v = Undef -> Undefined(R)
                                 [] v # Undef /\ v >= i.n -> Faulty(R)
                                 [] OTHER -> [R EXCEPT !.pc = lab[i.l + v]]
         [] i.m = "div" -> Next1(Divide(R, i))
         [] i.m = "count" -> LET v == Read(R, i.t, RegOf(i.t, i.d)) IN Next1(Unary(R, i.t, i.d, v, CountBits(i.t, i.f, v)))
         [] i.m = "extend" -> LET v == Read(R, i.s.t, i.s) IN Next1(Unary(R, i.t, i.d, v, Extend(i.t, v, i.w, i.sx)))
         [] i.m = "cvtt" -> LET v == Read(R, i.from, RegOf(i.from, i.s))
                            IN Next1(Unary(R, i.t, i.d, v, Wrap(i.t, Cvtt(i.t, IsNaN(i.from, v), FloatHalves(i.from, v) - i.bias))))
         [] i.m \in {"load", "store"} -> Next1(MemoryAccess(R, i))
         [] i.m = "pages" -> Next1(WriteReg(R, "I32", i.d, R.inst.pages))
         [] i.m = "tblelem" -> Next1(TableGet(R, i.s))
         [] i.m = "cmptype" -> Next1(CompareType(R, i.n))
         [] i.m = "rsp" -> MoveStackPointer(R, i.n)
         [] i.m = "enter" -> Enter(R)
         [] i.m = "ret" -> Return(R)
         [] i.m = "call" -> CallFunction(R, i.f)
         [] i.m = "callrax" -> CallFunction(R, R.reg[RAX])
         [] i.m = "grow" -> growOnX64(R)
         [] i.m = "setexc" -> Next1([R EXCEPT !.reg[ExceptReg] = 1])

RECURSIVE RunMachine(_, _, _)
RunMachine(cf, R, fuel) ==
  IF R.done \/ R.undef \/ R.fault \/ fuel = 0 THEN R
  ELSE RunMachine(cf, IF R.pc > Len(cf[R.f].code) THEN Faulty(R) ELSE MachineStep(R, cf[R.f].code[R.pc], cf[R.f].lab), fuel - 1)

(* What the caller of callNative sees of the machine it ends in. *)
Returned(R, t) == IF t = "VOID" THEN 0 ELSE Read(R, t, RegOf(t, RetReg(t)))
Outcome(R, t) ==
  [ret |-> IF R.reg[ExceptReg] = 1 THEN 0 ELSE Returned(R, t), inst |-> R.inst,
   undef |-> R.undef \/ (R.reg[ExceptReg] # 1 /\ R.done /\ Returned(R, t) = Undef), fault |-> R.fault, done |-> R.done]

(* callNative: arguments in registers, memory and instance registers set up. *)
callNative(cf, f, args, inst, fuel) ==
  LET regs == [k \in DOMAIN args |-> ArgumentInfo(FuncType(f).params).args[k].v]
      reg == [r \in 0 .. 31 |->
                CASE r = InstReg -> 0
                  [] r = ExceptReg -> 0
                  [] r = MemBaseReg -> MemoryBase(inst)
                  [] r = MemSizeReg -> MemSize(inst)
                  [] \E k \in DOMAIN args : regs[k] = r -> args[CHOOSE k \in DOMAIN args : regs[k] = r]
                  [] OTHER -> Undef]
      ra == StackTop - 2
      R0 == [f |-> f, pc |-> 1, reg |-> reg, rbp |-> 0, rsp |-> ra,
             mem |-> [a \in 0 .. StackTop - 1 |-> IF a >= ra THEN ReturnAddress(0) ELSE Undef],
             fl |-> NoFlags, rets |-> <<[f |-> f, pc |-> 0, rbp |-> 0]>>, inst |-> inst,
             undef |-> FALSE, fault |-> FALSE, done |-> FALSE]
  IN Outcome(RunMachine(cf, R0, fuel), IF FuncType(f).rets = <<>> THEN "VOID" ELSE FuncType(f).rets[1])
=============================================================================

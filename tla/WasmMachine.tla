----------------------------- MODULE WasmMachine -----------------------------
(***************************************************************************)
(* Execution of the code WasmJit emits: machine instructions, and the      *)
(* sequences the x86 lowering expands one MIR instruction into.            *)
(*                                                                         *)
(* A run R is a stack of activations [f, bb, pc, regs], the instance, the  *)
(* value returned last, and two observations: undef (a register was read   *)
(* that nothing had written in this activation) and fault (the hardware    *)
(* would trap, or memory was reached through an address that is not the    *)
(* linear memory's any more).                                              *)
(***************************************************************************)
EXTENDS WasmCode

Undef == -1

(* Where the linear memory lives after it moved gen times. *)
MemoryBase(inst) == 64 * inst.gen

Good(v) == [v |-> v, exc |-> "none", fault |-> FALSE]
Exception(e) == [v |-> 0, exc |-> e, fault |-> FALSE]
Fault == [v |-> 0, exc |-> "none", fault |-> TRUE]

(* ROL and ROR, bit by bit. *)
MachineRotate(f, t, a, b) ==
  LET w == Bits(t)
      from(k) == (IF f = "rotl" THEN k - b ELSE k + b) % w
  IN FoldLeft(LAMBDA v, k : v + 2 ^ (k - 1) * BitAt(a, from(k - 1)), 0, [k \in 1 .. w |-> k])

(* DIV and IDIV fault on zero and on an unrepresentable quotient. *)
MachineDivide(f, t, a, b) ==
  LET x == Signed(t, a)
      y == Signed(t, b)
  IN IF b = 0 \/ (f \in {"div_s", "rem_s"} /\ x = -Half(t) /\ y = -1) THEN Fault
     ELSE Good(CASE f = "div_u" -> a \div b
                 [] f = "rem_u" -> a % b
                 [] f = "div_s" -> Wrap(t, CDiv(x, y))
                 [] f = "rem_s" -> Wrap(t, CRem(x, y)))

(* CVTT*2SI: the minimum stands for everything not representable. *)
Cvtt(t, nan, h) ==
  LET v == TowardsZero(h)
  IN IF nan \/ v < -Half(t) \/ v >= Half(t) THEN -Half(t) ELSE v

lowerWasmFPToSI(t, from, v) ==
  LET h == FloatHalves(from, v)
      c == Cvtt(t, IsNaN(from, v), h)
      overflow == IF from = "F64" /\ t = "I32" THEN h <= -2 * (Half(t) + 1) \/ h > 0 ELSE h # -2 * Half(t)
  IN CASE c # -Half(t) -> Good(Wrap(t, c))
       [] c = -Half(t) /\ IsNaN(from, v) -> Exception("InvalidConversionToInteger")
       [] c = -Half(t) /\ ~IsNaN(from, v) /\ overflow -> Exception("IntegerOverflow")
       [] c = -Half(t) /\ ~IsNaN(from, v) /\ ~overflow -> Good(Wrap(t, c))

(* Through a 64-bit conversion, compared unsigned with the 32-bit maximum. *)
lowerWasmFPToUI32(from, v) ==
  LET c == Wrap("I64", Cvtt("I64", IsNaN(from, v), FloatHalves(from, v)))
  IN IF c <= Mod("I32") - 1 THEN Good(c)
     ELSE Exception(IF IsNaN(from, v) THEN "InvalidConversionToInteger" ELSE "IntegerOverflow")

(* From 2^63 on, 2^63 is subtracted before and added after the conversion. *)
lowerWasmFPToUI64(from, v) ==
  LET h == FloatHalves(from, v)
      large == h >= 2 * Half("I64")
      c == Cvtt("I64", FALSE, IF large THEN h - 2 * Half("I64") ELSE h)
  IN CASE IsNaN(from, v) -> Exception("InvalidConversionToInteger")
       [] ~IsNaN(from, v) /\ c < 0 -> Exception("IntegerOverflow")
       [] ~IsNaN(from, v) /\ c >= 0 -> Good(IF large THEN c + Half("I64") ELSE c)

(* An access must fall inside the memory where it is now. *)
Access(inst, addr, w) == addr - MemoryBase(inst) >= 0 /\ addr - MemoryBase(inst) + w <= MemSize(inst)

LoadAt(inst, op, vs) ==
  LET addr == vs[1] + op.x.disp + (IF Len(vs) = 2 THEN vs[2] ELSE 0)
  IN IF ~Access(inst, addr, op.x.w) THEN Fault
     ELSE Good(Extend(op.t, ReadBytes(inst.lin, addr - MemoryBase(inst), op.x.w), op.x.w, op.x.s))

(* The value of an expression over its operands' values. *)
Evaluate(inst, op, vs) ==
  CASE op.f = "const" -> Good(op.x)
    [] op.f = "glob" -> Good(inst.glob[op.x])
    [] op.f = "pages" -> Good(inst.pages)
    [] op.f = "gas" -> Good(inst.gas)
    [] op.f = "mbase" -> Good(MemoryBase(inst))
    [] op.f = "msize" -> Good(MemSize(inst))
    [] op.f = "tblsize" -> Good(Len(Table))
    [] op.f = "tblelem" -> IF vs[1] \in 0 .. Len(Table) - 1 THEN Good(Table[vs[1] + 1]) ELSE Fault
    [] op.f = "functype" -> IF vs[1] \in DOMAIN Funcs THEN Good(SmallestTypeIdx(Funcs[vs[1]].type)) ELSE Fault
    [] op.f = "load" -> LoadAt(inst, op, vs)
    [] op.f = "select" -> Good(IF vs[3] # 0 THEN vs[1] ELSE vs[2])
    [] op.t = "PTR" /\ op.f = "add" -> Good(vs[1] + vs[2])
    [] op.t # "PTR" /\ op.f \in Binaries \cup {"shl", "shr_s", "shr_u"} -> Good(PlainOp(op.f, op.t, vs[1], vs[2]))
    [] op.f \in {"rotl", "rotr"} -> Good(MachineRotate(op.f, op.t, vs[1], vs[2]))
    [] op.f \in Divs -> MachineDivide(op.f, op.t, vs[1], vs[2])
    [] op.f \in Compares -> Good(IntCompare(op.f, op.t, vs[1], vs[2]))
    [] op.f \in Counts -> Good(CountBits(op.t, op.f, vs[1]))
    [] op.f = "extend8_s" -> Good(Extend(op.t, vs[1], 1, TRUE))
    [] op.f = "extend_low_s" -> Good(Extend(op.t, vs[1], Bytes(op.t) \div 2, TRUE))
    [] op.f \in {"extend_s", "extend_u"} -> Good(Extend(op.t, vs[1], Bytes("I32"), op.f = "extend_s"))
    [] op.f = "wrap" -> Good(Wrap("I32", vs[1]))
    [] op.f = "reinterpret" -> Good(vs[1])
    [] op.f = "trunc_s" -> lowerWasmFPToSI(op.t, op.x, vs[1])
    [] op.f = "trunc_u" -> IF op.t = "I32" THEN lowerWasmFPToUI32(op.x, vs[1]) ELSE lowerWasmFPToUI64(op.x, vs[1])

(***************************************************************************)
(* Activations.                                                            *)
(***************************************************************************)
Activation(cf, f, args) ==
  [f |-> f, bb |-> 1, pc |-> 1, regs |-> args \o [k \in 1 .. cf[f].n - Len(args) |-> Undef]]

Top(R) == Last(R.stk)
SetTop(R, a) == [R EXCEPT !.stk[Len(R.stk)] = a]
Advance(R) == [R EXCEPT !.stk[Len(R.stk)].pc = @ + 1]
Goto(R, b) == SetTop(R, [Top(R) EXCEPT !.bb = b, !.pc = 1])
SetReg(R, d, v) == Advance([R EXCEPT !.stk[Len(R.stk)].regs[d] = v])
Value(R, a) == IF a.k = "imm" THEN a.v ELSE Top(R).regs[a.v]

(* Return v to the caller, whose call instruction names the register. *)
ReturnFrom(cf, R, v) ==
  LET P == [R EXCEPT !.stk = Front(@), !.ret = v]
      call == cf[Top(P).f].code[Top(P).bb][Top(P).pc]
  IN IF P.stk = <<>> THEN P ELSE SetReg(P, call.d, v)

(* The exception-set block: triggerInstanceExceptionOnJIT, return zero. *)
TriggerException(cf, R, e) ==
  ReturnFrom(cf, [R EXCEPT !.inst.exc = e, !.inst.gas = IF e = "GasLimitExceeded" THEN 0 ELSE @], 0)

(* An imported function reports failure in the instance and returns. *)
Call(cf, R, op, g, vs) ==
  LET r == HostCall(vs)
  IN CASE Funcs[g].kind = "host" ->
            SetReg(IF r.ok THEN R ELSE [R EXCEPT !.inst.exc = "HostError"], op.d, r.v)
       [] Funcs[g].kind # "host" -> [R EXCEPT !.stk = Append(@, Activation(cf, g, vs))]

growInstanceMemoryOnJIT(R, d, delta) ==
  LET g == growLinearMemory(R.inst, delta)
  IN SetReg([R EXCEPT !.inst = g.inst], d, IF g.ok THEN R.inst.pages ELSE Mod("I32") - 1)

StoreAt(R, op, vs) ==
  LET addr == vs[2] + op.disp + (IF Len(vs) = 3 THEN vs[3] ELSE 0)
  IN IF ~Access(R.inst, addr, op.w) THEN [R EXCEPT !.fault = TRUE]
     ELSE Advance([R EXCEPT !.inst.lin = WriteBytes(@, addr - MemoryBase(R.inst), op.w, vs[1])])

Operands(op) == CASE op.m \in {"br", "exc", "chkexc"} -> <<>>
                  [] op.m = "call" -> Append(op.a, op.f)
                  [] op.m \in {"op", "memchk", "store"} -> op.a
                  [] OTHER -> <<op.a>>

(* The evaluation r of an expression goes to register d. *)
Define(cf, R, d, r) ==
  IF r.fault THEN [R EXCEPT !.fault = TRUE]
  ELSE IF r.exc # "none" THEN TriggerException(cf, R, r.exc) ELSE SetReg(R, d, r.v)

(* One instruction whose operands have the values vs. *)
Execute(cf, R, op, vs) ==
  CASE op.m = "op" -> Define(cf, R, op.d, Evaluate(R.inst, op, vs))
    [] op.m = "copy" -> SetReg(R, op.d, vs[1])
    [] op.m = "br" -> Goto(R, op.b)
    [] op.m = "brif" -> IF vs[1] # 0 THEN Goto(R, op.b) ELSE IF op.b2 = 0 THEN Advance(R) ELSE Goto(R, op.b2)
    [] op.m = "brexc" -> IF vs[1] # 0 THEN TriggerException(cf, R, op.e) ELSE Advance(R)
    [] op.m = "switch" -> Goto(R, op.bs[IF vs[1] < Len(op.bs) - 1 THEN vs[1] + 1 ELSE Len(op.bs)])
    [] op.m = "exc" -> TriggerException(cf, R, op.e)
    [] op.m = "chkexc" -> IF R.inst.exc # "none" THEN ReturnFrom(cf, R, 0) ELSE Advance(R)
    [] op.m = "memchk" -> IF op.n + (IF Len(vs) = 2 THEN vs[2] ELSE 0) > vs[1]
                          THEN TriggerException(cf, R, "OutOfBoundsMemory") ELSE Advance(R)
    [] op.m = "store" -> StoreAt(R, op, vs)
    [] op.m = "setglob" -> Advance([R EXCEPT !.inst.glob[op.n] = vs[1]])
    [] op.m = "setgas" -> Advance([R EXCEPT !.inst.gas = vs[1]])
    [] op.m = "grow" -> growInstanceMemoryOnJIT(R, op.d, vs[1])
    [] op.m = "call" -> Call(cf, R, op, Last(vs), Front(vs))
    [] op.m = "ret" -> ReturnFrom(cf, R, vs[1])

RunStep(cf, R) ==
  LET block == cf[Top(R).f].code[Top(R).bb]
      op == block[Top(R).pc]
      as == Operands(op)
      vs == <<>> \o [k \in DOMAIN as |-> Value(R, as[k])]
  IN IF Top(R).pc > Len(block) THEN [R EXCEPT !.fault = TRUE]
     ELSE IF \E k \in DOMAIN vs : vs[k] = Undef THEN [R EXCEPT !.undef = TRUE]
     ELSE Execute(cf, R, op, vs)

RECURSIVE RunFrom(_, _, _)
RunFrom(cf, R, fuel) ==
  IF R.stk = <<>> \/ R.undef \/ R.fault \/ fuel = 0 THEN R ELSE RunFrom(cf, RunStep(cf, R), fuel - 1)

(* Calling function f of the compiled module cf, for at most fuel instructions. *)
RunCompiled(cf, f, args, inst, fuel) ==
  RunFrom(cf, [stk |-> <<Activation(cf, f, args)>>, inst |-> inst, ret |-> 0, undef |-> FALSE, fault |-> FALSE], fuel)
=============================================================================

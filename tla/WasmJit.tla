------------------------------- MODULE WasmJit -------------------------------
(***************************************************************************)
(* The multipass JIT's Wasm front end (WASMByteCodeVisitor over            *)
(* FunctionMirBuilder) with the lowering of its MIR, in the configuration  *)
(* that signals traps in software.                                         *)
(*                                                                         *)
(* An operand of the evaluation stack is a MIR expression.  Expressions    *)
(* are lazy: code for one is emitted the first time a statement uses it,   *)
(* into the block being filled then, and every later use takes the same    *)
(* register (lowerExpr's memo).  Blocks are filled in the order they are   *)
(* appended, so a builder J can emit while it decodes:                     *)
(*   bb, code   the current block, and the instructions of every block     *)
(*   n          variables and expressions numbered so far; each number is  *)
(*              also the register that holds it                            *)
(*   done       expressions already emitted                                *)
(*   stk, ctl   evaluation stack and control stack                         *)
(*   e          the expression created last                                *)
(*   bad        an assertion of the visitor or builder failed              *)
(***************************************************************************)
EXTENDS WasmCode, TLC

Check(J, ok) == IF ok THEN J ELSE [J EXCEPT !.bad = TRUE]

(***************************************************************************)
(* Blocks, variables, expressions.                                         *)
(***************************************************************************)
createBasicBlock(J) == [J EXCEPT !.code = Append(@, <<>>)]
NumBlocks(J) == Len(J.code)
setInsertBlock(J, b) == [J EXCEPT !.bb = b]
Emit(J, op) == [J EXCEPT !.code[J.bb] = Append(@, op)]

VarExpr(r) == [r |-> r, f |-> "var", t |-> "VOID", x |-> 0, kids |-> <<>>]
createVariable(J) == [J EXCEPT !.n = @ + 1, !.e = VarExpr(J.n + 1)]

createExpr(J, f, t, x, kids) ==
  [J EXCEPT !.n = @ + 1, !.e = [r |-> J.n + 1, f |-> f, t |-> t, x |-> x, kids |-> kids]]
createConst(J, t, v) == createExpr(J, "const", t, v, <<>>)
getInstanceElement(J, field, x, kids) == createExpr(J, field, "VOID", x, kids)

(***************************************************************************)
(* lowerExpr.  An integer constant on the right, or on the left of a       *)
(* commutative operator, becomes an immediate; a multiplication by a power *)
(* of two becomes a shift; an immediate shift beyond the width is not      *)
(* encodable and goes through a register.                                  *)
(***************************************************************************)
Reg(e) == [k |-> "reg", v |-> e.r]
Imm(v) == [k |-> "imm", v |-> v]
IsConst(e) == e.f = "const"
Commutative == {"add", "mul", "and", "or", "xor"}
IsPowerOf2(v) == v > 0 /\ \E k \in 0 .. 8 : v = 2 ^ k
Log2(v) == CHOOSE k \in 0 .. 8 : v = 2 ^ k

(* [ok, f, e, imm]: the operator, the operand left in a register, the immediate. *)
fastEmit_ri(e) ==
  LET left == IsConst(e.kids[1]) /\ e.f \in Commutative
      opnd == e.kids[IF left THEN 2 ELSE 1]
      imm == e.kids[IF left THEN 1 ELSE 2].x
      shift == e.f = "mul" /\ IsPowerOf2(imm)
      f == IF shift THEN "shl" ELSE e.f
      v == IF shift THEN Log2(imm) ELSE imm
  IN [ok |-> ~(f \in Shifts /\ v >= Bits(e.t)), f |-> f, e |-> opnd, imm |-> v]

HasImmediate(e) ==
  /\ e.f \in Binaries \cup Shifts
  /\ IsConst(e.kids[2]) \/ (IsConst(e.kids[1]) /\ e.f \in Commutative)
  /\ fastEmit_ri(e).ok

RECURSIVE lowerExpr(_, _), lowerAll(_, _)
lowerExpr(J, e) ==
  IF e.f = "var" \/ e.r \in J.done THEN J
  ELSE LET op(f, a) == [m |-> "op", d |-> e.r, f |-> f, t |-> e.t, x |-> e.x, a |-> a]
           ri == fastEmit_ri(e)
           K == IF HasImmediate(e) THEN Emit(lowerExpr(J, ri.e), op(ri.f, <<Reg(ri.e), Imm(ri.imm)>>))
                ELSE Emit(lowerAll(J, e.kids), op(e.f, [k \in DOMAIN e.kids |-> Reg(e.kids[k])]))
       IN [K EXCEPT !.done = @ \cup {e.r}]

lowerAll(J, es) == IF es = <<>> THEN J ELSE lowerAll(lowerExpr(J, Head(es)), Tail(es))

(* A statement whose operands are the expressions es. *)
Stmt(J, op, es) == Emit(lowerAll(J, es), op)

dassign(J, r, e) == Stmt(J, [m |-> "copy", d |-> r, a |-> Reg(e)], <<e>>)

makeReusableValue(J, e) ==
  LET K == createVariable(J)
  IN [dassign(K, K.n, e) EXCEPT !.e = K.e]

\* Mutation: no copy is taken.
protectNothing(J, e) == [J EXCEPT !.e = e]

(* What a set instruction may change is copied when it is read. *)
protectUnsafeValue(J, e) == makeReusableValue(J, e)

Br(J, b) == Emit(J, [m |-> "br", b |-> b])
(* b2 = 0: fall through. *)
BrIf(J, e, b, b2) == Stmt(J, [m |-> "brif", a |-> Reg(e), b |-> b, b2 |-> b2], <<e>>)
(* Branches to the block that sets exception x when J.e holds. *)
BrIfException(J, x) == Stmt(J, [m |-> "brexc", a |-> Reg(J.e), e |-> x], <<J.e>>)

Compare(J, f, t, a, b) == createExpr(J, f, t, 0, <<a, b>>)
(* Against the expression created last. *)
CompareLast(J, f, t, a) == Compare(J, f, t, a, J.e)
CompareConst(J, f, t, a, v) == CompareLast(createConst(J, t, v), f, t, a)
assignLast(J, r) == dassign(J, r, J.e)
reuseLast(J) == makeReusableValue(J, J.e)

(***************************************************************************)
(* Evaluation stack and control stack.                                     *)
(***************************************************************************)
push(J, t) == [J EXCEPT !.stk = Append(@, [t |-> t, e |-> J.e])]
(* Operands are popped by position: Opnd(J, 1) is the top. *)
Opnd(J, k) == J.stk[Len(J.stk) - k + 1].e
OpndType(J, k) == J.stk[Len(J.stk) - k + 1].t
pop(J, k) == Check([J EXCEPT !.stk = SubSeq(@, 1, Len(@) - k)], Len(J.stk) >= k)

getBlockInfo(J, level) == J.ctl[Len(J.ctl) - level]
getCurrentBlockInfo(J) == getBlockInfo(J, 0)
setReachable(J, v) == [J EXCEPT !.ctl[Len(J.ctl)].reach = v]

enterBlock(J, kind, t, jump, next, brat) ==
  LET K == IF t = "VOID" THEN J ELSE createVariable(J)
  IN [K EXCEPT !.ctl = Append(@, [kind |-> kind, t |-> t, res |-> K.n, size |-> Len(J.stk),
                                  jump |-> jump, next |-> next, brat |-> brat, reach |-> TRUE])]

verifyCtrlInstValType(J, info, jumpBack) ==
  getCurrentBlockInfo(J).reach =>
    IF info.t = "VOID" \/ jumpBack THEN info.size <= Len(J.stk)
    ELSE info.size + 1 <= Len(J.stk) /\ OpndType(J, 1) = info.t

makeAssignment(J, info) == Check(dassign(J, info.res, Opnd(J, 1)), OpndType(J, 1) = info.t)

(* The stack top becomes the result of the block a branch leaves to. *)
AssignBranchResult(J, info) ==
  LET back == info.kind = "loop"
      K == Check(J, verifyCtrlInstValType(J, info, back))
  IN IF info.t # "VOID" /\ ~back THEN makeAssignment(K, info) ELSE K

(***************************************************************************)
(* Control instructions.                                                   *)
(***************************************************************************)
handleUnreachable(J) == Emit(J, [m |-> "exc", e |-> "Unreachable"])

handleBlock(J, t) == LET K == createBasicBlock(J) IN enterBlock(K, "block", t, NumBlocks(K), 0, <<>>)

handleLoop(J, t) ==
  LET K == createBasicBlock(createBasicBlock(J))
      loop == NumBlocks(J) + 1
  IN setInsertBlock(enterBlock(Br(K, loop), "loop", t, loop, loop + 1, <<>>), loop)

(* The branch's place is kept for handleElse to patch. *)
handleIf(J, cond, t) ==
  LET K == createBasicBlock(createBasicBlock(J))
      then == NumBlocks(J) + 1
      B == BrIf(K, cond, then, then + 1)
  IN setInsertBlock(enterBlock(B, "if", t, then + 1, 0, <<B.bb, Len(B.code[B.bb])>>), then)

handleElse(J) ==
  LET info == getCurrentBlockInfo(J)
      V == Check(J, verifyCtrlInstValType(J, info, FALSE) /\ info.kind = "if")
      A == IF info.t # "VOID" /\ info.reach THEN pop(makeAssignment(V, info), 1) ELSE V
      B == createBasicBlock(IF info.reach THEN Br(A, info.jump) ELSE A)
      P == [B EXCEPT !.code[info.brat[1]][info.brat[2]].b2 = NumBlocks(B)]
  IN setReachable(setInsertBlock(P, NumBlocks(B)), TRUE)

handleEnd(J) ==
  LET info == getCurrentBlockInfo(J)
      V == Check(J, verifyCtrlInstValType(J, info, FALSE))
      A == IF info.t # "VOID" /\ info.reach THEN pop(makeAssignment(V, info), 1) ELSE V
      next == IF info.next = 0 THEN info.jump ELSE info.next
      B == IF info.reach THEN Br(A, next) ELSE A
      E == [setInsertBlock(B, next) EXCEPT !.ctl = Front(@), !.e = VarExpr(info.res),
              !.stk = IF Len(@) > info.size THEN SubSeq(@, 1, info.size) ELSE @]
  IN IF info.t = "VOID" THEN E ELSE push(E, info.t)

handleBranch(J, level) ==
  LET info == getBlockInfo(J, level)
  IN Br(AssignBranchResult(J, info), info.jump)

(* cond is already popped; the result is assigned before cond is emitted. *)
handleBranchIf(J, cond, level) ==
  LET info == getBlockInfo(J, level)
      K == createBasicBlock(AssignBranchResult(J, info))
  IN setInsertBlock(BrIf(K, cond, info.jump, NumBlocks(K)), NumBlocks(K))

\* Mutation: the targets read the stack top itself.
handleBranchTableUnsaved(J, tbl) ==
  LET P == pop(J, 1)
      info1 == getBlockInfo(P, tbl[1])
      t == IF info1.kind = "loop" THEN "VOID" ELSE info1.t
      C == FoldLeft(LAMBDA K, l : createBasicBlock(K), P, tbl)
      W == Stmt(C, [m |-> "switch", a |-> Reg(Opnd(J, 1)), bs |-> [k \in DOMAIN tbl |-> NumBlocks(P) + k]], <<Opnd(J, 1)>>)
      Target(K, k) == LET info == getBlockInfo(K, tbl[k])
                          B == setInsertBlock(K, NumBlocks(P) + k)
                      IN Br(IF t # "VOID" THEN dassign(B, info.res, Opnd(P, 1)) ELSE B, info.jump)
  IN FoldLeft(Target, W, [k \in DOMAIN tbl |-> k])

(* One block per level branched to; the stack top is saved in a variable,  *)
(* for all of them to read.                                                *)
handleBranchTable(J, tbl) ==
  LET P == pop(J, 1)
      first == getBlockInfo(P, tbl[1])
      t == IF first.kind = "loop" THEN "VOID" ELSE first.t
      levels == FoldLeft(LAMBDA s, l : IF Contains(s, l) THEN s ELSE Append(s, l), <<>>, tbl)
      BlockOf(l) == NumBlocks(P) + (CHOOSE k \in DOMAIN levels : levels[k] = l)
      C == FoldLeft(LAMBDA K, l : createBasicBlock(K), P, levels)
      S == IF t = "VOID" THEN C ELSE makeReusableValue(C, Opnd(C, 1))
      W == IF Len(tbl) = 1 THEN Br(S, BlockOf(tbl[1]))
           ELSE Stmt(S, [m |-> "switch", a |-> Reg(Opnd(J, 1)), bs |-> [k \in DOMAIN tbl |-> BlockOf(tbl[k])]],
                     <<Opnd(J, 1)>>)
      Target(K, l) == LET info == getBlockInfo(K, l)
                          B == setInsertBlock(K, BlockOf(l))
                          A == IF t # "VOID" THEN Check(dassign(B, info.res, S.e), OpndType(P, 1) = info.t) ELSE B
                      IN Br(A, info.jump)
  IN FoldLeft(Target, W, levels)

handleReturn(J, rets) ==
  IF rets = <<>> THEN Emit(J, [m |-> "ret", a |-> Imm(0)])
  ELSE LET e == Opnd(J, 1)
       IN pop(Stmt(Check(J, Len(J.stk) >= 1), [m |-> "ret", a |-> Reg(e)], <<e>>), 1)

(***************************************************************************)
(* Calls.  After each, an exception returns at once, and the variables     *)
(* holding the memory's base and size are loaded again.                    *)
(***************************************************************************)
LoadInto(J, r, field) == assignLast(getInstanceElement(J, field, 0, <<>>), r)

updateMemoryBaseAndSize(J) ==
  IF J.mbase = 0 THEN J ELSE LoadInto(LoadInto(J, J.mbase, "mbase"), J.msize, "msize")

checkCallException(J) == Emit(J, [m |-> "chkexc"])

(* The ft.params operands are on top of the stack; callee is a Reg or an Imm. *)
handleCallBase(J, callee, ft) ==
  LET n == Len(ft.params)
      args == [k \in 1 .. n |-> Opnd(J, n - k + 1)]
      V == createVariable(pop(J, n))
      C == Stmt(V, [m |-> "call", d |-> V.n, f |-> callee, a |-> [k \in 1 .. n |-> Reg(args[k])]], args)
      U == updateMemoryBaseAndSize(checkCallException(C))
  IN IF ft.rets = <<>> THEN U ELSE push([U EXCEPT !.e = V.e], ft.rets[1])

(* The callee in table slot i.e, checked to lie in the table. *)
LoadCallee(I) ==
  LET checked == BrIfException(CompareLast(getInstanceElement(I, "tblsize", 0, <<>>), "ge_u", "I32", I.e), "UndefinedElement")
  IN reuseLast(getInstanceElement(checked, "tblelem", 0, <<I.e>>))

CompareTypeOf(T, ti) == CompareConst(T, "ne", "I32", T.e, SmallestTypeIdx(ti))

CallChecked(F, ti) ==
  LET filled == BrIfException(CompareConst(F, "eq", "I32", F.e, NoFunc), "UninitializedElement")
      typed == BrIfException(CompareTypeOf(getInstanceElement(filled, "functype", 0, <<F.e>>), ti), "IndirectCallTypeMismatch")
  IN handleCallBase(typed, Reg(F.e), Types[ti])

handleCallIndirect(J, ti) == CallChecked(LoadCallee(makeReusableValue(pop(J, 1), Opnd(J, 1))), ti)

(* The delta is copied, but the subtraction reads the original expression. *)
SetGas(J) == Stmt(J, [m |-> "setgas", a |-> Reg(J.e)], <<J.e>>)
SubtractGas(G, delta) ==
  LET checked == BrIfException(CompareLast(makeReusableValue(G, delta), "lt_u", "I64", G.e), "GasLimitExceeded")
  IN SetGas(createExpr(checked, "sub", "I64", 0, <<G.e, delta>>))
handleGasCall(J) ==
  pop(SubtractGas(getInstanceElement(Check(J, OpndType(J, 1) = "I64"), "gas", 0, <<>>), Opnd(J, 1)), 1)

(***************************************************************************)
(* Parametric, variable and memory instructions.                           *)
(***************************************************************************)
(* cond, then the two values below it, already popped into a (second) and b. *)
handleSelect(J, cond, a, b, t) == push(createExpr(J, "select", t, 0, <<a, b, cond>>), t)

handleGetLocal(J, n, t) == push(protectUnsafeValue(J, VarExpr(n)), t)
handleSetLocal(J, n) == dassign(J, n, Opnd(J, 1))

protectLast(J) == protectUnsafeValue(J, J.e)

handleGetGlobal(J, n) == push(protectLast(getInstanceElement(J, "glob", n, <<>>)), Globals[n].type)
handleSetGlobal(J, n) == pop(Stmt(J, [m |-> "setglob", n |-> n, a |-> Reg(Opnd(J, 1))], <<Opnd(J, 1)>>), 1)

handleMemorySize(J) == push(protectLast(getInstanceElement(J, "pages", 0, <<>>)), "I32")

handleMemoryGrow(J) ==
  LET V == createVariable(pop(J, 1))
      G == Stmt(V, [m |-> "grow", d |-> V.n, a |-> Reg(Opnd(J, 1))], <<Opnd(J, 1)>>)
  IN push([updateMemoryBaseAndSize(G) EXCEPT !.e = V.e], "I32")

(* Bounds check and address of an access of w bytes at base + offset.  An  *)
(* access is [J, mb, idx, disp]: memory base, index (none: the base is a   *)
(* constant folded into the displacement) and signed 32-bit displacement.  *)
AddLast(J, mbase) == createExpr(J, "add", "PTR", 0, <<VarExpr(mbase), J.e>>)
Location(J, mb, idx, disp) == [J |-> Check(J, J.mbase # 0), mb |-> mb, idx |-> idx, disp |-> disp]
(* A displacement beyond 31 bits is split between the base and the access. *)
Displaced(C, idx, disp) ==
  IF disp <= Int32Max THEN Location(C, VarExpr(C.mbase), idx, disp)
  ELSE LET B == AddLast(createConst(C, "PTR", Int32Max + 1), C.mbase)
       IN Location(B, B.e, idx, disp - (Int32Max + 1))
(* The index is in the variable created last. *)
Indexed(A, base, offset, w) ==
  LET check == IF IsConst(base) THEN [m |-> "memchk", a |-> <<Reg(VarExpr(A.msize))>>, n |-> base.x + offset + w]
               ELSE [m |-> "memchk", a |-> <<Reg(VarExpr(A.msize)), Reg(A.e)>>, n |-> offset + w]
  IN Displaced(Emit(A, check), <<A.e>>, offset)

(* The check of a constant base uses the sum, whichever way the access goes. *)
getMemoryLocation(J, base, offset, w) ==
  LET sum == base.x + offset
  IN IF IsConst(base) /\ sum <= Int32Max
     THEN Displaced(Emit(J, [m |-> "memchk", a |-> <<Reg(VarExpr(J.msize))>>, n |-> sum + w]), <<>>, sum)
     ELSE Indexed(makeReusableValue(J, base), base, offset, w)

LoadFrom(L, i) == protectLast(createExpr(L.J, "load", i.t, [w |-> i.w, s |-> i.s, disp |-> L.disp], <<L.mb>> \o L.idx))
handleLoad(J, i) == push(LoadFrom(getMemoryLocation(pop(J, 1), Opnd(J, 1), i.n, i.w), i), i.t)

StoreTo(L, i, v) ==
  LET es == <<v, L.mb>> \o L.idx
  IN Stmt(L.J, [m |-> "store", w |-> i.w, disp |-> L.disp, a |-> [k \in DOMAIN es |-> Reg(es[k])]], es)
handleStore(J, i) == StoreTo(getMemoryLocation(Check(pop(J, 2), OpndType(J, 1) = i.t), Opnd(J, 2), i.n, i.w), i, Opnd(J, 1))

(***************************************************************************)
(* Numeric instructions.                                                   *)
(***************************************************************************)
(* Division is never lazy: operands and result go through variables, zero  *)
(* and the signed minimum by -1 are tested first.                          *)
(* The signed minimum by -1: J.e says that the dividend is not the minimum. *)
TestMinusOne(J, t, r, normal) == CompareConst(BrIf(createBasicBlock(J), J.e, normal, 0), "eq", t, r, Mod(t) - 1)
DivideMinimum(J, normal) == Br(BrIfException(J, "IntegerOverflow"), normal)
RemainderMinimum(J, t, res, normal) ==
  BrIf(createBasicBlock(assignLast(createConst(J, t, 0), res)), J.e, normal + 1, normal)

AtMinimum(J, i, res, normal) ==
  setInsertBlock(IF i.f = "div_s" THEN DivideMinimum(J, normal) ELSE RemainderMinimum(J, i.t, res, normal), normal)
SignedChecks(J, i, l, r, res, normal) ==
  IF i.f \notin {"div_s", "rem_s"} THEN J
  ELSE AtMinimum(TestMinusOne(CompareConst(J, "ne", i.t, l, Half(i.t)), i.t, r, normal), i, res, normal)

JoinRemainder(J, i, normal) == IF i.f = "rem_s" THEN setInsertBlock(Br(J, normal + 1), normal + 1) ELSE J
(* B has just created the variable of the result. *)
Quotient(B, i, l, r) ==
  LET normal == NumBlocks(B) + 1
      D == assignLast(createExpr(SignedChecks(B, i, l, r, B.n, normal), i.f, i.t, 0, <<l, r>>), B.n)
  IN push([JoinRemainder(D, i, normal) EXCEPT !.e = VarExpr(B.n)], i.t)

DivideBy(R, i, l) ==
  Quotient(createVariable(BrIfException(CompareConst(R, "eq", i.t, R.e, 0), "IntegerDivByZero")), i, l, R.e)
Divided(L, i, divisor) == DivideBy(makeReusableValue(L, divisor), i, L.e)
handleIDiv(J, i) == Divided(makeReusableValue(pop(J, 2), Opnd(J, 2)), i, Opnd(J, 1))

(* A comparison, and the IF, BR_IF or SELECT right behind it with it. *)
Fused(C, next) ==
  LET F == [C EXCEPT !.ip = @ + 1]
  IN CASE next.op = "if" -> handleIf(F, C.e, next.t)
       [] next.op = "br_if" -> handleBranchIf(F, C.e, next.n)
       [] next.op \in {"select", "select_64"} -> handleSelect(pop(F, 2), C.e, Opnd(F, 2), Opnd(F, 1), OpndType(F, 2))
       [] OTHER -> push(C, "I32")
handleCompare(J, i, next) ==
  Fused(IF i.f = "eqz" THEN CompareConst(pop(J, 1), "eq", i.t, Opnd(J, 1), 0)
        ELSE Compare(pop(J, 2), i.f, i.t, Opnd(J, 2), Opnd(J, 1)), next)

handleNumeric(J, i, next) ==
  LET n == NumArgs(i.f)
      K == createExpr(pop(J, n), i.f, i.t, i.from, [k \in 1 .. n |-> Opnd(J, n - k + 1)])
      V == Check(K, i.f \in Conversions => OpndType(J, 1) = i.from)
  IN CASE i.f \in Compares \cup {"eqz"} -> handleCompare(J, i, next)
       [] i.f \in Divs -> handleIDiv(J, i)
       [] i.f \in {"trunc_s", "trunc_u"} -> push(reuseLast(V), i.t)
       [] OTHER -> push(V, i.t)

(***************************************************************************)
(* decode: one opcode at J.ip.                                             *)
(***************************************************************************)
(* After an unconditional transfer the rest of the block is not decoded. *)
SkipDead(J, code) == setReachable([J EXCEPT !.ip = skipCurrentBlock(code, @)], FALSE)

decodeOpcode(J, f, code, i) ==
  CASE i.op = "unreachable" -> SkipDead(handleUnreachable(J), code)
    [] i.op = "nop" -> J
    [] i.op = "block" -> handleBlock(J, i.t)
    [] i.op = "loop" -> handleLoop(J, i.t)
    [] i.op = "if" -> handleIf(pop(J, 1), Opnd(J, 1), i.t)
    [] i.op = "else" -> handleElse(J)
    [] i.op = "end" -> handleEnd(J)
    [] i.op = "br" -> SkipDead(handleBranch(J, i.n), code)
    [] i.op = "br_if" -> handleBranchIf(pop(J, 1), Opnd(J, 1), i.n)
    [] i.op = "br_table" -> SkipDead(handleBranchTable(J, i.tbl), code)
    [] i.op = "return" -> SkipDead(handleReturn(J, FuncType(f).rets), code)
    [] i.op = "call" -> IF Funcs[i.n].kind = "gas" THEN handleGasCall(J) ELSE handleCallBase(J, Imm(i.n), FuncType(i.n))
    [] i.op = "call_indirect" -> handleCallIndirect(J, i.n)
    [] i.op \in {"drop", "drop_64"} -> pop(J, 1)
    [] i.op \in {"select", "select_64"} ->
         handleSelect(Check(pop(J, 3), OpndType(J, 2) = OpndType(J, 3)), Opnd(J, 1), Opnd(J, 3), Opnd(J, 2), OpndType(J, 3))
    [] i.op = "get_local" -> handleGetLocal(J, i.n, LocalTypes(f)[i.n])
    [] i.op = "set_local" -> pop(handleSetLocal(J, i.n), 1)
    [] i.op = "tee_local" -> handleSetLocal(J, i.n)
    [] i.op = "get_global" -> handleGetGlobal(J, i.n)
    [] i.op = "set_global" -> handleSetGlobal(J, i.n)
    [] i.op = "load" -> handleLoad(J, i)
    [] i.op = "store" -> handleStore(J, i)
    [] i.op = "memory_size" -> handleMemorySize(J)
    [] i.op = "memory_grow" -> handleMemoryGrow(J)
    [] i.op = "const" -> push(createConst(J, i.t, i.n), i.t)
    [] i.op = "num" -> handleNumeric(J, i, code[J.ip])

(* initFunction: parameters and locals are the first variables. *)
initFunction(f, usesMemory) ==
  LET ts == LocalTypes(f)
      np == Len(FuncType(f).params)
      J0 == [bb |-> 1, code |-> <<<<>>>>, n |-> Len(ts), done |-> {}, stk |-> <<>>, ctl |-> <<>>, e |-> VarExpr(0),
             ip |-> 1, mbase |-> 0, msize |-> 0, bad |-> FALSE]
      Zero(J, k) == LET K == createConst(J, ts[k], 0) IN dassign(K, k, K.e)
      J1 == createBasicBlock(FoldLeft(Zero, J0, [k \in 1 .. Len(ts) - np |-> np + k]))
      J2 == enterBlock(J1, "func", IF FuncType(f).rets = <<>> THEN "VOID" ELSE FuncType(f).rets[1], 2, 0, <<>>)
      J3 == [J2 EXCEPT !.n = @ + 2, !.mbase = J2.n + 1, !.msize = J2.n + 2]
  IN IF usesMemory THEN updateMemoryBaseAndSize(J3) ELSE J2

RECURSIVE decode(_, _, _)
decode(J, f, code) ==
  IF J.ip > Len(code) THEN handleReturn(J, FuncType(f).rets)
  ELSE decode(decodeOpcode([J EXCEPT !.ip = @ + 1], f, code, code[J.ip]), f, code)

Compiled(R) == [code |-> R.code, n |-> R.n, bad |-> R.bad \/ R.stk # <<>>]
compile(f, entry) == Compiled(decode(initFunction(f, entry.mem), f, entry.code))
=============================================================================

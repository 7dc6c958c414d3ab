--------------------------- MODULE WasmSinglepass ---------------------------
(***************************************************************************)
(* The singlepass JIT for x86-64: WASMByteCodeVisitor over                 *)
(* X64OnePassCodeGen, in the configuration that signals traps in software  *)
(* and checks memory accesses in software.                                 *)
(*                                                                         *)
(* Code is emitted as opcodes are decoded.  A value of the evaluation      *)
(* stack is an operand [k, t, v, tmp]: a register, a slot of the frame     *)
(* (offset from rbp), or an immediate; tmp says that popping it releases   *)
(* its register or slot.  A generator S is                                 *)
(*   code, lab     instructions, and the position each label is bound to   *)
(*   avail         temporary registers not in use                          *)
(*   used, budget  StackUsed and StackBudget of the frame                  *)
(*   stk, ctl, op  evaluation stack, control stack, the operand made last  *)
(*   wr            argument registers already written in this call         *)
(*   bad           an assertion failed                                     *)
(* Frame offsets and sizes count units of 4 bytes.                         *)
(***************************************************************************)
EXTENDS WasmCode, TLC

(* Registers, numbered as in the enumerations GP and FP; the XMM registers
   follow the sixteen general ones.  RegNum is the position within its
   enumeration, which general and XMM registers share. *)
RAX == 0
GasReg == 1           \* rbx
RCX == 2
RDX == 3
RDI == 6
RSI == 7
R10 == 8
R11 == 9
R8 == 10
R9 == 11
MemSizeReg == 12
MemBaseReg == 13
ExceptReg == 14       \* bit 0 of the globals' base
InstReg == 15
XMM0 == 16
XMM8 == 19
XMM3 == 22
NoReg == 99
RegNum(r) == r % 16

isFP(t) == t \in {"F32", "F64"}

(* getTempRegNum, getScopedTemp, getParamRegNum and the return registers of the ABI. *)
TempRegs(t) == IF isFP(t) THEN <<XMM3, XMM3 + 1, XMM3 + 2, XMM3 + 3, XMM3 + 4, XMM8, XMM8 + 1, XMM8 + 2>>
               ELSE <<RSI, RDI, R8, R9, R10, R11>>
ScopedTemp(t, i) == IF isFP(t) THEN XMM0 + i ELSE <<RAX, RCX, RDX>>[i + 1]
ParamRegs(t) == IF isFP(t) THEN <<XMM0, XMM0 + 1, XMM0 + 2, XMM3, XMM3 + 1, XMM3 + 2, XMM3 + 3, XMM3 + 4>>
                ELSE <<RDI, RSI, RDX, RCX, R8, R9>>
RetReg(t) == ScopedTemp(t, 0)

StackIncrement == 8
StackSlot == 2        \* StackAlign of every type
FormalStackOffset == 4

SizeOf(t) == getWASMTypeCellNum(t)
AlignTo(n, a) == ((n + a - 1) \div a) * a

Check(S, ok) == IF ok THEN S ELSE [S EXCEPT !.bad = TRUE]

Void == [k |-> "void", t |-> "VOID", v |-> 0, tmp |-> FALSE]
RegOf(t, r) == [k |-> "reg", t |-> t, v |-> r, tmp |-> FALSE]
Imm(t, v) == [k |-> "imm", t |-> t, v |-> v, tmp |-> FALSE]
Frame(t, off) == [k |-> "frame", t |-> t, v |-> off, tmp |-> FALSE]
OutArg(t, off) == [k |-> "out", t |-> t, v |-> off, tmp |-> FALSE]
GlobalOf(n) == [k |-> "glob", t |-> Globals[n].type, v |-> n, tmp |-> FALSE]
Field(t, name) == [k |-> name, t |-> t, v |-> 0, tmp |-> FALSE]
isMem(o) == o.k \notin {"reg", "imm"}

(***************************************************************************)
(* Layout of locals and arguments.                                         *)
(***************************************************************************)
(* initFunction of the data layout: parameters passed in registers get a   *)
(* slot of the frame, the others stay in the caller's.                     *)
initLayout(f) ==
  LET ts == LocalTypes(f)
      np == Len(FuncType(f).params)
      layoutOne(L, k) ==
        LET t == ts[k]
            idx == IF isFP(t) THEN L.fp + 1 ELSE L.gp + 2
            inReg == k <= np /\ idx <= Len(ParamRegs(t))
            top == AlignTo(L.top, SizeOf(t)) + SizeOf(t)
        IN IF k <= np /\ ~inReg
           THEN [L EXCEPT !.locs = Append(@, Frame(t, L.up)), !.regs = Append(@, NoReg), !.up = @ + StackSlot]
           ELSE [L EXCEPT !.locs = Append(@, Frame(t, -top)), !.top = top,
                          !.regs = Append(@, IF inReg THEN ParamRegs(t)[idx] ELSE NoReg),
                          !.gp = IF inReg /\ ~isFP(t) THEN @ + 1 ELSE @,
                          !.fp = IF inReg /\ isFP(t) THEN @ + 1 ELSE @]
  IN FoldLeft(layoutOne, [locs |-> <<>>, regs |-> <<>>, gp |-> 0, fp |-> 0, top |-> 0, up |-> FormalStackOffset],
              [k \in DOMAIN ts |-> k])

(* ArgumentInfo: register or stack offset of each argument, behind the instance. *)
ArgumentInfo(params) ==
  LET layoutArgument(A, t) ==
        LET n == IF isFP(t) THEN A.fp ELSE A.gp
            inReg == n < Len(ParamRegs(t))
        IN [A EXCEPT !.args = Append(@, IF inReg THEN RegOf(t, ParamRegs(t)[n + 1]) ELSE OutArg(t, A.size)),
                     !.gp = IF inReg /\ ~isFP(t) THEN @ + 1 ELSE @,
                     !.fp = IF inReg /\ isFP(t) THEN @ + 1 ELSE @,
                     !.size = IF inReg THEN @ ELSE @ + StackSlot]
      A == FoldLeft(layoutArgument, [args |-> <<>>, gp |-> 1, fp |-> 0, size |-> 0], params)
  IN [args |-> A.args, size |-> AlignTo(A.size, 4)]

(***************************************************************************)
(* Code, labels, temporaries.                                              *)
(***************************************************************************)
Emit(S, i) == [S EXCEPT !.code = Append(@, i)]
createLabel(S) == [S EXCEPT !.lab = Append(@, 0)]
NewLabel(S) == Len(S.lab)
bindLabel(S, l) == [S EXCEPT !.lab[l] = Len(S.code) + 1]

(* The available temporary register of the least number. *)
AvailTempRegs(S, t) == ToSet(TempRegs(t)) \cap S.avail
hasAvailTempReg(S, t) == AvailTempRegs(S, t) # {}
AvailTempReg(S, t) == Min(AvailTempRegs(S, t))

\* Mutation: a register that is handed out stays available.
clearAvailRegKept(S, r) == Check(S, r \in S.avail)

clearAvailReg(S, r) == Check([S EXCEPT !.avail = @ \ {r}], r \in S.avail)
markAvailReg(S, r) == Check([S EXCEPT !.avail = @ \cup {r}], r \notin S.avail)

getTempStackOperand(S, t) ==
  LET used == AlignTo(S.used, SizeOf(t)) + SizeOf(t)
  IN [S EXCEPT !.used = used, !.budget = IF used > @ THEN @ + StackIncrement ELSE @,
               !.op = [Frame(t, -used) EXCEPT !.tmp = TRUE]]

takeTempReg(S, t) ==
  LET r == AvailTempReg(S, t)
  IN [clearAvailReg(S, r) EXCEPT !.op = [RegOf(t, r) EXCEPT !.tmp = TRUE]]

getTempOperand(S, t) == IF hasAvailTempReg(S, t) THEN takeTempReg(S, t) ELSE getTempStackOperand(S, t)

releaseOperand(S, o) ==
  CASE ~o.tmp -> S
    [] o.tmp /\ o.k = "reg" -> markAvailReg(S, o.v)
    [] o.tmp /\ o.k = "frame" -> [Check(S, -o.v <= S.used) EXCEPT !.used = -o.v - SizeOf(o.t)]

(***************************************************************************)
(* Moves and comparisons.                                                  *)
(***************************************************************************)
Move(S, t, d, s) == Emit(S, [m |-> "mov", t |-> t, d |-> d, s |-> s])

(* Memory to memory goes through a scoped temporary. *)
mov(S, t, d, s, i) ==
  LET r == RegOf(t, ScopedTemp(t, i))
  IN IF isMem(d) /\ isMem(s) THEN Move(Move(S, t, r, s), t, d, r) ELSE Move(S, t, d, s)

makeAssignment(S, t, d, s, i) == Check(mov(S, t, d, s, i), d.t = t /\ s.t = t)

(* Into the operand made last. *)
assignOp(S, s, i) == makeAssignment(S, S.op.t, S.op, s, i)

(* A register already in place is not moved. *)
movReg(S, t, d, r) == IF d.k = "reg" /\ d.v = r THEN S ELSE Move(S, t, d, RegOf(t, r))

RegNumOf(o, t, i) == IF o.k = "reg" THEN o.v ELSE ScopedTemp(t, i)
toReg(S, t, o, i) == IF o.k = "reg" THEN S ELSE Move(S, t, RegOf(t, ScopedTemp(t, i)), o)

(* A value computed into AvailTempReg, or into RAX or XMM0 if there is none and then stored. *)
ResultReg(S, t) == IF hasAvailTempReg(S, t) THEN AvailTempReg(S, t) ELSE ScopedTemp(t, 0)
storeOp(S, t, s) == Move(S, t, S.op, s)
keepResult(S, t) ==
  IF hasAvailTempReg(S, t) THEN takeTempReg(S, t) ELSE storeOp(getTempStackOperand(S, t), t, RegOf(t, ScopedTemp(t, 0)))

(* The register an operation targets whose result operand was allocated first. *)
DestReg(S, t) == IF S.op.k = "reg" THEN S.op.v ELSE ScopedTemp(t, 0)
storeDest(S, t) == IF S.op.k = "reg" THEN S ELSE Move(S, t, S.op, RegOf(t, ScopedTemp(t, 0)))

Exchanged(L, R) == (isMem(L) /\ R.k = "reg") \/ (L.k = "imm" /\ R.k # "imm")

cmp(S, t, L, R) ==
  LET r == RegOf(t, RCX)
      Cmp(T, a, b) == Emit(T, [m |-> "cmp", t |-> t, a |-> a, b |-> b])
  IN CASE Exchanged(L, R) -> Cmp(S, R, L)
       [] ~Exchanged(L, R) /\ L.k # "reg" /\ isMem(L) = isMem(R) -> Cmp(Move(S, t, r, L), r, R)
       [] OTHER -> Cmp(S, L, R)

test(S, o) == Emit(toReg(S, o.t, o, 1), [m |-> "cmp", t |-> o.t, a |-> RegOf(o.t, RegNumOf(o, o.t, 1)), b |-> Imm(o.t, 0)])

\* Mutation: the operands are exchanged, the operator is not.
getExchangedCompareOperatorKept(f) == f

getExchangedCompareOperator(f) ==
  CASE f = "lt_s" -> "gt_s" [] f = "gt_s" -> "lt_s" [] f = "le_s" -> "ge_s" [] f = "ge_s" -> "le_s"
    [] f = "lt_u" -> "gt_u" [] f = "gt_u" -> "lt_u" [] f = "le_u" -> "ge_u" [] f = "ge_u" -> "le_u"
    [] OTHER -> f

Negated(f) ==
  CASE f = "eq" -> "ne" [] f = "ne" -> "eq"
    [] f = "lt_s" -> "ge_s" [] f = "ge_s" -> "lt_s" [] f = "le_s" -> "gt_s" [] f = "gt_s" -> "le_s"
    [] f = "lt_u" -> "ge_u" [] f = "ge_u" -> "lt_u" [] f = "le_u" -> "gt_u" [] f = "gt_u" -> "le_u"

(* The comparison of an instruction; eqz has no right operand. *)
makeComparison(S, i, L, R) == IF i.f = "eqz" THEN test(Check(S, L.t = i.t), L) ELSE cmp(Check(S, L.t = i.t), i.t, L, R)
Condition(i, L, R) == CASE i.f = "eqz" -> "eq"
                        [] i.f # "eqz" /\ Exchanged(L, R) -> getExchangedCompareOperator(i.f)
                        [] OTHER -> i.f

jmp(S, l) == Emit(S, [m |-> "jcc", f |-> "always", l |-> l])
jcc(S, f, l) == Emit(S, [m |-> "jcc", f |-> f, l |-> l])
(* A jump to the except label of e. *)
jexc(S, f, e) == Emit(S, [m |-> "jexc", f |-> f, e |-> e])

branchTo(S, cond, l, sense) ==
  CASE cond.k # "imm" -> jcc(test(S, cond), IF sense THEN "ne" ELSE "eq", l)
    [] cond.k = "imm" /\ (cond.v # 0) = sense -> jmp(S, l)
    [] OTHER -> S

(***************************************************************************)
(* Evaluation stack and control stack.                                     *)
(***************************************************************************)
push(S) == Check([S EXCEPT !.stk = Append(@, S.op)], S.op.t # "VOID" /\ (S.op.k = "reg" => S.op.tmp))
Opnd(S, k) == S.stk[Len(S.stk) - k + 1]

(* Operands are released when they are popped, before the handler uses them. *)
RECURSIVE pop(_, _)
pop(S, k) ==
  IF k = 0 THEN S
  ELSE IF S.stk = <<>> THEN Check(S, FALSE)
  ELSE pop([releaseOperand(S, Last(S.stk)) EXCEPT !.stk = Front(@)], k - 1)

getBlockInfo(S, level) == S.ctl[Len(S.ctl) - level]
getCurrentBlockInfo(S) == getBlockInfo(S, 0)
setReachable(S, v) == [S EXCEPT !.ctl[Len(S.ctl)].reach = v]

(* The label lab (and lab + 1 for an ELSE) is already created. *)
enterBlock(S, kind, t, lab) ==
  LET T == IF t = "VOID" THEN [S EXCEPT !.op = Void] ELSE getTempStackOperand(S, t)
  IN [T EXCEPT !.ctl = Append(@, [kind |-> kind, t |-> t, res |-> T.op, size |-> Len(S.stk), lab |-> lab,
                                  hasElse |-> FALSE, reach |-> TRUE])]

verifyCtrlInstValType(S, info, jumpBack) ==
  getCurrentBlockInfo(S).reach =>
    IF info.t = "VOID" \/ jumpBack THEN info.size <= Len(S.stk)
    ELSE info.size + 1 <= Len(S.stk) /\ Opnd(S, 1).t = info.t

AssignBranchResult(S, info) ==
  LET back == info.kind = "loop"
      T == Check(S, verifyCtrlInstValType(S, info, back))
  IN IF info.t # "VOID" /\ ~back THEN makeAssignment(T, info.t, info.res, Opnd(S, 1), 0) ELSE T

(***************************************************************************)
(* Control instructions.                                                   *)
(***************************************************************************)
handleBlock(S, t) == LET L == createLabel(S) IN enterBlock(L, "block", t, NewLabel(L))

handleLoop(S, t) ==
  LET L == createLabel(S)
  IN bindLabel(enterBlock(L, "loop", t, NewLabel(L)), NewLabel(L))

(* cond is popped, so the result's slot may be the one cond is in. *)
handleIf(S, cond, t) ==
  LET L == createLabel(createLabel(S))
  IN branchTo(enterBlock(L, "if", t, NewLabel(L) - 1), cond, NewLabel(L), FALSE)

handleElse(S) ==
  LET info == getCurrentBlockInfo(S)
      V == Check(S, verifyCtrlInstValType(S, info, FALSE) /\ info.kind = "if")
      A == IF info.t # "VOID" /\ info.reach THEN makeAssignment(pop(V, 1), info.t, info.res, Opnd(V, 1), 0) ELSE V
      B == bindLabel(jmp(A, info.lab), info.lab + 1)
  IN [B EXCEPT !.ctl[Len(B.ctl)].hasElse = TRUE, !.ctl[Len(B.ctl)].reach = TRUE]

(* What an unconditional branch left on the stack is dropped without being *)
(* released.                                                               *)
handleEnd(S) ==
  LET info == getCurrentBlockInfo(S)
      V == Check(S, verifyCtrlInstValType(S, info, FALSE))
      A == IF info.t # "VOID" /\ info.reach THEN makeAssignment(pop(V, 1), info.t, info.res, Opnd(V, 1), 0) ELSE V
      D == [A EXCEPT !.stk = IF Len(@) > info.size THEN SubSeq(@, 1, info.size) ELSE @]
      B == IF info.kind = "if" /\ ~info.hasElse THEN bindLabel(D, info.lab + 1) ELSE D
      E == [IF info.kind = "loop" THEN B ELSE bindLabel(B, info.lab) EXCEPT !.ctl = Front(@), !.op = info.res]
  IN IF info.t = "VOID" THEN E ELSE push(E)

handleBranch(S, level) ==
  LET info == getBlockInfo(S, level)
  IN jmp(AssignBranchResult(S, info), info.lab)

handleBranchIf(S, cond, level) ==
  LET info == getBlockInfo(S, level)
  IN branchTo(AssignBranchResult(S, info), cond, info.lab, TRUE)

(* Compares for up to four entries, otherwise a table; each entry's own    *)
(* label then assigns the result and jumps to the block.                   *)
handleBranchTableImpl(S, index, base, bound) ==
  LET r == RegOf("I32", RegNumOf(index, "I32", 1))
      Cmp(T, k) == Emit(T, [m |-> "cmp", t |-> "I32", a |-> r, b |-> Imm("I32", k)])
      D == jcc(Cmp(toReg(S, "I32", index, 1), bound), "ge_u", base + bound)
      IndexImm == IF index.v < bound THEN index.v ELSE bound
  IN CASE index.k = "imm" -> jmp(S, base + IndexImm)
       [] index.k # "imm" /\ bound \in 1 .. 4 ->
            FoldLeft(LAMBDA T, k : jcc(Cmp(T, bound - k), "eq", base + bound - k), D, [k \in 1 .. bound |-> k])
       [] OTHER -> Emit(D, [m |-> "jtab", a |-> r, l |-> base, n |-> bound + 1])

handleBranchTable(S, tbl) ==
  LET P == pop(S, 1)
      n == Len(tbl)
      L == FoldLeft(LAMBDA T, l : createLabel(T), P, tbl)
      base == NewLabel(P) + 1
      Entry(T, k) ==
        LET info == getBlockInfo(T, tbl[k])
            B == bindLabel(T, base + k - 1)
            A == IF info.t # "VOID" /\ info.kind # "loop" THEN makeAssignment(B, info.t, info.res, Opnd(P, 1), 0) ELSE B
        IN jmp(A, info.lab)
  IN FoldLeft(Entry, handleBranchTableImpl(L, Opnd(S, 1), base, n - 1), [k \in 1 .. n |-> k])

emitEpilog(S, o) ==
  LET G == Move(S, "I64", Field("I64", "gas"), RegOf("I64", GasReg))
      A == IF o.t = "VOID" THEN G ELSE mov(G, o.t, RegOf(o.t, RetReg(o.t)), o, 0)
  IN Emit(A, [m |-> "ret"])

handleReturn(S, rets) ==
  IF rets = <<>> THEN emitEpilog(S, Void)
  ELSE IF S.stk = <<>> THEN Check(S, FALSE)
  ELSE emitEpilog(Check(pop(S, 1), Opnd(S, 1).t = rets[1]), Opnd(S, 1))

(***************************************************************************)
(* Calls.                                                                  *)
(***************************************************************************)
(* An argument still in the register another one is moved to goes first; the
   registers' numbers are compared, not their kinds. *)
RECURSIVE sortMovs(_, _, _, _, _)
sortMovs(infos, args, ord, i, j) ==
  CASE i > Len(ord) -> ord
    [] i <= Len(ord) /\ j > Len(ord) -> sortMovs(infos, args, ord, i + 1, i + 2)
    [] i <= Len(ord) /\ j <= Len(ord) ->
         LET swap == args[ord[j]].k = "reg" /\ RegNum(args[ord[j]].v) = RegNum(infos[ord[i]].v)
         IN sortMovs(infos, args, IF swap THEN [ord EXCEPT ![i] = ord[j], ![j] = ord[i]] ELSE ord, i, j + 1)

copyParam(S, info, arg) ==
  LET V == Check(S, arg.t = info.t /\ (arg.k = "reg" => arg.v \notin S.wr))
      A == makeAssignment(V, info.t, info, arg, 1)
  IN IF info.k = "reg" THEN [A EXCEPT !.wr = @ \cup {info.v}] ELSE A

\* Mutation: the temporaries in use are not kept across a call.
SavedRegsNone(S, size) == [size |-> size, slots |-> <<>>]

(* Temporaries in use, general ones from the top of the area down, then XMM. *)
SavedRegs(S, size) ==
  LET gp == SelectSeq(TempRegs("I64"), LAMBDA r : r \notin S.avail)
      fp == SelectSeq(TempRegs("F64"), LAMBDA r : r \notin S.avail)
      area == 2 * AlignTo(Len(gp), 2)
  IN [size |-> area + 4 * Len(fp) + size,
      slots |-> [k \in 1 .. Len(gp) |-> <<RegOf("I64", gp[k]), OutArg("I64", area + 4 * Len(fp) + size - 2 * k)>>]
                \o [k \in 1 .. Len(fp) |-> <<RegOf("F64", fp[k]), OutArg("F64", 4 * Len(fp) + size - 4 * k)>>]]

subStackPointer(S, n) == IF n = 0 THEN S ELSE Emit(S, [m |-> "rsp", n |-> -n])
addStackPointer(S, n) == IF n = 0 THEN S ELSE Emit(S, [m |-> "rsp", n |-> n])

fetchResult(S, rets) ==
  IF rets = <<>> THEN [S EXCEPT !.op = Void]
  ELSE assignOp(getTempOperand(S, rets[1]), RegOf(rets[1], RetReg(rets[1])), 1)

saveGasVal(S) == Move(S, "I64", Field("I64", "gas"), RegOf("I64", GasReg))
loadGasVal(S) == Move(S, "I64", RegOf("I64", GasReg), Field("I64", "gas"))

(* Label 1 is the exception exit.  A Wasm callee reports in bit 0 of r14,  *)
(* an imported one in the instance.                                        *)
ExceptionExitLabel == 1
checkCallException(S, isImport) ==
  LET o == IF isImport THEN Field("I32", "err") ELSE RegOf("I64", ExceptReg)
  IN jcc(Emit(S, [m |-> "cmp", t |-> o.t, a |-> o, b |-> Imm(o.t, 0)]), "ne", ExceptionExitLabel)

(* The ft.params operands on top of the stack, first parameter first. *)
CallArgs(S, ft) == <<>> \o [k \in DOMAIN ft.params |-> Opnd(S, Len(ft.params) - k + 1)]
pushResult(S) == IF S.op.t = "VOID" THEN S ELSE push(S)

emitTableGet(S, elem) ==
  LET size == Field("I32", "tblsize")
      rax == RegOf("I32", RAX)
      Cmp(T, a) == jexc(Emit(T, [m |-> "cmp", t |-> "I32", a |-> a, b |-> elem]), "le_u", "UndefinedElement")
      Get(T, o) == Emit(T, [m |-> "tblelem", s |-> o])
  IN IF isMem(elem) THEN Get(Move(Cmp(Move(S, "I32", rax, size), rax), "I32", rax, elem), rax)
     ELSE Get(Cmp(S, size), elem)

(* What is called: function f, the table's element at operand elem, which  *)
(* must have type ti, or the growing of the memory.                        *)
Function(f) == [k |-> "function", f |-> f]
Element(ti, elem) == [k |-> "element", ti |-> ti, elem |-> elem]
Grow == [k |-> "grow"]

PreCall(S, callee) ==
  CASE callee.k = "function" -> saveGasVal(S)
    [] callee.k = "element" ->
         LET E == emitTableGet(saveGasVal(S), callee.elem)
             U == jexc(Emit(E, [m |-> "cmp", t |-> "I32", a |-> RegOf("I32", RAX), b |-> Imm("I32", NoFunc)]), "eq", "UninitializedElement")
         IN jexc(Emit(U, [m |-> "cmptype", n |-> SmallestTypeIdx(callee.ti)]), "ne", "IndirectCallTypeMismatch")
    [] callee.k = "grow" -> S

(* The registers holding the memory's size and base are reloaded unless    *)
(* growing failed.                                                         *)
GenCall(S, callee) ==
  CASE callee.k = "function" -> Emit(S, [m |-> "call", f |-> callee.f])
    [] callee.k = "element" -> Emit(S, [m |-> "callrax"])
    [] callee.k = "grow" ->
         LET L == createLabel(Emit(S, [m |-> "grow"]))
             F == jcc(Emit(L, [m |-> "cmp", t |-> "I32", a |-> RegOf("I32", RAX), b |-> Imm("I32", 0)]), "lt_s", NewLabel(L))
             Z == Move(F, "PTR", RegOf("PTR", MemSizeReg), Field("PTR", "msize"))
         IN bindLabel(Move(Z, "PTR", RegOf("PTR", MemBaseReg), Field("PTR", "mbase")), NewLabel(L))

PostCall(S, callee) ==
  CASE callee.k = "function" -> checkCallException(loadGasVal(S), Funcs[callee.f].kind = "host")
    [] callee.k = "element" -> checkCallException(loadGasVal(S), TRUE)
    [] callee.k = "grow" -> S

(* The arguments are popped, so their registers are not among those saved. *)
emitCall(S, ft, args, callee) ==
  LET info == ArgumentInfo(ft.params)
      saved == SavedRegs(S, info.size)
      all == <<>> \o [k \in DOMAIN args |-> k]
      onStack == SelectSeq(all, LAMBDA k : info.args[k].k = "out")
      inReg == SelectSeq(all, LAMBDA k : info.args[k].k = "reg")
      Save(T, x) == Move(T, x[1].t, x[2], x[1])
      Restore(T, x) == Move(T, x[1].t, x[1], x[2])
      Copy(T, k) == copyParam(T, info.args[k], args[k])
      A == FoldLeft(Save, subStackPointer([S EXCEPT !.wr = {}], saved.size), saved.slots)
      B == FoldLeft(Copy, PreCall(A, callee), onStack \o sortMovs(info.args, args, inReg, 1, 2))
      C == GenCall(Move(B, "I64", RegOf("I64", RDI), RegOf("I64", InstReg)), callee)
  IN PostCall(addStackPointer(FoldLeft(Restore, fetchResult(C, ft.rets), saved.slots), saved.size), callee)

handleCall(S, f) ==
  LET ft == FuncType(f)
  IN pushResult(emitCall(pop(S, Len(ft.params)), ft, CallArgs(S, ft), Function(f)))

handleCallIndirect(S, ti) ==
  LET ft == Types[ti]
      P == pop(S, 1)
  IN pushResult(emitCall(pop(P, Len(ft.params)), ft, CallArgs(P, ft), Element(ti, Opnd(S, 1))))

handleMemoryGrow(S) ==
  push(emitCall(pop(S, 1), [params |-> <<"I32">>, rets |-> <<"I32">>], <<Opnd(S, 1)>>, Grow))

handleGasCall(S) ==
  jexc(Emit(pop(S, 1), [m |-> "alu", f |-> "sub", t |-> "I64", d |-> GasReg, s |-> Opnd(S, 1)]), "lt_u", "GasLimitExceeded")

(***************************************************************************)
(* Parametric, variable and memory instructions.                           *)
(***************************************************************************)
(* Conditional moves into the register of LHS, or of RHS, or into RAX. *)
selectWithCMov(S, cond, L, R) ==
  LET t == L.t
      reuse == CASE L.k = "reg" /\ L.tmp -> L [] ~(L.k = "reg" /\ L.tmp) /\ R.k = "reg" /\ R.tmp -> R [] OTHER -> Void
      first == CASE reuse # Void -> reuse [] reuse = Void /\ L.k = "imm" -> L [] OTHER -> R
      other == IF first = L THEN R ELSE L
      r == IF reuse = Void THEN RAX ELSE reuse.v
      Into(U) == IF reuse = Void THEN Move(U, t, RegOf(t, RAX), first) ELSE clearAvailReg(U, r)
      Other(U) == IF other.k = "imm" THEN Move(U, t, RegOf(t, RCX), other) ELSE U
      C == Emit(Other(Into(test(S, cond))), [m |-> "cmov", f |-> IF first = L THEN "eq" ELSE "ne", t |-> t, d |-> r,
                    s |-> IF other.k = "imm" THEN RegOf(t, RCX) ELSE other])
      Keep(U) == IF reuse # Void THEN [U EXCEPT !.op = reuse] ELSE storeOp(getTempOperand(U, t), t, RegOf(t, RAX))
  IN Keep(C)

(* LHS into a scoped temporary, RHS over it unless the branch on cc is     *)
(* taken; a void cond means that the flags are already set.                *)
SelectWithBranch(S, cond, cc, L, R) ==
  LET t == L.t
      T == createLabel(getTempOperand(S, t))
      r == RegOf(t, ScopedTemp(t, 0))
      A == Move(T, t, r, L)
      B == jcc(IF cond.t = "VOID" THEN A ELSE test(A, cond), cc, NewLabel(T))
  IN mov(bindLabel(Move(B, t, r, R), NewLabel(T)), t, T.op, r, 0)

selectWithIf(S, cond, L, R) == SelectWithBranch(S, cond, "ne", L, R)
fusedCompareSelectWithIf(S, cc, L, R) == SelectWithBranch(S, Void, cc, L, R)

handleSelect(S, cond, L, R) ==
  LET V == Check(S, L.t = R.t)
  IN push(IF isFP(L.t) THEN selectWithIf(V, cond, L, R) ELSE selectWithCMov(V, cond, L, R))

ReadVariable(S, v) == push(assignOp(getTempOperand(S, v.t), v, 0))
WriteVariable(S, v, o) == makeAssignment(S, v.t, v, o, 0)

handleMemorySize(S) ==
  LET Pages(T) == IF T.op.k = "reg" THEN Emit(T, [m |-> "pages", d |-> T.op.v])
                  ELSE storeOp(Emit(T, [m |-> "pages", d |-> RCX]), "I32", RegOf("I32", RCX))
  IN push(Pages(getTempOperand(S, "I32")))

(* offset + w wraps to 32 bits; a wrapped sum traps whatever the base is. *)
checkMemoryOverflow(S, base, offset, w) ==
  LET sum == Wrap("I32", offset + w)
      J == IF sum < w THEN jexc(S, "always", "OutOfBoundsMemory") ELSE S
      A == Move(J, "I32", RegOf("I32", RAX), base)
      C == jexc(Emit(A, [m |-> "alu", f |-> "add", t |-> "I32", d |-> RAX, s |-> Imm("I32", sum)]), "carry", "OutOfBoundsMemory")
      M == Emit(C, [m |-> "cmp", t |-> "I32", a |-> RegOf("I32", RAX), b |-> RegOf("I32", MemSizeReg)])
  IN jexc(M, "gt_u", "OutOfBoundsMemory")

(* [S, b, x, disp]: the address is b + x + disp, with 64-bit registers. *)
MemoryAddress(S, base, offset) ==
  LET fold == base.k = "imm" /\ offset + base.v <= Int32Max
      x == IF base.k = "reg" THEN base.v ELSE RCX
      A == IF fold \/ base.k = "reg" THEN S ELSE Move(S, "I32", RegOf("I32", RCX), base)
      Add(T, r) == Emit(T, [m |-> "alu", f |-> "add", t |-> "PTR", d |-> RDX, s |-> RegOf("PTR", r)])
      F == Add(Add(Move(A, "I32", RegOf("I32", RDX), Imm("I32", offset)), x), MemBaseReg)
  IN CASE fold -> [S |-> A, b |-> MemBaseReg, x |-> NoReg, disp |-> offset + base.v]
       [] ~fold /\ offset > Int32Max -> [S |-> F, b |-> RDX, x |-> NoReg, disp |-> 0]
       [] OTHER -> [S |-> A, b |-> MemBaseReg, x |-> x, disp |-> offset]

handleLoad(S, i) ==
  LET base == Opnd(S, 1)
      From(A) == Emit(A.S, [m |-> "load", t |-> i.t, w |-> i.w, s |-> i.s, d |-> ResultReg(A.S, i.t), b |-> A.b, x |-> A.x, disp |-> A.disp])
  IN push(keepResult(From(MemoryAddress(checkMemoryOverflow(Check(pop(S, 1), base.t = "I32"), base, i.n, i.w), base, i.n)), i.t))

handleStore(S, i) ==
  LET base == Opnd(S, 2)
      val == Opnd(S, 1)
      r == RegOf(i.t, ScopedTemp(i.t, 0))
      To(A) == Emit(IF isMem(val) THEN Move(A.S, i.t, r, val) ELSE A.S,
                    [m |-> "store", t |-> i.t, w |-> i.w, s |-> IF isMem(val) THEN r ELSE val, b |-> A.b, x |-> A.x, disp |-> A.disp])
  IN To(MemoryAddress(checkMemoryOverflow(Check(pop(S, 2), base.t = "I32" /\ val.t = i.t), base, i.n, i.w), base, i.n))

(***************************************************************************)
(* Numeric instructions.                                                   *)
(***************************************************************************)
(* A 64-bit constant is an immediate if it is a sign-extended 32-bit one;  *)
(* float constants live in the frame.                                      *)
handleConst(S, t, v) ==
  LET fits == t = "I32" \/ (t = "I64" /\ Signed(t, v) \in -Half("I32") .. Half("I32") - 1)
      F == getTempStackOperand(S, t)
  IN push(CASE fits -> [S EXCEPT !.op = Imm(t, v)]
            [] ~fits /\ t = "I64" -> keepResult(Move(S, t, RegOf(t, ResultReg(S, t)), Imm(t, v)), t)
            [] OTHER -> Move(F, t, F.op, Imm(t, v)))

handleBinaryOp(S, i, L, R) ==
  LET r == RegNumOf(L, i.t, 0)
      count == i.f \in Shifts /\ R.k # "imm"
      A == toReg(S, i.t, L, 0)
      B == IF count THEN Move(A, i.t, RegOf(i.t, RCX), R) ELSE A
      C == Emit(B, [m |-> "alu", f |-> i.f, t |-> i.t, d |-> r, s |-> IF count THEN RegOf(i.t, RCX) ELSE R])
      T == getTempOperand(C, i.t)
  IN push(movReg(T, i.t, T.op, r))

handleBitCountOp(S, i, o) ==
  LET T == getTempOperand(S, i.t)
      d == DestReg(T, i.t)
  IN push(storeDest(Emit(Move(T, i.t, RegOf(i.t, d), o), [m |-> "count", f |-> i.f, t |-> i.t, d |-> d]), i.t))

handleIDiv(S, i, L, R) ==
  LET t == i.t
      signed == i.f \in {"div_s", "rem_s"}
      rem == i.f \in {"rem_s", "rem_u"}
      T == getTempOperand(S, t)
      res == T.op
      Labels == createLabel(createLabel(T))
      normal == NewLabel(Labels) - 1
      end == NewLabel(Labels)
      (* 64-bit constants are compared through RAX. *)
      NotEqual(U, o, v) ==
        LET k == IF t = "I32" THEN Imm(t, v) ELSE RegOf(t, RAX)
        IN jcc(cmp(IF t = "I32" THEN U ELSE Move(U, t, k, Imm(t, v)), t, o, k), "ne", normal)
      Both == NotEqual(NotEqual(Labels, L, Half(t)), R, Mod(t) - 1)
      Special == IF rem THEN jmp(Move(Both, t, res, Imm(t, 0)), end) ELSE jexc(Both, "always", "IntegerOverflow")
      N == IF signed THEN bindLabel(Special, normal) ELSE T
      A == Move(jexc(cmp(N, t, R, Imm(t, 0)), "eq", "IntegerDivByZero"), t, RegOf(t, RAX), L)
      D == Emit(toReg(A, t, R, 1), [m |-> "div", f |-> i.f, t |-> t, s |-> RegNumOf(R, t, 1)])
      M == mov(D, t, res, RegOf(t, IF rem THEN RDX ELSE RAX), 0)
  IN push([IF signed /\ rem THEN bindLabel(M, end) ELSE M EXCEPT !.op = res])

handleCompareOp(S, i, L, R) ==
  LET C == makeComparison(S, i, L, R)
  IN push(keepResult(Emit(C, [m |-> "setcc", f |-> Condition(i, L, R), d |-> ResultReg(C, "I32")]), "I32"))

(* A comparison, fused with the IF, BR_IF or SELECT right behind it. *)
handleCompare(S, i, next) ==
  LET eqz == i.f = "eqz"
      P == pop(S, IF eqz THEN 1 ELSE 2)
      F == [P EXCEPT !.ip = @ + 1]
      L == IF eqz THEN Opnd(S, 1) ELSE Opnd(S, 2)
      R == IF eqz THEN Void ELSE Opnd(S, 1)
      cc == Condition(i, L, R)
      Labels == createLabel(createLabel(F))
      info == getBlockInfo(F, next.n)
      Sel == fusedCompareSelectWithIf(makeComparison(pop(F, 2), i, L, R), cc, Opnd(F, 2), Opnd(F, 1))
  IN CASE next.op = "if" ->
            jcc(makeComparison(enterBlock(Labels, "if", next.t, NewLabel(Labels) - 1), i, L, R), Negated(cc), NewLabel(Labels))
       [] next.op = "br_if" -> jcc(makeComparison(AssignBranchResult(F, info), i, L, R), cc, info.lab)
       [] next.op \in {"select", "select_64"} -> push(Check(Sel, Opnd(F, 1).t = Opnd(F, 2).t))
       [] OTHER -> handleCompareOp(P, i, L, R)

handleIntExtend(S, i, o) ==
  LET T == getTempOperand(S, i.t)
      w == CASE i.f = "extend8_s" -> 1 [] i.f = "extend_low_s" -> Bytes(i.t) \div 2 [] OTHER -> Bytes("I32")
      A == IF o.k = "imm" THEN Move(T, o.t, RegOf(o.t, RCX), o) ELSE T
  IN push(storeDest(Emit(A, [m |-> "extend", t |-> i.t, d |-> DestReg(T, i.t), s |-> IF o.k = "imm" THEN RegOf(o.t, RCX) ELSE o,
                             w |-> w, sx |-> i.f # "extend_u"]), i.t))

(* The 32-bit move stays even onto the same register: it clears the upper half. *)
handleIntTrunc(S, i, o) ==
  LET T == getTempOperand(toReg(S, "I64", o, 0), "I32")
  IN push(Move(T, "I32", T.op, RegOf("I32", RegNumOf(o, "I64", 0))))

handleBitcast(S, i, o) ==
  LET A == toReg(S, o.t, o, 0)
      T == getTempOperand(Move(A, i.t, RegOf(i.t, ScopedTemp(i.t, 0)), RegOf(o.t, RegNumOf(o, o.t, 0))), i.t)
  IN push(movReg(T, i.t, T.op, ScopedTemp(i.t, 0)))

(* Bounds in halves, as FloatHalves: int_max is 2^(n-1), int_min the next  *)
(* value below -2^(n-1), or -2^(n-1) - 1 where the format has it.          *)
int_max(t) == 2 * Half(t)
int_min(from, t) ==
  IF from = "F64" /\ t = "I32" THEN -2 * (Half(t) + 1)
  ELSE Max({h \in {FloatHalves(from, v) : v \in Half(from) + 1 .. Mod(from) - 1} : h < -int_max(t)})

handleFloatToInt(S, i, o) ==
  LET t == i.t
      T == getTempOperand(S, t)
      d == DestReg(T, t)
      r == RegNumOf(o, o.t, 0)
      A == toReg(T, o.t, o, 0)
      fin == NewLabel(T) + 1
      Fcmp(U, a, b) == Emit(U, [m |-> "fcmp", t |-> o.t, a |-> a, b |-> b])
      Convert(U, bias) == Emit(U, [m |-> "cvtt", t |-> t, from |-> o.t, d |-> d, s |-> r, bias |-> bias])
      Cmp(U, v) == Emit(U, [m |-> "cmp", t |-> t, a |-> RegOf(t, d), b |-> Imm(t, v)])
      x == RegOf(o.t, r)
      h(v) == Imm("F64", v)
      S1 == jcc(Cmp(Convert(createLabel(A), 0), 1), "no", fin)
      S2 == jexc(Fcmp(S1, x, x), "p", "InvalidConversionToInteger")
      S3 == jexc(Fcmp(S2, x, h(int_min(o.t, t))), "le_u", "IntegerOverflow")
      S4 == jexc(Fcmp(S3, h(0), x), "lt_u", "IntegerOverflow")
      U1 == jcc(Fcmp(createLabel(createLabel(A)), x, h(int_max(t))), "ge_u", fin + 1)
      U2 == Cmp(Convert(jexc(U1, "p", "InvalidConversionToInteger"), 0), 0)
      U3 == jexc(jcc(U2, "ge_s", fin), "always", "IntegerOverflow")
      U4 == jexc(Cmp(Convert(bindLabel(U3, fin + 1), int_max(t)), 0), "lt_s", "IntegerOverflow")
      U5 == Emit(Move(U4, t, RegOf(t, RDX), Imm(t, Half(t))), [m |-> "alu", f |-> "add", t |-> t, d |-> d, s |-> RegOf(t, RDX)])
  IN push(storeDest(bindLabel(IF i.f = "trunc_s" THEN S4 ELSE U5, fin), t))

handleNumeric(S, i, next) ==
  LET P == pop(S, NumArgs(i.f))
      V == Check(P, Opnd(S, 1).t = ArgType(i))
      o == Opnd(S, 1)
  IN CASE i.f \in Compares \cup {"eqz"} -> handleCompare(S, i, next)
       [] i.f \in Divs -> handleIDiv(V, i, Opnd(S, 2), o)
       [] i.f \in Counts -> handleBitCountOp(V, i, o)
       [] i.f \in Extends \cup {"extend_s", "extend_u"} -> handleIntExtend(V, i, o)
       [] i.f = "wrap" -> handleIntTrunc(V, i, o)
       [] i.f = "reinterpret" -> handleBitcast(V, i, o)
       [] i.f \in {"trunc_s", "trunc_u"} -> handleFloatToInt(V, i, o)
       [] OTHER -> handleBinaryOp(V, i, Opnd(S, 2), o)

(***************************************************************************)
(* decode: one opcode at S.ip.                                             *)
(***************************************************************************)
SkipDead(S, code) == setReachable([S EXCEPT !.ip = skipCurrentBlock(code, @)], FALSE)

decodeOpcode(S, f, code, i) ==
  CASE i.op = "unreachable" -> SkipDead(jexc(S, "always", "Unreachable"), code)
    [] i.op = "nop" -> S
    [] i.op = "block" -> handleBlock(S, i.t)
    [] i.op = "loop" -> handleLoop(S, i.t)
    [] i.op = "if" -> handleIf(pop(S, 1), Opnd(S, 1), i.t)
    [] i.op = "else" -> handleElse(S)
    [] i.op = "end" -> handleEnd(S)
    [] i.op = "br" -> SkipDead(handleBranch(S, i.n), code)
    [] i.op = "br_if" -> handleBranchIf(pop(S, 1), Opnd(S, 1), i.n)
    [] i.op = "br_table" -> SkipDead(handleBranchTable(S, i.tbl), code)
    [] i.op = "return" -> SkipDead(handleReturn(S, FuncType(f).rets), code)
    [] i.op = "call" -> IF Funcs[i.n].kind = "gas" THEN handleGasCall(S) ELSE handleCall(S, i.n)
    [] i.op = "call_indirect" -> handleCallIndirect(S, i.n)
    [] i.op \in {"drop", "drop_64"} -> pop(S, 1)
    [] i.op \in {"select", "select_64"} -> handleSelect(pop(S, 3), Opnd(S, 1), Opnd(S, 3), Opnd(S, 2))
    [] i.op = "get_local" -> ReadVariable(S, S.locs[i.n])
    [] i.op = "set_local" -> WriteVariable(pop(S, 1), S.locs[i.n], Opnd(S, 1))
    [] i.op = "tee_local" -> WriteVariable(S, S.locs[i.n], Opnd(S, 1))
    [] i.op = "get_global" -> ReadVariable(S, GlobalOf(i.n))
    [] i.op = "set_global" -> WriteVariable(pop(S, 1), GlobalOf(i.n), Opnd(S, 1))
    [] i.op = "load" -> handleLoad(S, i)
    [] i.op = "store" -> handleStore(S, i)
    [] i.op = "memory_size" -> handleMemorySize(S)
    [] i.op = "memory_grow" -> handleMemoryGrow(S)
    [] i.op = "const" -> handleConst(S, i.t, i.n)
    [] i.op = "num" -> handleNumeric(S, i, code[S.ip])

RECURSIVE decode(_, _, _)
decode(S, f, code) ==
  IF S.bad THEN S
  ELSE IF S.ip > Len(code) THEN handleReturn(S, FuncType(f).rets)
  ELSE decode(decodeOpcode([S EXCEPT !.ip = @ + 1], f, code, code[S.ip]), f, code)

(* initFunction: prolog, locals cleared, gas loaded, register parameters stored. *)
initFunction(f) ==
  LET L == initLayout(f)
      np == Len(FuncType(f).params)
      used == AlignTo(L.top, 4)
      t == IF FuncType(f).rets = <<>> THEN "VOID" ELSE FuncType(f).rets[1]
      S0 == [code |-> <<[m |-> "enter"], [m |-> "rsp", n |-> 0]>>, lab |-> <<0>>,
             avail |-> ToSet(TempRegs("I32") \o TempRegs("F32")),
             used |-> used, budget |-> used + StackIncrement, stk |-> <<>>, ctl |-> <<>>, op |-> Void, wr |-> {},
             ip |-> 1, locs |-> L.locs, bad |-> FALSE]
      Zero(S, k) == Move(S, L.locs[k].t, L.locs[k], Imm(L.locs[k].t, 0))
      saveParamReg(S, k) == IF L.regs[k] = NoReg THEN S ELSE Move(S, L.locs[k].t, L.locs[k], RegOf(L.locs[k].t, L.regs[k]))
      Body(S) == enterBlock(S, "func", t, NewLabel(S))
  IN Body(createLabel(FoldLeft(saveParamReg, loadGasVal(FoldLeft(Zero, S0, [k \in 1 .. Len(L.locs) - np |-> np + k])),
                               [k \in 1 .. np |-> k])))

(* The exception exit, and the frame's final size patched into the prolog. *)
finalizeFunction(S, rets) ==
  LET Exit(T) == emitEpilog(Emit(T, [m |-> "setexc"]), IF rets = <<>> THEN Void ELSE RegOf(rets[1], RetReg(rets[1])))
  IN [Exit(bindLabel(S, ExceptionExitLabel)) EXCEPT !.code[2].n = -S.budget]

Compiled(S) == [code |-> S.code, lab |-> S.lab, bad |-> S.bad \/ S.stk # <<>> \/ S.ctl # <<>>]
compile(f, entry) == Compiled(finalizeFunction(decode(initFunction(f), f, entry.code), FuncType(f).rets))
=============================================================================

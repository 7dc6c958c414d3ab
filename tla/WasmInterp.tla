----------------------------- MODULE WasmInterp -----------------------------
(***************************************************************************)
(* BaseInterpreterImpl::interpret on one InterpStack: locals, frame        *)
(* headers, control stacks and value stacks of nested calls share a flat   *)
(* array of cells, sized by what the loader computed.                      *)
(*                                                                         *)
(* A machine M holds the cells, the pointers interpret keeps in locals     *)
(* (ip, sp, cp, lp, f), the current frame's address fp, the block address  *)
(* cache and the cached LinearMemSize.  A header or BlockInfo occupies one *)
(* cell, which holds a mark; its fields are in frames or blocks under that *)
(* address, so a value written over the cell is noticed when it is read.   *)
(* bad records a failed assertion of the code, or a read of an             *)
(* overwritten header.                                                     *)
(***************************************************************************)
EXTENDS WasmCode, TLC

CONSTANT StackCells    \* size of the InterpStack

FrameMark == -1
BlockMark == -2
Junk == -3

Frame(M) == M.frames[M.fp]
Code(M) == M.fns[M.f].code

Raise(M, e) == [M EXCEPT !.out = "trap", !.inst.exc = e]
Flag(M, b) == IF b THEN [M EXCEPT !.bad = TRUE] ELSE M

(***************************************************************************)
(* InterpFrame: values, locals and blocks.                                 *)
(***************************************************************************)
CellsOf(t, v) == IF is64(t) THEN <<v % Mod("I32"), v \div Mod("I32")>> ELSE <<v>>
ReadCells(mem, a, t) == IF is64(t) THEN mem[a] + Mod("I32") * mem[a + 1] ELSE mem[a]

WriteCells(mem, a, cs) == [x \in DOMAIN mem |-> IF x \in a .. a + Len(cs) - 1 THEN cs[x - a + 1] ELSE mem[x]]

valuePush(M, t, v) ==
  LET n == getWASMTypeCellNum(t)
  IN Flag([M EXCEPT !.mem = WriteCells(@, M.sp, CellsOf(t, v)), !.sp = @ + n],
          M.sp + n > Frame(M).vbound)

valuePeek(M, t) == ReadCells(M.mem, M.sp - getWASMTypeCellNum(t), t)

valuePop(M, t) ==
  LET n == getWASMTypeCellNum(t)
  IN Flag([M EXCEPT !.sp = @ - n],
          \/ M.sp - n < Frame(M).vbase
          \/ \E x \in M.sp - n .. M.sp - 1 : M.mem[x] < 0)

LocalAddr(M, n) == M.lp + Cells(SubSeq(LocalTypes(M.f), 1, n - 1))

blockPush(M, tgt, cells, label) ==
  Flag([M EXCEPT !.mem[M.cp] = BlockMark, !.cp = @ + 1,
                 !.blocks = (M.cp :> [tgt |-> tgt, sp |-> M.sp, cells |-> cells, label |-> label]) @@ @],
       M.cp >= Frame(M).cbound)

\* Mutation: the operands of the blocks left stay below the results.
blockPopKeeps(M, depth) == [M EXCEPT !.cp = @ - depth, !.ip = M.blocks[M.cp - depth - 1].tgt]

(* A branch: the target block stays on the control stack, its results are  *)
(* moved down to where it started unless it is a loop.                     *)
blockPop(M, depth) ==
  LET cp == M.cp - depth
      b == M.blocks[cp - 1]
      n == IF b.label = "loop" THEN 0 ELSE b.cells
      vs == [k \in 1 .. n |-> M.mem[M.sp - n + k - 1]]
  IN IF cp - 1 < Frame(M).cbase \/ M.mem[cp - 1] # BlockMark THEN [M EXCEPT !.bad = TRUE]
     ELSE [M EXCEPT !.cp = cp, !.ip = b.tgt, !.mem = WriteCells(@, b.sp, vs), !.sp = b.sp + n]

(***************************************************************************)
(* BlockAddrCache: the ELSE and END of every block between Start and the   *)
(* end of the block Start is in.                                           *)
(***************************************************************************)
\* Mutation: LOOP is not counted as a block.
ScanOpcodeNoLoop(f, code, S, p) ==
  LET key == <<f, Last(S.starts)>>
      old == IF key \in DOMAIN S.cache THEN S.cache[key] ELSE [els |-> 0, end |-> 0]
  IN CASE code[p].op \in {"block", "if"} -> [S EXCEPT !.starts = Append(@, p + 1)]
       [] code[p].op = "else" -> [S EXCEPT !.cache = (key :> [old EXCEPT !.els = p]) @@ @]
       [] code[p].op = "end" ->
            [S EXCEPT !.cache = (key :> [old EXCEPT !.end = p]) @@ @, !.starts = Front(@)]
       [] OTHER -> S

ScanOpcode(f, code, S, p) ==
  LET key == <<f, Last(S.starts)>>
      old == IF key \in DOMAIN S.cache THEN S.cache[key] ELSE [els |-> 0, end |-> 0]
  IN CASE code[p].op \in BlockOps -> [S EXCEPT !.starts = Append(@, p + 1)]
       [] code[p].op = "else" -> [S EXCEPT !.cache = (key :> [old EXCEPT !.els = p]) @@ @]
       [] code[p].op = "end" ->
            [S EXCEPT !.cache = (key :> [old EXCEPT !.end = p]) @@ @, !.starts = Front(@)]
       [] OTHER -> S

RECURSIVE ScanFrom(_, _, _, _)
ScanFrom(f, code, S, p) ==
  IF S.starts = <<>> \/ p > Len(code) THEN S ELSE ScanFrom(f, code, ScanOpcode(f, code, S, p), p + 1)

(* Leaves the entry of start in the cache. *)
findBlockAddr(M, start) ==
  IF <<M.f, start>> \in DOMAIN M.cache THEN M
  ELSE [M EXCEPT !.cache = ScanFrom(M.f, Code(M), [starts |-> <<start>>, cache |-> M.cache], start).cache]

(***************************************************************************)
(* Frames.                                                                 *)
(***************************************************************************)
(* The locals' room is below the header, but LocalPtr is the caller's.     *)
allocFrame(M, g, lp) ==
  LET e == M.fns[g]
      fp == M.top + NumLocalCells(g)
      cb == fp + 1
      vb == cb + e.depth
      h == [f |-> g, ip |-> 1, vbase |-> vb, sp |-> vb, vbound |-> vb + e.max,
            cbase |-> cb, cp |-> cb, cbound |-> vb, lp |-> lp, prev |-> M.fp]
  IN IF vb + e.max >= StackCells THEN Raise(M, "CallStackExhausted")
     ELSE [M EXCEPT !.mem = [WriteCells(@, M.top, [k \in 1 .. NumLocalCells(g) |-> 0]) EXCEPT ![fp] = FrameMark],
                    !.frames = (fp :> h) @@ @, !.fp = fp, !.top = vb + e.max]

(* updateFrame: the pointers of the frame at M.fp. *)
updateFrame(M, isReturn) ==
  LET h == Frame(M)
      sp == IF isReturn THEN h.sp - NumParamCells(M.f) + NumReturnCells(M.f) ELSE h.sp
  IN IF M.mem[M.fp] # FrameMark THEN [M EXCEPT !.bad = TRUE]
     ELSE [M EXCEPT !.ip = h.ip, !.sp = sp, !.cp = h.cp, !.lp = h.lp, !.f = h.f]

syncFrame(M) == [M EXCEPT !.frames[M.fp].ip = M.ip, !.frames[M.fp].sp = M.sp, !.frames[M.fp].cp = M.cp]

FunctionBlock(M) == blockPush(M, Len(Code(M)), NumReturnCells(M.f), "function")

(* Entering a bytecode function from callFuncInst. *)
EnterByteCode(M, g) ==
  LET A == allocFrame(syncFrame(M), g, M.sp - NumParamCells(g))
      U == updateFrame(A, FALSE)
      Z == [U EXCEPT !.mem = WriteCells(@, U.lp + NumParamCells(g), [k \in 1 .. NumLocalCells(g) |-> 0])]
  IN IF A.out # "run" THEN A ELSE FunctionBlock(Z)

(* An imported function: pop the arguments, call, push the result. *)
CallNative(M) ==
  LET r == HostCall(<<valuePeek(M, "I32")>>)
      P == valuePop(M, "I32")
  IN IF r.ok THEN valuePush(P, "I32", r.v) ELSE Raise(P, "HostError")

(* The gas import is not called: the instance's gas is charged in place. *)
ChargeGas(M) ==
  LET delta == valuePeek(M, "I64")
      P == valuePop(M, "I64")
  IN IF P.inst.gas < delta THEN Raise([P EXCEPT !.inst.gas = 0], "GasLimitExceeded")
     ELSE [P EXCEPT !.inst.gas = @ - delta]

callFuncInst(M, g) == IF Funcs[g].kind = "host" THEN CallNative(M) ELSE EnterByteCode(M, g)

(* RETURN, and END of the function block: the results go to LocalPtr,      *)
(* after freeFrame has given the frame's cells back.                       *)
Return(M) ==
  LET n == NumReturnCells(M.f)
      sp == M.sp - n
      prev == Frame(M).prev
      R == [M EXCEPT !.top = M.fp - NumLocalCells(M.f), !.sp = sp, !.fp = prev,
                     !.mem = WriteCells(@, M.lp, [k \in 1 .. n |-> M.mem[sp + k - 1]])]
  IN IF prev = -1 THEN [R EXCEPT !.out = "done"] ELSE updateFrame(R, TRUE)

CallIndirect(M, ti) ==
  LET idx == valuePeek(M, "I32")
      P == valuePop(M, "I32")
  IN IF Signed("I32", idx) < 0 \/ idx >= Len(Table) THEN Raise(P, "UndefinedElement")
     ELSE LET g == Table[idx + 1]
          IN IF g = NoFunc THEN Raise(P, "UninitializedElement")
             ELSE IF FuncType(g) # Types[ti] THEN Raise(P, "IndirectCallTypeMismatch")
             ELSE callFuncInst(P, g)

(***************************************************************************)
(* Numeric instructions: Ok(value) or Fail(error).                         *)
(***************************************************************************)
Ok(v) == [ok |-> TRUE, v |-> v, e |-> "none"]
Fail(e) == [ok |-> FALSE, v |-> 0, e |-> e]

(* BinaryOpHelper of the divisions: signed overflow is tested before zero. *)
Division(f, t, a, b) ==
  LET x == Signed(t, a)
      y == Signed(t, b)
  IN CASE f = "div_s" /\ x = -Half(t) /\ y = -1 -> Fail("IntegerOverflow")
       [] b = 0 -> Fail("IntegerDivByZero")
       [] f = "rem_s" /\ x = -Half(t) /\ y = -1 -> Ok(0)
       [] f = "div_u" /\ b # 0 -> Ok(a \div b)
       [] f = "rem_u" /\ b # 0 -> Ok(a % b)
       [] f = "div_s" /\ b # 0 /\ ~(x = -Half(t) /\ y = -1) -> Ok(Wrap(t, CDiv(x, y)))
       [] f = "rem_s" /\ b # 0 /\ ~(x = -Half(t) /\ y = -1) -> Ok(Wrap(t, CRem(x, y)))

(* rotl and rotr: the second shift's count is (0 - R) masked, so R = 0 does *)
(* not shift by the full width.                                            *)
Rotate(f, t, a, b) ==
  LET r == b % Bits(t)
      s == (0 - r) % Bits(t)
      l == IF f = "rotl" THEN r ELSE s
  IN Wrap(t, a * 2 ^ l) | (a \div 2 ^ ((0 - l) % Bits(t)))

(* FloatAttr::toIntMin, exclusive, in halves: the next float below the type. *)
toIntMin(t, from, sgn) ==
  CASE ~sgn -> -2
    [] sgn /\ from = "F32" -> IF t = "I32" THEN -32 ELSE -512
    [] sgn /\ from = "F64" -> IF t = "I32" THEN -18 ELSE -264
toIntMax(t, sgn) == 2 * (IF sgn THEN Half(t) ELSE Mod(t))

truncate(t, from, sgn, v) ==
  LET h == FloatHalves(from, v)
  IN CASE IsNaN(from, v) -> Fail("InvalidConversionToInteger")
       [] ~IsNaN(from, v) /\ (h <= toIntMin(t, from, sgn) \/ h >= toIntMax(t, sgn)) -> Fail("IntegerOverflow")
       [] OTHER -> Ok(Wrap(t, TowardsZero(h)))

(* One and two operand instructions; a is the first operand. *)
Numeric(i, a, b) ==
  CASE i.f = "eqz" -> Ok(Bool(a = 0))
    [] i.f \in Compares -> Ok(IntCompare(i.f, i.t, a, b))
    [] i.f \in Counts -> Ok(CountBits(i.t, i.f, a))
    [] i.f \in Divs -> Division(i.f, i.t, a, b)
    [] i.f \in {"rotl", "rotr"} -> Ok(Rotate(i.f, i.t, a, b))
    [] i.f \in Binaries \cup {"shl", "shr_s", "shr_u"} -> Ok(PlainOp(i.f, i.t, a, b))
    [] i.f = "extend8_s" -> Ok(Extend(i.t, a, 1, TRUE))
    [] i.f = "extend_low_s" -> Ok(Extend(i.t, a, Bytes(i.t) \div 2, TRUE))
    [] i.f \in {"extend_s", "extend_u"} -> Ok(Extend(i.t, a, Bytes("I32"), i.f = "extend_s"))
    [] i.f = "wrap" -> Ok(Wrap("I32", a))
    [] i.f = "reinterpret" -> Ok(a)
    [] i.f \in {"trunc_s", "trunc_u"} -> truncate(i.t, i.from, i.f = "trunc_s", a)

NumericOp(M, i) ==
  LET t == ArgType(i)
      P1 == IF NumArgs(i.f) = 2 THEN valuePop(M, t) ELSE M
      P2 == valuePop(P1, t)
      r == Numeric(i, valuePeek(P1, t), valuePeek(M, t))
  IN IF r.ok THEN valuePush(P2, ResultType(i), r.v) ELSE Raise(P2, r.e)

(***************************************************************************)
(* Locals, globals, memory.                                                *)
(***************************************************************************)
Local(M, i) ==
  LET t == LocalTypes(M.f)[i.n]
      a == LocalAddr(M, i.n)
      S == [M EXCEPT !.mem = WriteCells(@, a, CellsOf(t, valuePeek(M, t)))]
  IN CASE i.op = "get_local" -> valuePush(M, t, ReadCells(M.mem, a, t))
       [] i.op = "set_local" -> valuePop(S, t)
       [] i.op = "tee_local" -> S

Global(M, i) ==
  LET t == Globals[i.n].type
  IN IF i.op = "get_global" THEN valuePush(M, t, M.inst.glob[i.n])
     ELSE valuePop([M EXCEPT !.inst.glob[i.n] = valuePeek(M, t)], t)

loadOp(M, i) ==
  LET a == valuePeek(M, "I32") + i.n
      P == valuePop(M, "I32")
  IN IF a + i.w > M.lms THEN Raise(P, "OutOfBoundsMemory")
     ELSE valuePush(P, i.t, Extend(i.t, ReadBytes(M.inst.lin, a, i.w), i.w, i.s))

storeOp(M, i) ==
  LET P1 == valuePop(M, i.t)
      P2 == valuePop(P1, "I32")
      a == valuePeek(P1, "I32") + i.n
  IN IF a + i.w > M.lms THEN Raise(P2, "OutOfBoundsMemory")
     ELSE [P2 EXCEPT !.inst.lin = WriteBytes(@, a, i.w, valuePeek(M, i.t))]

MemoryGrow(M) ==
  LET P == valuePop(M, "I32")
      g == growLinearMemory(M.inst, valuePeek(M, "I32"))
  IN IF g.ok THEN valuePush([P EXCEPT !.inst = g.inst, !.lms = MemSize(g.inst)], "I32", M.inst.pages)
     ELSE valuePush(P, "I32", Mod("I32") - 1)

(***************************************************************************)
(* Blocks and branches.  M.ip is already behind the instruction.           *)
(***************************************************************************)
EnterBlock(M, i) ==
  LET A == findBlockAddr(M, M.ip)
  IN blockPush(A, A.cache[<<A.f, A.ip>>].end, getWASMTypeCellNum(i.t), i.op)

If(M, i) ==
  LET A == findBlockAddr(valuePop(M, "I32"), M.ip)
      b == A.cache[<<A.f, A.ip>>]
      B == blockPush(A, b.end, getWASMTypeCellNum(i.t), "if")
  IN CASE valuePeek(M, "I32") # 0 -> B
       [] valuePeek(M, "I32") = 0 /\ b.els = 0 -> [A EXCEPT !.ip = b.end + 1]
       [] valuePeek(M, "I32") = 0 /\ b.els # 0 -> [B EXCEPT !.ip = b.els + 1]

selectOp(M, t) ==
  LET P1 == valuePop(M, "I32")
      P2 == valuePop(P1, t)
      P3 == valuePop(P2, t)
  IN valuePush(P3, t, IF valuePeek(M, "I32") # 0 THEN valuePeek(P2, t) ELSE valuePeek(P1, t))

(* br_table's last target is the default. *)
BranchTable(M, tbl) ==
  LET v == valuePeek(M, "I32")
  IN blockPop(valuePop(M, "I32"), tbl[IF v < Len(tbl) - 1 THEN v + 1 ELSE Len(tbl)])

EndOpcode(M) == IF M.cp > Frame(M).cbase + 1 THEN [M EXCEPT !.cp = @ - 1] ELSE Return(M)

(* One iteration of interpret's loop. *)
InterpretOpcode(M, i) ==
  CASE i.op = "unreachable" -> Raise(M, "Unreachable")
    [] i.op = "nop" -> M
    [] i.op = "block" -> EnterBlock(M, i)
    [] i.op = "loop" -> blockPush(M, M.ip, getWASMTypeCellNum(i.t), "loop")
    [] i.op = "if" -> If(M, i)
    [] i.op = "else" -> [M EXCEPT !.ip = M.blocks[M.cp - 1].tgt]
    [] i.op = "end" -> EndOpcode(M)
    [] i.op = "br" -> blockPop(M, i.n)
    [] i.op = "br_if" -> IF valuePeek(M, "I32") # 0 THEN blockPop(valuePop(M, "I32"), i.n) ELSE valuePop(M, "I32")
    [] i.op = "br_table" -> BranchTable(M, i.tbl)
    [] i.op = "return" -> Return(M)
    [] i.op = "call" -> IF Funcs[i.n].kind = "gas" THEN ChargeGas(M) ELSE callFuncInst(M, i.n)
    [] i.op = "call_indirect" -> CallIndirect(M, i.n)
    [] i.op = "drop" -> valuePop(M, "I32")
    [] i.op = "drop_64" -> valuePop(M, "I64")
    [] i.op = "select" -> selectOp(M, "I32")
    [] i.op = "select_64" -> selectOp(M, "I64")
    [] i.op \in {"get_local", "set_local", "tee_local"} -> Local(M, i)
    [] i.op \in {"get_global", "set_global"} -> Global(M, i)
    [] i.op = "load" -> loadOp(M, i)
    [] i.op = "store" -> storeOp(M, i)
    [] i.op = "memory_size" -> valuePush(M, "I32", M.inst.pages)
    [] i.op = "memory_grow" -> MemoryGrow(M)
    [] i.op = "const" -> valuePush(M, i.t, i.n)
    [] i.op = "num" -> NumericOp(M, i)

Step(M) == InterpretOpcode([M EXCEPT !.ip = @ + 1], Code(M)[M.ip])

(* callWasmFunctionInInterpMode: the arguments at the bottom of the stack, *)
(* a frame above them, interpret's setup.                                  *)
Start(fns, f, args, inst) ==
  LET ts == FuncType(f).params
      as == FoldLeft(LAMBDA s, k : s \o CellsOf(ts[k], args[k]), <<>>, [k \in DOMAIN ts |-> k])
      M == [mem |-> WriteCells([a \in 0 .. StackCells - 1 |-> Junk], 0, as), top |-> Len(as), fp |-> -1,
            frames |-> <<>>, blocks |-> <<>>, cache |-> <<>>, fns |-> fns, f |-> f, ip |-> 1, sp |-> 0, cp |-> 0,
            lp |-> 0, lms |-> MemSize(inst), inst |-> inst, out |-> "run", bad |-> FALSE]
  IN FunctionBlock(updateFrame(allocFrame(M, f, 0), FALSE))

(* The results are read back from the bottom of the stack. *)
Result(M) == IF M.out = "done" /\ FuncType(M.f).rets # <<>> THEN ReadCells(M.mem, 0, FuncType(M.f).rets[1]) ELSE 0
=============================================================================

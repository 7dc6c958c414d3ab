------------------------------- MODULE EvmJit -------------------------------
(***************************************************************************)
(* The code the multipass JIT emits for an EVM program: metering by gas    *)
(* chunk, one stack check per block, inline memory expansion against a     *)
(* cached memory size, and the runtime helpers of evm_imported.cpp.        *)
(*                                                                         *)
(* A frame of compiled code has, besides the fields of EvmMachine,         *)
(*   msz    MemorySizeVar, the memory size the compiled code believes in,  *)
(*   plan   the memory precheck of the current block, with the covered     *)
(*          accesses left (ops) and whether it was emitted (paid),         *)
(*   begin  the next instruction starts a block that is not a JUMPDEST.    *)
(* Emitted code does not test the stack again: popping what is not there   *)
(* or pushing past the limit is the status CORRUPT.                        *)
(*                                                                         *)
(* This is the default build, with ZEN_ENABLE_CPU_EXCEPTION: a helper that *)
(* fails raises a hardware exception in throwInstanceExceptionOnJIT, whose *)
(* handler jumps back to callEVMInJITMode, so it ends the call at once     *)
(* (Fail). Without the option that function is empty and the emitted code, *)
(* which does not test for an error after a helper, would run on; that     *)
(* build is not modelled.                                                  *)
(***************************************************************************)
EXTENDS EvmMachine

Corrupt(f) == IF Running(f) THEN [f EXCEPT !.st = "CORRUPT"] ELSE f

(* Pop and push of the emitted code. *)
StackPop(f, n) == IF Len(f.stack) < n THEN Corrupt(f) ELSE Drop(f, n)
StackPush(f, v) ==
  IF Len(f.stack) >= MaxStack THEN Corrupt(f) ELSE Push(f, v)

(* A word that must be a machine integer, or the frame runs out of gas. *)
normalizeOperandU64(f, w) == IF w > U64Max THEN Fail(f, "OUT_OF_GAS") ELSE f

normalizeOffsetWithSize(f, off, size) ==
  LET g == normalizeOperandU64(f, size)
  IN  IF size = 0 THEN g ELSE normalizeOperandU64(g, off)

(* A helper call after which the cached size is not reloaded. *)
reloadSkipped(f) == f

reloadMemorySizeFromInstance(f) == IF Running(f) THEN [f EXCEPT !.msz = f.mem] ELSE f

(* Inline growth: compares and charges against the cached size. *)
expandMemoryIR(f, size) ==
  LET end == 32 * numWords(size)
      g == chargeGas(f, MemoryGas(end) - MemoryGas(f.msz))
  IN  IF size > MaxMemory THEN Fail(f, "OUT_OF_GAS")
      ELSE IF size <= f.msz \/ ~Running(f) THEN f
      ELSE IF Running(g) THEN [g EXCEPT !.mem = end, !.msz = end] ELSE g

(* Growth by a helper: one range, or the larger end of two. *)
expandMemoryChecked(f, ranges) ==
  LET used == {r \in ranges : r[2] > 0}
      Grow(g, size) ==
        LET end == 32 * numWords(size)
            h == chargeGas(g, MemoryGas(end) - MemoryGas(g.mem))
        IN  IF end <= g.mem THEN g
            ELSE IF Running(h) THEN [h EXCEPT !.mem = end] ELSE h
  IN  IF used = {} \/ ~Running(f) THEN f
      ELSE LET size == CHOOSE s \in {r[1] + r[2] : r \in used} :
                         \A r \in used : r[1] + r[2] <= s
           IN  IF size > U64Max \/ size > MaxMemory THEN Fail(f, "OUT_OF_GAS")
               ELSE Grow(f, size)

(* An access that is covered by the plan of its block does not check again. *)
TakePlan(f, size) ==
  LET g == IF f.plan.paid THEN f ELSE expandMemoryIR(f, size)
  IN  [g EXCEPT !.plan = [g.plan EXCEPT !.paid = TRUE, !.ops = @ - 1]]

tryConsumeLinearBlockMemoryPrecheck(f, addr) ==
  LET stride == f.stack[2]
      g == IF f.plan.paid THEN f ELSE normalizeOperandU64(f, stride)
      last == addr + stride * (f.plan.ops - 1)
  IN  IF ~Running(g) THEN g ELSE TakePlan(g, last + f.plan.size)

(* The stride is prepared only when the stack holds it. *)
DirectAccess(f, op, addr) ==
  IF f.plan.kind = "linear" /\ f.plan.ops > 0 /\ op # MSTORE8
       /\ (f.plan.paid \/ Len(f.stack) >= 2)
  THEN tryConsumeLinearBlockMemoryPrecheck(f, addr)
  ELSE LET g == normalizeOperandU64(f, addr)
       IN  IF f.plan.kind = "const" /\ f.plan.ops > 0 THEN TakePlan(g, f.plan.size)
           ELSE expandMemoryIR(g, addr + (IF op = MSTORE8 THEN 1 ELSE 32))

handleMCopy(f, a) ==
  LET g == normalizeOperandU64(normalizeOperandU64(normalizeOperandU64(f, a[1]), a[2]), a[3])
      end == (IF a[1] > a[2] THEN a[1] ELSE a[2]) + a[3]
  IN  IF a[3] = 0 THEN f
      ELSE IF ~Running(g) THEN g
      ELSE expandMemoryIR(chargeGas(g, 3 * numWords(a[3])), end)

(* CALLDATACOPY saturates its operands, CODECOPY traps on them. *)
evmSetCallDataCopy(f, a) ==
  LET size == uint256ToUint64(a[3])
  IN  IF size = 0 THEN f
      ELSE chargeGas(expandMemoryChecked(f, {<<uint256ToUint64(a[1]), size>>}),
                     3 * numWords(size))

evmSetCodeCopy(f, a) == evmSetCallDataCopy(normalizeOffsetWithSize(f, a[1], a[3]), a)

evmSetExtCodeCopy(f, a, in) ==
  LET size == uint256ToUint64(a[4])
      g == chargeGas(expandMemoryChecked(f, {<<uint256ToUint64(a[2]), size>>}),
                     3 * numWords(size))
  IN  ChargeCold(g, in, ADDITIONAL_COLD_ACCOUNT_ACCESS_COST)

evmSetReturnDataCopy(f, a) ==
  LET off == uint256ToUint64(a[2])
      size == uint256ToUint64(a[3])
  IN  IF off > f.ret \/ size > f.ret \/ off + size > f.ret
      THEN Fail(f, "OUT_OF_BOUNDS_MEMORY") ELSE evmSetCallDataCopy(f, a)

evmGetKeccak256(f, a, in) ==
  LET g == expandMemoryChecked(normalizeOffsetWithSize(f, a[1], a[2]), {<<a[1], a[2]>>})
  IN  StackPush(chargeGas(g, 6 * numWords(a[2])), in.word)

evmEmitLogGeneric(f, op, a) ==
  LET g == RequireNotStatic(normalizeOffsetWithSize(f, a[1], a[2]))
  IN  HostWrite(chargeGas(expandMemoryChecked(g, {<<a[1], a[2]>>}), 8 * a[2]), op)

evmSetSStore(f, in) ==
  LET g == RequireNotStatic(f)
      cost == SStoreCost(f.rev, in.status)
      cold == IF f.rev >= BERLIN /\ in.cold THEN COLD_SLOAD_COST ELSE 0
  IN  IF f.rev >= ISTANBUL /\ g.gas <= SSTORE_REQUIRED_ISTANBUL
      THEN Fail(g, "OUT_OF_GAS")
      ELSE addGasRefund(chargeGas(HostWrite(g, SSTORE), cold + cost[1]), cost[2])

evmSetTStore(f) == HostWrite(RequireNotStatic(f), TSTORE)

evmHandleCreateInternal(f, op, a, in) ==
  LET size == a[3]
      word == (IF op = CREATE2 THEN 6 ELSE 0) + (IF f.rev >= SHANGHAI THEN 2 ELSE 0)
      s == RequireNotStatic(normalizeOffsetWithSize(f, a[2], size))
      g == expandMemoryChecked(s, {<<a[2], size>>})
      h == IF f.rev >= SHANGHAI /\ size > MaxInitcode THEN Fail(g, "OUT_OF_GAS")
           ELSE chargeGas(g, word * numWords(size))
      done == addGasRefund(ChargeUsed(HostWrite(h, op), AllButOne64th(h.gas), in), in.refund)
  IN  IF ~Running(h) THEN h
      ELSE IF h.deep \/ (a[1] # 0 /\ in.poor) THEN StackPush(SetRet(h, 0), 0)
      ELSE StackPush(SetRet(done, in.size), IF in.ok THEN in.word ELSE 0)

evmHandleCallInternal(f, op, a, in) ==
  LET value == CallValueOf(op, a)
      r == RangesOf(op, a)
      n == normalizeOffsetWithSize(normalizeOffsetWithSize(f, r[1], r[2]), r[3], r[4])
      c == ChargeCold(n, in, ADDITIONAL_COLD_ACCOUNT_ACCESS_COST)
      s == IF op = CALL /\ value # 0 THEN RequireNotStatic(c) ELSE c
      m == expandMemoryChecked(s, {<<r[1], r[2]>>, <<r[3], r[4]>>})
      v == chargeGas(m, ValueCost(op, value, in))
      cap == AllButOne64th(v.gas)
      want == uint256ToUint64(a[1])
      stipend == IF value # 0 THEN CALL_GAS_STIPEND ELSE 0
      given == (IF want < cap THEN want ELSE cap) + stipend
      g == [v EXCEPT !.gas = @ + stipend]
      write == IF op = STATICCALL \/ f.static THEN g ELSE HostWrite(g, op)
      done == addGasRefund(ChargeUsed(write, given, in), in.refund)
  IN  IF ~Running(v) THEN v
      ELSE IF (value # 0 /\ in.poor) \/ f.deep THEN StackPush(SetRet(g, 0), 0)
      ELSE StackPush(SetRet(done, in.size), IF in.ok THEN 1 ELSE 0)

(* RETURN and REVERT saturate their operands. *)
evmSetReturn(f, a) ==
  LET size == uint256ToUint64(a[2])
      g == expandMemoryChecked(f, {<<uint256ToUint64(a[1]), size>>})
  IN  IF Running(g) THEN [g EXCEPT !.st = "SUCCESS", !.ret = size] ELSE g

(* A REVERT that keeps the refund. *)
evmSetRevertKeeps(f, a) ==
  LET size == uint256ToUint64(a[2])
      g == expandMemoryChecked(f, {<<uint256ToUint64(a[1]), size>>})
  IN  IF Running(g) THEN [g EXCEPT !.st = "REVERT", !.ret = size] ELSE g

evmSetRevert(f, a) ==
  LET size == uint256ToUint64(a[2])
      g == expandMemoryChecked(f, {<<uint256ToUint64(a[1]), size>>})
  IN  IF Running(g) THEN [g EXCEPT !.st = "REVERT", !.ret = size, !.refund = f.snap] ELSE g

evmHandleSelfDestruct(f, in) == SelfDestruct(RequireNotStatic(f), in)

(* The gas for the account or the slot is charged by the query helpers. *)
QueryHelper(f, op, in) ==
  StackPush(CASE op \in {BALANCE, EXTCODESIZE, EXTCODEHASH} ->
                   ChargeCold(f, in, ADDITIONAL_COLD_ACCOUNT_ACCESS_COST)
              [] op = SLOAD -> ChargeCold(f, in, ADDITIONAL_COLD_SLOAD_COST)
              [] OTHER -> f, in.word)

handleMSize(f) == StackPush(f, f.msz)

(* Emitted code of one opcode other than JUMP and JUMPI. *)
handleOpcode(f, op, a, value, in) ==
  CASE op = INVALID -> Fail(f, "INVALID_INSTRUCTION")
    [] op = STOP -> Stop(f)
    [] op = RETURN -> evmSetReturn(f, a)
    [] op = REVERT -> evmSetRevert(f, a)
    [] op = SELFDESTRUCT -> evmHandleSelfDestruct(f, in)
    [] op \in PushOps -> StackPush(f, value)
    [] op \in DupOps -> StackPush([f EXCEPT !.stack = a \o @], a[op - DUP1 + 1])
    [] op \in SwapOps -> SwapWords(f, a, op - SWAP1 + 2)
    [] op = MSIZE -> handleMSize(f)
    [] op \in EnvOps \ {MSIZE} -> StackPush(f, EnvValue(f, op, in))
    [] op = MLOAD -> StackPush(DirectAccess(f, op, a[1]), in.word)
    [] op \in LoadOps \ {MLOAD} -> QueryHelper(f, op, in)
    [] op \in UnaryOps \cup BinaryOps \cup TernaryOps ->
         StackPush(IF op = EXP THEN chargeGas(f, 50 * ByteLength(a[2])) ELSE f,
                   ResultOf(op, a, in))
    [] op \in {MSTORE, MSTORE8} -> DirectAccess(f, op, a[1])
    [] op = MCOPY -> handleMCopy(f, a)
    [] op = SSTORE -> evmSetSStore(f, in)
    [] op = TSTORE -> evmSetTStore(f)
    [] op = KECCAK256 -> reloadMemorySizeFromInstance(evmGetKeccak256(f, a, in))
    [] op = CALLDATACOPY -> reloadMemorySizeFromInstance(evmSetCallDataCopy(f, a))
    [] op = CODECOPY -> reloadMemorySizeFromInstance(evmSetCodeCopy(f, a))
    [] op = EXTCODECOPY -> reloadMemorySizeFromInstance(evmSetExtCodeCopy(f, a, in))
    [] op = RETURNDATACOPY -> reloadMemorySizeFromInstance(evmSetReturnDataCopy(f, a))
    [] op \in LogOps -> reloadMemorySizeFromInstance(evmEmitLogGeneric(f, op, a))
    [] op \in CreateOps ->
         reloadMemorySizeFromInstance(evmHandleCreateInternal(f, op, a, in))
    [] op \in CallOps -> reloadMemorySizeFromInstance(evmHandleCallInternal(f, op, a, in))
    [] OTHER -> f

(* A jump goes to the entry thunk of its target; JUMPI falls through to a
   new block. *)
handleJump(f, dest, dests) == JumpTo(f, dest, dests)
handleJumpI(f, a, dests) ==
  IF a[2] # 0 THEN handleJump(f, a[1], dests)
  ELSE [f EXCEPT !.pc = @ + 1, !.begin = TRUE]

(* A check against the limit that leaves out what the block adds. *)
createStackCheckBlockNow(f, need, max) ==
  IF Len(f.stack) < need THEN Fail(f, "STACK_UNDERFLOW")
  ELSE IF Len(f.stack) > MaxStack THEN Fail(f, "STACK_OVERFLOW") ELSE f

(* The check of a block's heights, once on entry. *)
createStackCheckBlock(f, need, max) ==
  IF Len(f.stack) < need THEN Fail(f, "STACK_UNDERFLOW")
  ELSE IF Len(f.stack) > MaxStack - max THEN Fail(f, "STACK_OVERFLOW") ELSE f

handleBeginBlock(f, info) ==
  createStackCheckBlock([f EXCEPT !.plan = info.plan, !.begin = FALSE], info.need, info.max)

(* Charge the chunk that starts at the counter, if one does. *)
meterOpcode(f, cache) ==
  IF cache.end[f.pc] > f.pc
  THEN [chargeGas(f, cache.cost[f.pc]) EXCEPT !.until = cache.end[f.pc]] ELSE f

(* Entry into a run of JUMPDESTs: the skipped ones, the shared block, and
   the canonical JUMPDEST itself. *)
EnterRun(f, cache, front) ==
  LET canon == front.canon[f.pc]
      skip[pc \in f.pc..canon] == IF pc = canon THEN 0 ELSE cache.cost[pc] + skip[pc + 1]
      g == chargeGas(f, skip[f.pc])
      h == handleBeginBlock([g EXCEPT !.pc = canon], front.blocks[canon])
      m == meterOpcode(h, cache)
  IN  IF ~Running(g) THEN g ELSE IF ~Running(h) THEN h ELSE Advance(m, JUMPDEST)

(* One instruction of compiled code, or one whole run of JUMPDESTs. *)
JitExecute(f, code, cache, front, in) ==
  LET op == Byte(code, f.pc)
      b == IF f.begin THEN handleBeginBlock(f, front.blocks[f.pc]) ELSE f
      m == meterOpcode(b, cache)
      p == StackPop(m, Required(op))
      a == SubSeq(m.stack, 1, Required(op))
  IN  IF f.pc >= Len(code) THEN Stop(IF f.begin THEN handleBeginBlock(f, front.blocks[f.pc]) ELSE f)
      ELSE IF op = JUMPDEST THEN EnterRun(f, cache, front)
      ELSE IF ~Running(b) THEN b
      ELSE IF ~Defined(op, f.rev) THEN Fail(b, "UNDEFINED_INSTRUCTION")
      ELSE IF ~Running(p) THEN p
      ELSE IF op = JUMP THEN handleJump(p, a[1], cache.dests)
      ELSE IF op = JUMPI THEN handleJumpI(p, a, cache.dests)
      ELSE Advance(handleOpcode(p, op, a, loadPushValue(code, f.pc), in), op)

(* The rest of the block from pc on, up to a JUMPDEST, an instruction that
   ends the block or one that is not defined: the words it needs on the
   stack as it finds it, and the room it needs for those it adds. *)
StackHeights(code, rev, pc) ==
  LET To(q) == IF q + opcodeLen(Byte(code, q)) < Len(code)
               THEN q + opcodeLen(Byte(code, q)) ELSE Len(code)
      Nothing == [need |-> 0, room |-> 0]
      Ends(op) == isBlockTerminator(op) \/ op = JUMPI
      Before(op, rest) ==
        [need |-> Required(op) + (IF rest.need > Pushed(op) THEN rest.need - Pushed(op) ELSE 0),
         room |-> IF rest.room + Pushed(op) > Required(op)
                  THEN rest.room + Pushed(op) - Required(op) ELSE 0]
      at[q \in 0..Len(code)] ==
        IF q = Len(code) \/ q \in JumpDests(code) \/ ~Defined(Byte(code, q), rev) THEN Nothing
        ELSE Before(Byte(code, q), IF Ends(Byte(code, q)) THEN Nothing ELSE at[To(q)])
  IN  at[pc]

(* What the proofs know of the front end's analysis: the canonical JUMPDEST
   of a run is in the run, and every place where control may enter a block
   has the block's information, whose stack heights cover the block. *)
FrontSound(p) ==
  LET dests == JumpDests(p.code)
      afterJumpI == {q + 1 : q \in {r \in LiveStarts(p.code, p.rev) :
                                     r < Len(p.code) /\ Byte(p.code, r) = JUMPI}}
      Covers(info, pc) ==
        /\ info.plan \in Plans /\ info.need \in Nat /\ info.max \in Nat
        /\ info.need >= StackHeights(p.code, p.rev, pc).need
        /\ info.max >= StackHeights(p.code, p.rev, pc).room
  IN  /\ \A d \in dests : LET c == p.front.canon[d]
                          IN  c \in dests /\ c >= d /\ Covers(p.front.blocks[c], c + 1)
      /\ \A e \in ({0} \cup afterJumpI) \ dests : Covers(p.front.blocks[e], e)
=============================================================================

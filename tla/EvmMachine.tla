----------------------------- MODULE EvmMachine -----------------------------
(***************************************************************************)
(* The opcode handlers of the EVM interpreter (opcode_handlers.cpp).       *)
(*                                                                         *)
(* A frame is a record                                                     *)
(*   pc, stack (top first), gas, mem (memory size in bytes), ret (size of  *)
(*   the return data), refund (the instance's refund counter), log (the    *)
(*   host mutations made so far), st (status), until (end of the gas       *)
(*   chunk that is paid for), and, fixed for a call: snap (refund when the *)
(*   message was pushed), rev, static, deep (call depth limit reached).    *)
(* Every operator on a frame that is no longer running is the identity,    *)
(* as a handler returns as soon as it has set a status, so a handler is    *)
(* the composition of its checks in the order of the code.                 *)
(*                                                                         *)
(* Memory, storage and account contents are not represented: what a load   *)
(* or an environment query yields is part of the input `in', the answers   *)
(* of the host to one instruction.                                         *)
(***************************************************************************)
EXTENDS EvmCode

CONSTANT MaxInitcode   \* MAX_SIZE_OF_INITCODE

ASSUME InitcodeAssumption == MaxInitcode \in Nat

(* Gas constants of evm.h. *)
COLD_ACCOUNT_ACCESS_COST == 2600
WARM_STORAGE_READ_COST == 100
ADDITIONAL_COLD_ACCOUNT_ACCESS_COST == COLD_ACCOUNT_ACCESS_COST - WARM_STORAGE_READ_COST
COLD_SLOAD_COST == 2100
ADDITIONAL_COLD_SLOAD_COST == COLD_SLOAD_COST - WARM_STORAGE_READ_COST
CALL_VALUE_COST == 9000
ACCOUNT_CREATION_COST == 25000
CALL_GAS_STIPEND == 2300
SSTORE_REQUIRED_ISTANBUL == 2300
EXTRA_REFUND_BEFORE_LONDON == 24000

Running(f) == f.st = "running"

(* What handleExecutionStatus does with every failure status. *)
Fail(f, status) ==
  IF Running(f)
  THEN [f EXCEPT !.st = status, !.gas = 0, !.refund = f.snap, !.ret = 0]
  ELSE f

chargeGas(f, cost) ==
  IF ~Running(f) THEN f
  ELSE IF f.gas < cost THEN Fail(f, "OUT_OF_GAS") ELSE [f EXCEPT !.gas = @ - cost]

EVM_STACK_CHECK(f, n) ==
  IF Len(f.stack) < n THEN Fail(f, "STACK_UNDERFLOW") ELSE f

Push(f, v) ==
  IF ~Running(f) THEN f
  ELSE IF Len(f.stack) >= MaxStack THEN Fail(f, "STACK_OVERFLOW")
       ELSE [f EXCEPT !.stack = <<v>> \o @]

Drop(f, n) == IF Running(f) THEN [f EXCEPT !.stack = SubSeq(@, n + 1, Len(@))] ELSE f
SetRet(f, n) == IF Running(f) THEN [f EXCEPT !.ret = n] ELSE f
HostWrite(f, op) == IF Running(f) THEN [f EXCEPT !.log = Append(@, op)] ELSE f
addGasRefund(f, n) == IF Running(f) THEN [f EXCEPT !.refund = @ + n] ELSE f
RequireNotStatic(f) == IF f.static THEN Fail(f, "STATIC_MODE_VIOLATION") ELSE f

numWords(size) == (size + 31) \div 32
MemoryGas(bytes) == LET w == numWords(bytes) IN (w * w) \div 512 + 3 * w
uint256ToUint64(w) == IF w > U64Max THEN U64Max ELSE w

(* A growth that forgets to round up to words. *)
checkMemoryExpandUnrounded(f, off, size) ==
  IF ~Running(f) \/ size = 0 THEN f
  ELSE IF size > U64Max \/ off > U64Max \/ off + size > MaxMemory THEN Fail(f, "OUT_OF_GAS")
  ELSE [f EXCEPT !.mem = IF off + size > @ THEN off + size ELSE @]

(* Grow memory to cover [off, off + size) and pay for the growth. *)
checkMemoryExpandAndChargeGas(f, off, size) ==
  LET end == 32 * numWords(off + size)
  IN  IF ~Running(f) \/ size = 0 THEN f
      ELSE IF size > U64Max \/ off > U64Max \/ off + size > MaxMemory
      THEN Fail(f, "OUT_OF_GAS")
      ELSE IF end <= f.mem THEN f
      ELSE LET g == chargeGas(f, MemoryGas(end) - MemoryGas(f.mem))
           IN  IF Running(g) THEN [g EXCEPT !.mem = end] ELSE g

copyCodeAndChargeGas(f, size) == chargeGas(f, 3 * numWords(uint256ToUint64(size)))

ChargeCold(f, in, cost) == IF f.rev >= BERLIN /\ in.cold THEN chargeGas(f, cost) ELSE f

(* Number of significant bytes of an exponent. *)
ByteLength(w) ==
  LET Fits(n) == n = WordBytes \/ w < 256^n
  IN  CHOOSE n \in 0..WordBytes : Fits(n) /\ \A m \in 0..WordBytes : Fits(m) => n <= m

(* The results that programs compute addresses and conditions with; any
   other result is a word of the input. *)
ResultOf(op, a, in) ==
  CASE op = ADD -> (a[1] + a[2]) % WordMod
    [] op = SUB -> (a[1] - a[2]) % WordMod
    [] op = LT -> IF a[1] < a[2] THEN 1 ELSE 0
    [] op = ISZERO -> IF a[1] = 0 THEN 1 ELSE 0
    [] OTHER -> in.word

(* In the handlers below a is the sequence of operands, already popped. *)

Arithmetic(f, op, a, in) ==
  Push(IF op = EXP THEN chargeGas(f, 50 * ByteLength(a[2])) ELSE f, ResultOf(op, a, in))

EnvValue(f, op, in) ==
  CASE op = GAS -> f.gas
    [] op = PC -> f.pc
    [] op = MSIZE -> f.mem
    [] op = RETURNDATASIZE -> f.ret
    [] OTHER -> in.word

Load(f, op, a, in) ==
  LET g == CASE op \in {BALANCE, EXTCODESIZE, EXTCODEHASH} ->
                  ChargeCold(f, in, ADDITIONAL_COLD_ACCOUNT_ACCESS_COST)
             [] op = SLOAD -> ChargeCold(f, in, ADDITIONAL_COLD_SLOAD_COST)
             [] op = MLOAD -> checkMemoryExpandAndChargeGas(f, a[1], 32)
             [] OTHER -> f
  IN  Push(g, in.word)

DupWord(f, a, n) == Push([f EXCEPT !.stack = a \o @], a[n])
SwapWords(f, a, n) ==
  [f EXCEPT !.stack = [a EXCEPT ![1] = a[n], ![n] = a[1]] \o @]

Copy(f, a) ==
  copyCodeAndChargeGas(checkMemoryExpandAndChargeGas(f, a[1], a[3]), a[3])

ExtCodeCopy(f, a, in) ==
  ChargeCold(Copy(f, Tail(a)), in, ADDITIONAL_COLD_ACCOUNT_ACCESS_COST)

ReturnDataCopy(f, a) ==
  IF a[2] > f.ret \/ a[3] > f.ret \/ a[2] + a[3] > f.ret
  THEN Fail(f, "INVALID_MEMORY_ACCESS") ELSE Copy(f, a)

MCopy(f, a) ==
  IF a[3] = 0 THEN f
  ELSE copyCodeAndChargeGas(
         checkMemoryExpandAndChargeGas(f, IF a[1] > a[2] THEN a[1] ELSE a[2], a[3]), a[3])

Keccak256(f, a, in) ==
  Push(chargeGas(checkMemoryExpandAndChargeGas(f, a[1], a[2]), 6 * numWords(a[2])), in.word)

MStore(f, op, a) == checkMemoryExpandAndChargeGas(f, a[1], IF op = MSTORE8 THEN 1 ELSE 32)

(* SSTORE_COSTS by storage status: warm gas and refund. *)
SStoreCost(rev, status) ==
  LET warm == IF rev >= BERLIN THEN 100 ELSE 800
      set == 20000
      reset == IF rev >= BERLIN THEN 2900 ELSE 5000
      clear == IF rev >= LONDON THEN 4800 ELSE 15000
  IN  CASE status = "ASSIGNED" -> <<warm, 0>>
        [] status = "ADDED" -> <<set, 0>>
        [] status = "DELETED" -> <<reset, clear>>
        [] status = "MODIFIED" -> <<reset, 0>>
        [] status = "DELETED_ADDED" -> <<warm, -clear>>
        [] status = "MODIFIED_DELETED" -> <<warm, clear>>
        [] status = "DELETED_RESTORED" -> <<warm, reset - warm - clear>>
        [] status = "ADDED_DELETED" -> <<warm, set - warm>>
        [] OTHER -> <<warm, reset - warm>>

(* The storage is written before the gas for the write is charged. *)
SStore(f, in) ==
  LET cost == SStoreCost(f.rev, in.status)
      cold == IF f.rev >= BERLIN /\ in.cold THEN COLD_SLOAD_COST ELSE 0
  IN  addGasRefund(chargeGas(HostWrite(f, SSTORE), cold + cost[1]), cost[2])

(* A precheck that TSTORE, added later, is missing from. *)
PrecheckNoTStore(f, op) ==
  IF op \in {SSTORE, SELFDESTRUCT} \cup LogOps THEN RequireNotStatic(f) ELSE f

(* SSTORE, TSTORE, LOG and SELFDESTRUCT test the static flag, and SSTORE
   the gas stipend, before they look at the stack. *)
Precheck(f, op) ==
  LET g == IF op \in {SSTORE, TSTORE, SELFDESTRUCT} \cup LogOps
           THEN RequireNotStatic(f) ELSE f
  IN  IF op = SSTORE /\ f.rev >= ISTANBUL /\ g.gas <= SSTORE_REQUIRED_ISTANBUL
      THEN Fail(g, "OUT_OF_GAS") ELSE g

Log(f, op, a) ==
  LET g == checkMemoryExpandAndChargeGas(f, a[1], a[2])
  IN  HostWrite(chargeGas(g, 8 * a[2]), op)

(* The nested message's gas, charged for what the host says was used. *)
ChargeUsed(f, given, in) ==
  LET left == (given * in.left) \div 2
  IN  chargeGas(f, IF given > left THEN given - left ELSE 0)

AllButOne64th(gas) == gas - gas \div 64

Create(f, op, a, in) ==
  LET size == a[3]
      word == (IF op = CREATE2 THEN 6 ELSE 0) + (IF f.rev >= SHANGHAI THEN 2 ELSE 0)
      g == checkMemoryExpandAndChargeGas(RequireNotStatic(SetRet(f, 0)), a[2], size)
      h == IF f.rev >= SHANGHAI /\ size > MaxInitcode THEN Fail(g, "OUT_OF_GAS")
           ELSE chargeGas(g, word * uint256ToUint64(numWords(size)))
      done == addGasRefund(ChargeUsed(HostWrite(h, op), AllButOne64th(h.gas), in), in.refund)
  IN  IF ~Running(h) THEN h
      ELSE IF h.deep \/ (a[1] # 0 /\ in.poor) THEN Push(h, 0)
      ELSE IF in.ok THEN Push(SetRet(done, 0), in.word) ELSE Push(SetRet(done, in.size), 0)

resolveDelegatedCallCodeAddress(f, in) ==
  IF f.rev < PRAGUE \/ in.delegate = "none" THEN f
  ELSE chargeGas(f, IF in.delegate = "cold" THEN COLD_ACCOUNT_ACCESS_COST ELSE WARM_STORAGE_READ_COST)

(* Operands of the CALL family after the address: value, then the ranges. *)
CallValueOf(op, a) == IF op \in {CALL, CALLCODE} THEN a[3] ELSE 0
RangesOf(op, a) == IF op \in {CALL, CALLCODE} THEN SubSeq(a, 4, 7) ELSE SubSeq(a, 3, 6)

ValueCost(op, value, in) ==
  (IF value # 0 THEN CALL_VALUE_COST ELSE 0)
    + (IF op = CALL /\ value # 0 /\ in.missing THEN ACCOUNT_CREATION_COST ELSE 0)

(* A STATICCALL, and any call in a static frame, gives the callee a static
   message, so it is not a host mutation of this frame. *)
Call(f, op, a, in) ==
  LET value == CallValueOf(op, a)
      r == RangesOf(op, a)
      c == resolveDelegatedCallCodeAddress(
             ChargeCold(SetRet(f, 0), in, ADDITIONAL_COLD_ACCOUNT_ACCESS_COST), in)
      s == IF op = CALL /\ value # 0 THEN RequireNotStatic(c) ELSE c
      m == checkMemoryExpandAndChargeGas(
             checkMemoryExpandAndChargeGas(s, r[1], r[2]), r[3], r[4])
      v == chargeGas(m, ValueCost(op, value, in))
      cap == AllButOne64th(v.gas)
      want == uint256ToUint64(a[1])
      stipend == IF value # 0 THEN CALL_GAS_STIPEND ELSE 0
      given == (IF want < cap THEN want ELSE cap) + stipend
      g == [v EXCEPT !.gas = @ + stipend]
      write == IF op = STATICCALL \/ f.static THEN g ELSE HostWrite(g, op)
      done == ChargeUsed(SetRet(Push(write, IF in.ok THEN 1 ELSE 0), in.size), given, in)
  IN  IF ~Running(v) THEN v
      ELSE IF (value # 0 /\ in.poor) \/ f.deep THEN Push(g, 0)
      ELSE addGasRefund(done, in.refund)

(* The outputs of RETURN and REVERT; REVERT gives the refund back. *)
Return(f, a) ==
  LET g == checkMemoryExpandAndChargeGas(f, a[1], a[2])
  IN  IF Running(g) THEN [g EXCEPT !.st = "SUCCESS", !.ret = a[2]] ELSE g

Revert(f, a) ==
  LET g == checkMemoryExpandAndChargeGas(f, a[1], a[2])
  IN  IF Running(g) THEN [g EXCEPT !.st = "REVERT", !.ret = a[2], !.refund = f.snap] ELSE g

SelfDestruct(f, in) ==
  LET g == ChargeCold(f, in, COLD_ACCOUNT_ACCESS_COST)
      h == IF ~in.poor /\ in.missing THEN chargeGas(g, ACCOUNT_CREATION_COST) ELSE g
      w == addGasRefund(HostWrite(h, SELFDESTRUCT),
                        IF f.rev < LONDON /\ in.ok THEN EXTRA_REFUND_BEFORE_LONDON ELSE 0)
  IN  IF Running(w) THEN [w EXCEPT !.st = "SUCCESS", !.ret = 0] ELSE w

Stop(f) == IF Running(f) THEN [f EXCEPT !.st = "SUCCESS", !.ret = 0] ELSE f

(* A jump that stays in the paid chunk. *)
JumpToKeepsChunk(f, dest, dests) ==
  IF dest <= U64Max /\ dest \in dests THEN [f EXCEPT !.pc = dest]
  ELSE Fail(f, "BAD_JUMP_DESTINATION")

(* JUMP and JUMPI of the interpreter loop, against the cached map. *)
JumpTo(f, dest, dests) ==
  IF dest <= U64Max /\ dest \in dests THEN [f EXCEPT !.pc = dest, !.until = 0]
  ELSE Fail(f, "BAD_JUMP_DESTINATION")

(* A counter that steps into the immediate of a PUSH. *)
AdvanceOne(f, op) == IF Running(f) THEN [f EXCEPT !.pc = @ + 1] ELSE f

Advance(f, op) == IF Running(f) THEN [f EXCEPT !.pc = @ + opcodeLen(op)] ELSE f

(* The handler of an opcode other than a taken jump, its operands popped. *)
Handler(f, op, a, value, in) ==
  CASE op = INVALID -> Fail(f, "INVALID_INSTRUCTION")
    [] op = STOP -> Stop(f)
    [] op = RETURN -> Return(f, a)
    [] op = REVERT -> Revert(f, a)
    [] op = SELFDESTRUCT -> SelfDestruct(f, in)
    [] op \in PushOps -> Push(f, value)
    [] op \in DupOps -> DupWord(f, a, op - DUP1 + 1)
    [] op \in SwapOps -> SwapWords(f, a, op - SWAP1 + 2)
    [] op \in EnvOps -> Push(f, EnvValue(f, op, in))
    [] op \in LoadOps -> Load(f, op, a, in)
    [] op \in UnaryOps \cup BinaryOps \cup TernaryOps -> Arithmetic(f, op, a, in)
    [] op = KECCAK256 -> Keccak256(f, a, in)
    [] op \in {MSTORE, MSTORE8} -> MStore(f, op, a)
    [] op = SSTORE -> SStore(f, in)
    [] op = TSTORE -> HostWrite(f, TSTORE)
    [] op \in {CALLDATACOPY, CODECOPY} -> Copy(f, a)
    [] op = EXTCODECOPY -> ExtCodeCopy(f, a, in)
    [] op = RETURNDATACOPY -> ReturnDataCopy(f, a)
    [] op = MCOPY -> MCopy(f, a)
    [] op \in LogOps -> Log(f, op, a)
    [] op \in CreateOps -> Create(f, op, a, in)
    [] op \in CallOps -> Call(f, op, a, in)
    [] OTHER -> f

(* One opcode, its base gas paid: pops, checks, effects, next counter. *)
doExecute(frame, op, value, dests, in) ==
  LET p == EVM_STACK_CHECK(Precheck(frame, op), Required(op))
      a == SubSeq(frame.stack, 1, Required(op))
      f == Drop(p, Required(op))
  IN  IF ~Running(p) THEN p
      ELSE IF op = JUMP THEN JumpTo(f, a[1], dests)
      ELSE IF op = JUMPI /\ a[2] # 0 THEN JumpTo(f, a[1], dests)
      ELSE Advance(Handler(f, op, a, value, in), op)

(* The per-opcode path of interpret(): base gas, then the handler. *)
SlowPath(f, code, dests, in) ==
  LET op == Byte(code, f.pc)
      g == chargeGas(f, GasCostOf(op, f.rev))
  IN  IF f.pc >= Len(code) THEN Stop(f)
      ELSE IF ~Defined(op, f.rev) THEN Fail(f, "UNDEFINED_INSTRUCTION")
      ELSE IF ~Running(g) THEN g
      ELSE doExecute(g, op, loadPushValue(code, f.pc), dests, in)

(* interpret(): a chunk whose cost is affordable is paid as a whole and its
   opcodes then run without metering; otherwise opcodes are paid one by one. *)
interpret(f, code, cache, in) ==
  LET op == Byte(code, f.pc)
      g == IF f.pc < f.until THEN f
           ELSE IF cache.end[f.pc] > f.pc /\ f.gas >= cache.cost[f.pc]
           THEN [f EXCEPT !.gas = @ - cache.cost[f.pc], !.until = cache.end[f.pc]]
           ELSE chargeGas([f EXCEPT !.until = 0], GasCostOf(op, f.rev))
  IN  IF f.pc >= Len(code) THEN Stop(f)
      ELSE IF ~Defined(op, f.rev) THEN Fail(g, "UNDEFINED_INSTRUCTION")
      ELSE IF ~Running(g) THEN g
      ELSE doExecute(g, op, loadPushValue(code, f.pc), cache.dests, in)

Finished(f) == f.st \in {"SUCCESS", "REVERT"}
Failed(f) == ~Running(f) /\ ~Finished(f)

(* What the proofs know of a program's bytecode cache: the cost of a chunk is
   the base cost of its instructions, and only its last instruction leaves
   the straight line or looks at the gas. *)
ChunksSound(p) ==
  LET Next(q) == q + opcodeLen(Byte(p.code, q))
      end == p.cache.end
  IN  /\ p.cache.dests = JumpDests(p.code)
      /\ end \in [PCs(p.code) -> Nat] /\ p.cache.cost \in [PCs(p.code) -> Nat]
      /\ \A s \in PCs(p.code) : end[s] > s =>
           /\ p.cache.cost[s] = BaseCost(p.code, p.rev, s, end[s])
           /\ \A q \in InstrStarts(p.code) :
                s <= q /\ Next(q) < end[s] =>
                  Next(q) < Len(p.code) /\ ~isGasChunkTerminator(Byte(p.code, q))
=============================================================================

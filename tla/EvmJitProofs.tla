---------------------------- MODULE EvmJitProofs ----------------------------
(***************************************************************************)
(* What the code the JIT emits and the helpers it calls do to a frame, for *)
(* every word size, stack limit, memory limit and every host answer.       *)
(***************************************************************************)
EXTENDS EvmJit, EvmMachineProofs

(* A record with the fields the stack check is about. *)
Frame(f) == "stack" \in DOMAIN f /\ "st" \in DOMAIN f

(* A step that does not touch the stack and misses no check. *)
Keeps(f, g) ==
  Frame(f) => /\ Frame(g) /\ g.stack = f.stack
              /\ g.st = "CORRUPT" => f.st = "CORRUPT"

(* Such steps compose. *)
LEMMA KeepsTransitive ==
  ASSUME NEW f, NEW g, NEW h, Keeps(f, g), Keeps(g, h)
  PROVE  Keeps(f, h)
BY Zenon DEF Keeps

(* Doing nothing is one. *)
LEMMA KeepsReflexive == ASSUME NEW f PROVE Keeps(f, f)
BY Zenon DEF Keeps

(* An exception leaves the stack as it is. *)
LEMMA FailKeeps == ASSUME NEW f, NEW s, s # "CORRUPT" PROVE Keeps(f, Fail(f, s))
BY DEF Keeps, Frame, Fail

(* So does a charge, paid or not (chargeGas). *)
LEMMA ChargeKeeps == ASSUME NEW f, NEW c PROVE Keeps(f, chargeGas(f, c))
BY DEF Keeps, Frame, Fail, chargeGas

(* A step that adds n words to the stack, or ends the frame without having
   missed a check. *)
Adds(f, g, n) ==
  /\ g.st = "CORRUPT" => f.st = "CORRUPT"
  /\ Running(g) => Len(g.stack) = Len(f.stack) + n

(* The frame of a running instruction. *)
Ready(f) == Frame(f) /\ f.stack \in Seq(Nat)

(* An operation that ends the frame pushes nothing. *)
Closes(f, g) == g.st # "running" /\ (g.st = "CORRUPT" => f.st = "CORRUPT")

(* The opcodes that push one word, and those that push none. *)
OneOps == UnaryOps \cup LoadOps \cup BinaryOps \cup TernaryOps \cup EnvOps \cup PushOps
            \cup CallOps \cup CreateOps \cup {KECCAK256}
NoneOps == {MSTORE, MSTORE8, MCOPY, SSTORE, TSTORE, CALLDATACOPY, CODECOPY, EXTCODECOPY,
            RETURNDATACOPY} \cup LogOps

(* What each kind of opcode pushes (the metrics table). *)
LEMMA PushedTable ==
  ASSUME NEW op \in Bytes
  PROVE  /\ op \in OneOps => Pushed(op) = 1
         /\ op \in NoneOps => Pushed(op) = 0
         /\ op \in DupOps => Pushed(op) = Required(op) + 1
         /\ op \in SwapOps => Pushed(op) = Required(op)
         /\ op \notin OneOps \cup DupOps \cup SwapOps => Pushed(op) = 0
<1>0. op \in Nat
  BY DEF Bytes
<1>1. op \in DupOps => op >= 128 /\ op <= 143
  BY DEF DupOps, DUP1, DUP16
<1>2. op \in SwapOps => op >= 144 /\ op <= 159
  BY DEF SwapOps, SWAP1, SWAP16
<1>3. op \in OneOps => op < 128 \/ op > 159
  <2>1. op \in UnaryOps \cup TernaryOps => op < 128
    BY DEF UnaryOps, TernaryOps, ISZERO, CLZ
  <2>2. op \in BinaryOps => op < 128
    BY DEF BinaryOps, ADD, EXP
  <2>3. op \in LoadOps => op < 128
    BY DEF LoadOps, BALANCE, CALLDATALOAD, EXTCODESIZE, EXTCODEHASH, BLOCKHASH, BLOBHASH,
      MLOAD, SLOAD, TLOAD
  <2>4. op \in EnvOps => op < 128
    BY DEF EnvOps, CALLER, CALLDATASIZE, RETURNDATASIZE, BLOBBASEFEE, PC, MSIZE, GAS
  <2>5. op \in PushOps \cup {KECCAK256} => op < 128
    BY DEF PushOps, PUSH0, PUSH32, KECCAK256
  <2>6. op \in CallOps \cup CreateOps => op > 159
    BY DEF CallOps, CreateOps, CALL, CALLCODE, DELEGATECALL, STATICCALL, CREATE, CREATE2
  <2>. QED BY <2>1, <2>2, <2>3, <2>4, <2>5, <2>6, Zenon DEF OneOps
<1>4. op \in NoneOps => op \notin OneOps \cup DupOps \cup SwapOps
  <2>. SUFFICES ASSUME op \in NoneOps PROVE op \notin OneOps \cup DupOps \cup SwapOps
    OBVIOUS
  <2>1. op \in {55, 57, 60, 62, 82, 83, 85, 93, 94} \cup 160..164
    BY DEF NoneOps, LogOps, LOG0, LOG4, MSTORE, MSTORE8, MCOPY, SSTORE, TSTORE, CALLDATACOPY,
      CODECOPY, EXTCODECOPY, RETURNDATACOPY
  <2>2. op \notin UnaryOps \cup TernaryOps \cup BinaryOps
    BY <2>1 DEF UnaryOps, TernaryOps, BinaryOps, ISZERO, CLZ, ADD, EXP
  <2>3. op \notin LoadOps
    BY <2>1 DEF LoadOps, BALANCE, CALLDATALOAD, EXTCODESIZE, EXTCODEHASH, BLOCKHASH, BLOBHASH,
      MLOAD, SLOAD, TLOAD
  <2>4. op \notin EnvOps
    BY <2>1 DEF EnvOps, CALLER, CALLDATASIZE, RETURNDATASIZE, BLOBBASEFEE, PC, MSIZE, GAS
  <2>5. op \notin PushOps \cup {KECCAK256} \cup CallOps \cup CreateOps
    BY <2>1 DEF PushOps, PUSH0, PUSH32, KECCAK256, CallOps, CreateOps, CALL, CALLCODE,
      DELEGATECALL, STATICCALL, CREATE, CREATE2
  <2>6. op \notin DupOps \cup SwapOps
    BY <1>0, <1>1, <1>2, <2>1
  <2>. QED BY <2>2, <2>3, <2>4, <2>5, <2>6, Zenon DEF OneOps
<1>5. op \in SwapOps => op \notin DupOps
  BY <1>0, <1>1, <1>2
<1>6. op \in OneOps => op \notin DupOps /\ op \notin SwapOps
  BY <1>0, <1>1, <1>2, <1>3
<1>7. /\ op \in DupOps => Pushed(op) = Required(op) + 1
      /\ op \in SwapOps => Pushed(op) = Required(op)
      /\ op \in OneOps => Pushed(op) = 1
      /\ op \notin OneOps \cup DupOps \cup SwapOps => Pushed(op) = 0
  BY <1>5, <1>6, SMT DEF Pushed, OneOps
<1>. QED BY <1>4, <1>7, Zenon

(* Both counts are numbers. *)
LEMMA PushedType ==
  ASSUME NEW op \in Bytes
  PROVE  Required(op) \in Nat /\ Pushed(op) \in Nat
<1>1. Required(op) \in 0..17
  BY MetricsType, Zenon
<1>2. Pushed(op) \in {0, 1, Required(op), Required(op) + 1}
  BY PushedTable, Zenon
<1>3. \A x \in 0..17 : \A y \in {0, 1, x, x + 1} : x \in Nat /\ y \in Nat
  OBVIOUS
<1>. QED BY <1>1, <1>2, <1>3, Zenon

(* The code emitted for an opcode, its operands popped, adds the words that
   the metrics table says it pushes, and misses no check where there is room
   for them. *)
LEMMA EmittedAdds ==
  \A f, op, a, value, in :
    /\ Ready(f) /\ Running(f) /\ op \in Bytes /\ a \in Seq(Nat)
    /\ Len(a) = Required(op) /\ Len(f.stack) + Pushed(op) <= MaxStack
    /\ (op \in DupOps \cup SwapOps => Len(a) + Len(f.stack) <= MaxStack)
    => Adds(f, handleOpcode(f, op, a, value, in), Pushed(op))
(* The helpers that set another field of the frame, or test one. *)
<1>FieldsKeep.
      ASSUME NEW f, NEW n
      PROVE  /\ Keeps(f, SetRet(f, n)) /\ Keeps(f, HostWrite(f, n)) /\ Keeps(f, addGasRefund(f, n))
             /\ Keeps(f, RequireNotStatic(f)) /\ Keeps(f, normalizeOperandU64(f, n))
             /\ Keeps(f, reloadMemorySizeFromInstance(f))
  BY <1>FieldsKeep DEF Keeps, Frame, Fail, SetRet, HostWrite, addGasRefund, RequireNotStatic, normalizeOperandU64,
    reloadMemorySizeFromInstance
(* The charge for a cold access. *)
<1>ColdKeeps.
      ASSUME NEW f, NEW in, NEW c PROVE Keeps(f, ChargeCold(f, in, c))
  BY <1>ColdKeeps, ChargeKeeps, KeepsReflexive DEF ChargeCold
(* The charge for the gas a callee has used. *)
<1>UsedKeeps.
      ASSUME NEW f, NEW given, NEW in PROVE Keeps(f, ChargeUsed(f, given, in))
  BY <1>UsedKeeps, ChargeKeeps DEF ChargeUsed
(* An offset and a size that must be machine integers (normalizeOffsetWithSize). *)
<1>NormalizeKeeps.
      ASSUME NEW f, NEW off, NEW size PROVE Keeps(f, normalizeOffsetWithSize(f, off, size))
  <2>. USE <1>NormalizeKeeps
  <2>. DEFINE g == normalizeOperandU64(f, size)
  <2>1. Keeps(f, g) /\ Keeps(g, normalizeOperandU64(g, off))
    BY <1>FieldsKeep
  <2>2. normalizeOffsetWithSize(f, off, size) \in {g, normalizeOperandU64(g, off)}
    BY DEF normalizeOffsetWithSize
  <2>. HIDE DEF g
  <2>. QED BY <2>1, <2>2, KeepsTransitive
(* Expansion of the memory by emitted code (expandMemoryIR). *)
<1>ExpandIRKeeps.
      ASSUME NEW f, NEW size PROVE Keeps(f, expandMemoryIR(f, size))
  <2>. USE <1>ExpandIRKeeps
  <2>. DEFINE end == 32 * numWords(size)
              g == chargeGas(f, MemoryGas(end) - MemoryGas(f.msz))
              h == [g EXCEPT !.mem = end, !.msz = end]
  <2>1. expandMemoryIR(f, size) \in {f, Fail(f, "OUT_OF_GAS"), g, h}
    BY DEF expandMemoryIR
  <2>2. Keeps(f, g) /\ Keeps(f, Fail(f, "OUT_OF_GAS")) /\ Keeps(f, f)
    BY ChargeKeeps, FailKeeps, KeepsReflexive
  <2>. HIDE DEF g, end
  <2>3. Keeps(g, h)
    BY DEF Keeps, Frame
  <2>. HIDE DEF h
  <2>. QED BY <2>1, <2>2, <2>3, KeepsTransitive
(* Expansion of the memory by the runtime (expandMemoryChecked). *)
<1>ExpandCheckedKeeps.
      ASSUME NEW f, NEW ranges PROVE Keeps(f, expandMemoryChecked(f, ranges))
  <2>. USE <1>ExpandCheckedKeeps
  <2>. DEFINE used == {r \in ranges : r[2] > 0}
              size == CHOOSE s \in {r[1] + r[2] : r \in used} : \A r \in used : r[1] + r[2] <= s
              end == 32 * numWords(size)
              h == chargeGas(f, MemoryGas(end) - MemoryGas(f.mem))
              x == [h EXCEPT !.mem = end]
              y == expandMemoryChecked(f, ranges)
  <2>1. y = IF used = {} \/ ~Running(f) THEN f
            ELSE IF size > U64Max \/ size > MaxMemory THEN Fail(f, "OUT_OF_GAS")
            ELSE IF end <= f.mem THEN f
            ELSE IF Running(h) THEN x ELSE h
    BY DEF expandMemoryChecked
  <2>. HIDE DEF used, size, y
  <2>2. y = f \/ y = Fail(f, "OUT_OF_GAS") \/ y = h \/ y = x
    BY <2>1, Zenon
  <2>3. Keeps(f, h) /\ Keeps(f, Fail(f, "OUT_OF_GAS")) /\ Keeps(f, f)
    BY ChargeKeeps, FailKeeps, KeepsReflexive
  <2>. HIDE DEF h, end
  <2>4. Keeps(h, x)
    BY DEF Keeps, Frame
  <2>. HIDE DEF x
  <2>5. Keeps(f, y)
    BY <2>2, <2>3, <2>4, KeepsTransitive
  <2>. QED BY <2>5 DEF y
(* Pushing makes a stack one word longer. *)
<1>ConsLength.
      ASSUME NEW s \in Seq(Nat), NEW v PROVE Len(<<v>> \o s) = Len(s) + 1
  <2>. USE <1>ConsLength
  <2>. DEFINE S == Nat \cup {v}
  <2>1. s \in Seq(S) /\ <<v>> \in Seq(S) /\ Len(<<v>>) = 1
    OBVIOUS
  <2>. HIDE DEF S
  <2>2. Len(<<v>> \o s) = Len(<<v>>) + Len(s)
    BY <2>1
  <2>. QED BY <2>1, <2>2
(* A step that keeps the stack adds nothing. *)
<1>KeepsAdds.
      ASSUME NEW f, Ready(f), NEW g, Keeps(f, g) PROVE Adds(f, g, 0)
  <2>. USE <1>KeepsAdds
  <2>1. Len(f.stack) \in Nat
    BY DEF Ready
  <2>. QED BY <2>1 DEF Ready, Keeps, Adds
(* A push below the limit adds one word. *)
<1>PushAdds.
      ASSUME NEW f, Ready(f), Len(f.stack) < MaxStack, NEW g, Keeps(f, g), NEW v
      PROVE  Adds(f, StackPush(g, v), 1)
  <2>. USE <1>PushAdds
  <2>1. Frame(g) /\ g.stack = f.stack /\ (g.st = "CORRUPT" => f.st = "CORRUPT")
    BY Zenon DEF Keeps, Ready
  <2>2. Len(f.stack) \in Nat /\ ~(Len(f.stack) >= MaxStack)
    BY CodeAssumption DEF Ready
  <2>. DEFINE h == [g EXCEPT !.stack = <<v>> \o @]
  <2>3. StackPush(g, v) \in {g, h} /\ (Running(StackPush(g, v)) => StackPush(g, v) = h)
    <3>1. StackPush(g, v) = IF ~Running(g) THEN g ELSE h
      BY <2>1, <2>2 DEF StackPush, Push
    <3>. QED BY <3>1, Zenon
  <2>4. h.st = g.st /\ h.stack = <<v>> \o f.stack
    BY <2>1 DEF Frame
  <2>5. Len(<<v>> \o f.stack) = Len(f.stack) + 1
    BY <1>ConsLength, Zenon DEF Ready
  <2>. HIDE DEF h
  <2>. QED BY <2>1, <2>3, <2>4, <2>5, Zenon DEF Adds
(* Reloading the cached memory size adds nothing more. *)
<1>ReloadAdds.
      ASSUME NEW f, NEW g, NEW n, Frame(g), Adds(f, g, n)
      PROVE  Adds(f, reloadMemorySizeFromInstance(g), n)
  <2>. USE <1>ReloadAdds
  <2>. DEFINE h == reloadMemorySizeFromInstance(g)
  <2>1. h.st = g.st /\ h.stack = g.stack
    BY DEF reloadMemorySizeFromInstance, Frame
  <2>. HIDE DEF h
  <2>2. Adds(f, h, n)
    BY <2>1, Zenon DEF Adds, Running
  <2>. QED BY <2>2 DEF h
(* A push leaves a frame. *)
<1>PushFrame.
      ASSUME NEW g, Frame(g), NEW v PROVE Frame(StackPush(g, v))
  BY <1>PushFrame DEF StackPush, Push, Corrupt, Fail, Frame
(* A push whose helper may have grown the memory. *)
<1>ReloadPushAdds.
      ASSUME NEW f, Ready(f), Len(f.stack) < MaxStack, NEW g, Keeps(f, g), NEW v
      PROVE  Adds(f, reloadMemorySizeFromInstance(StackPush(g, v)), 1)
  <2>. USE <1>ReloadPushAdds
  <2>1. Frame(g)
    BY Zenon DEF Keeps, Ready
  <2>. QED BY <2>1, <1>PushAdds, <1>PushFrame, <1>ReloadAdds, Zenon
(* What the stack would be after the frame has ended does not matter. *)
<1>EndAdds.
      ASSUME NEW f, NEW g, Closes(f, g), NEW n PROVE Adds(f, g, n)
  BY <1>EndAdds, Zenon DEF Closes, Adds, Running
(* The arithmetic of putting words back. *)
<1>SumOfLengths.
      ASSUME NEW x \in Nat, NEW y \in Nat, NEW z, z = x + y
      PROVE  z + 1 = y + (x + 1) /\ z = y + x
  BY <1>SumOfLengths
(* A direct access to the memory, with or without a plan of its block. *)
<1>AccessKeeps.
      ASSUME NEW f, NEW op, NEW addr PROVE Keeps(f, DirectAccess(f, op, addr))
  <2>. USE <1>AccessKeeps
  <2>1. ASSUME NEW g, NEW size PROVE Keeps(g, TakePlan(g, size))
    <3>. DEFINE h == IF g.plan.paid THEN g ELSE expandMemoryIR(g, size)
                p == [h.plan EXCEPT !.paid = TRUE, !.ops = @ - 1]
                k == [h EXCEPT !.plan = p]
    <3>1. TakePlan(g, size) = k
      BY DEF TakePlan
    <3>2. Keeps(g, h)
      BY <1>ExpandIRKeeps, KeepsReflexive
    <3>. HIDE DEF h, p
    <3>3. Keeps(h, k)
      BY DEF Keeps, Frame
    <3>. HIDE DEF k
    <3>. QED BY <3>1, <3>2, <3>3, KeepsTransitive, Zenon
  <2>2. ASSUME NEW g, NEW w, NEW size
        PROVE  /\ Keeps(g, normalizeOperandU64(g, w)) /\ Keeps(g, TakePlan(normalizeOperandU64(g, w), size))
               /\ Keeps(g, expandMemoryIR(normalizeOperandU64(g, w), size))
    BY <2>1, <1>FieldsKeep, <1>ExpandIRKeeps, KeepsTransitive, Zenon
  <2>3. Keeps(f, tryConsumeLinearBlockMemoryPrecheck(f, addr))
    <3>. DEFINE g == IF f.plan.paid THEN f ELSE normalizeOperandU64(f, f.stack[2])
                size == addr + f.stack[2] * (f.plan.ops - 1) + f.plan.size
    <3>1. tryConsumeLinearBlockMemoryPrecheck(f, addr) \in {g, TakePlan(g, size)}
      BY DEF tryConsumeLinearBlockMemoryPrecheck
    <3>2. g = f \/ g = normalizeOperandU64(f, f.stack[2])
      BY Zenon
    <3>. HIDE DEF g, size
    <3>3. Keeps(f, g) /\ Keeps(f, TakePlan(g, size))
      BY <2>1, <2>2, <3>2, KeepsReflexive, Zenon
    <3>. QED BY <3>1, <3>3, Zenon
  <2>. DEFINE g == normalizeOperandU64(f, addr)
  <2>4. \E size : DirectAccess(f, op, addr) \in
          {tryConsumeLinearBlockMemoryPrecheck(f, addr), TakePlan(g, f.plan.size), expandMemoryIR(g, size)}
    BY Zenon DEF DirectAccess
  <2>. QED BY <2>2, <2>3, <2>4, Zenon
(* MCOPY takes its operands and leaves the rest of the stack. *)
<1>MCopyKeeps.
      ASSUME NEW f, NEW a PROVE Keeps(f, handleMCopy(f, a))
  <2>. USE <1>MCopyKeeps
  <2>. DEFINE x == normalizeOperandU64(f, a[1])
              y == normalizeOperandU64(x, a[2])
              g == normalizeOperandU64(y, a[3])
              c == chargeGas(g, 3 * numWords(a[3]))
              end == (IF a[1] > a[2] THEN a[1] ELSE a[2]) + a[3]
  <2>1. handleMCopy(f, a) \in {f, g, expandMemoryIR(c, end)}
    BY DEF handleMCopy
  <2>2. Keeps(f, x) /\ Keeps(x, y) /\ Keeps(y, g) /\ Keeps(g, c) /\ Keeps(c, expandMemoryIR(c, end))
    BY <1>FieldsKeep, ChargeKeeps, <1>ExpandIRKeeps, Zenon
  <2>. HIDE DEF x, y, g, c, end
  <2>3. Keeps(f, g)
    BY <2>2, KeepsTransitive, Zenon
  <2>. QED BY <2>1, <2>2, <2>3, KeepsReflexive, KeepsTransitive
(* The copies of call data, code and return data do the same. *)
<1>CopyKeeps.
      ASSUME NEW f, NEW a, NEW in
      PROVE  /\ Keeps(f, evmSetCallDataCopy(f, a)) /\ Keeps(f, evmSetCodeCopy(f, a))
             /\ Keeps(f, evmSetExtCodeCopy(f, a, in)) /\ Keeps(f, evmSetReturnDataCopy(f, a))
  <2>. USE <1>CopyKeeps
  <2>1. ASSUME NEW g, NEW ranges, NEW c PROVE Keeps(g, chargeGas(expandMemoryChecked(g, ranges), c))
    BY ChargeKeeps, <1>ExpandCheckedKeeps, KeepsTransitive, Zenon
  <2>2. ASSUME NEW g PROVE Keeps(g, evmSetCallDataCopy(g, a))
    <3>1. \E ranges, c : evmSetCallDataCopy(g, a) \in {g, chargeGas(expandMemoryChecked(g, ranges), c)}
      BY Zenon DEF evmSetCallDataCopy
    <3>. QED BY <2>1, <3>1, KeepsReflexive, Zenon
  <2>3. Keeps(f, evmSetCodeCopy(f, a))
    BY <2>2, <1>NormalizeKeeps, KeepsTransitive, Zenon DEF evmSetCodeCopy
  <2>4. Keeps(f, evmSetExtCodeCopy(f, a, in))
    BY <2>1, <1>ColdKeeps, KeepsTransitive, Zenon DEF evmSetExtCodeCopy
  <2>5. Keeps(f, Fail(f, "OUT_OF_BOUNDS_MEMORY"))
    BY FailKeeps
  <2>6. Keeps(f, evmSetReturnDataCopy(f, a))
    BY <2>2, <2>5, Zenon DEF evmSetReturnDataCopy
  <2>. QED BY <2>2, <2>3, <2>4, <2>6
(* SSTORE, TSTORE and the LOGs push nothing. *)
<1>WritesKeep.
      ASSUME NEW f, NEW op, NEW a, NEW in
      PROVE  /\ Keeps(f, evmEmitLogGeneric(f, op, a)) /\ Keeps(f, evmSetSStore(f, in))
             /\ Keeps(f, evmSetTStore(f))
  <2>. USE <1>WritesKeep
  <2>. DEFINE n == normalizeOffsetWithSize(f, a[1], a[2])
              g == RequireNotStatic(n)
              m == expandMemoryChecked(g, {<<a[1], a[2]>>})
              c == chargeGas(m, 8 * a[2])
  <2>1. Keeps(f, n) /\ Keeps(n, g) /\ Keeps(g, m) /\ Keeps(m, c) /\ Keeps(c, HostWrite(c, op))
    BY <1>NormalizeKeeps, <1>FieldsKeep, <1>ExpandCheckedKeeps, ChargeKeeps, Zenon
  <2>2. evmEmitLogGeneric(f, op, a) = HostWrite(c, op)
    BY DEF evmEmitLogGeneric
  <2>. HIDE DEF n, g, m, c
  <2>3. Keeps(f, m)
    BY <2>1, KeepsTransitive, Zenon
  <2>4. Keeps(f, evmEmitLogGeneric(f, op, a))
    BY <2>1, <2>2, <2>3, KeepsTransitive, Zenon
  <2>. DEFINE r == RequireNotStatic(f)
              w == HostWrite(r, SSTORE)
  <2>5. Keeps(f, r) /\ Keeps(r, w) /\ Keeps(r, HostWrite(r, TSTORE)) /\ Keeps(r, Fail(r, "OUT_OF_GAS"))
    BY <1>FieldsKeep, FailKeeps
  <2>6. \E k, s : evmSetSStore(f, in) \in {Fail(r, "OUT_OF_GAS"), addGasRefund(chargeGas(w, k), s)}
    BY Zenon DEF evmSetSStore
  <2>7. evmSetTStore(f) = HostWrite(r, TSTORE)
    BY DEF evmSetTStore
  <2>. HIDE DEF r, w
  <2>8. ASSUME NEW k, NEW s PROVE Keeps(w, addGasRefund(chargeGas(w, k), s))
    BY ChargeKeeps, <1>FieldsKeep, KeepsTransitive, Zenon
  <2>9. Keeps(f, w)
    BY <2>5, KeepsTransitive, Zenon
  <2>10. Keeps(f, evmSetSStore(f, in)) /\ Keeps(f, evmSetTStore(f))
    BY <2>5, <2>6, <2>7, <2>8, <2>9, KeepsTransitive, Zenon
  <2>. QED BY <2>4, <2>10
(* KECCAK256 pushes its hash. *)
<1>KeccakAdds.
      ASSUME NEW f, Ready(f), Len(f.stack) < MaxStack, NEW a, NEW in
      PROVE  Adds(f, reloadMemorySizeFromInstance(evmGetKeccak256(f, a, in)), 1)
  <2>. USE <1>KeccakAdds
  <2>. DEFINE n == normalizeOffsetWithSize(f, a[1], a[2])
              m == expandMemoryChecked(n, {<<a[1], a[2]>>})
              c == chargeGas(m, 6 * numWords(a[2]))
  <2>1. Keeps(f, n) /\ Keeps(n, m) /\ Keeps(m, c)
    BY <1>NormalizeKeeps, <1>ExpandCheckedKeeps, ChargeKeeps, Zenon
  <2>2. evmGetKeccak256(f, a, in) = StackPush(c, in.word)
    BY DEF evmGetKeccak256
  <2>. HIDE DEF n, m, c
  <2>3. Keeps(f, c)
    BY <2>1, KeepsTransitive, Zenon
  <2>. QED BY <2>2, <2>3, <1>ReloadPushAdds, Zenon
(* CREATE and CREATE2 push the address or zero, on every path. *)
<1>CreateAdds.
      ASSUME NEW f, Ready(f), Len(f.stack) < MaxStack, NEW op, NEW a, NEW in
      PROVE  Adds(f, reloadMemorySizeFromInstance(evmHandleCreateInternal(f, op, a, in)), 1)
  <2>. USE <1>CreateAdds
  <2>. DEFINE size == a[3]
              word == (IF op = CREATE2 THEN 6 ELSE 0) + (IF f.rev >= SHANGHAI THEN 2 ELSE 0)
              n == normalizeOffsetWithSize(f, a[2], size)
              s == RequireNotStatic(n)
              g == expandMemoryChecked(s, {<<a[2], size>>})
              h == IF f.rev >= SHANGHAI /\ size > MaxInitcode THEN Fail(g, "OUT_OF_GAS")
                   ELSE chargeGas(g, word * numWords(size))
              u == ChargeUsed(HostWrite(h, op), AllButOne64th(h.gas), in)
              done == addGasRefund(u, in.refund)
              r == evmHandleCreateInternal(f, op, a, in)
  <2>1. r = IF ~Running(h) THEN h
            ELSE IF h.deep \/ (a[1] # 0 /\ in.poor) THEN StackPush(SetRet(h, 0), 0)
            ELSE StackPush(SetRet(done, in.size), IF in.ok THEN in.word ELSE 0)
    BY DEF evmHandleCreateInternal
  <2>2. Keeps(f, n) /\ Keeps(n, s) /\ Keeps(s, g) /\ Keeps(g, h)
    <3>1. Keeps(g, Fail(g, "OUT_OF_GAS"))
      BY FailKeeps
    <3>. QED BY <3>1, <1>NormalizeKeeps, <1>FieldsKeep, <1>ExpandCheckedKeeps, ChargeKeeps, Zenon
  <2>. HIDE DEF size, word, n, s, g
  <2>3. Keeps(f, h)
    <3>1. Keeps(f, s)
      BY <2>2, KeepsTransitive, Zenon
    <3>. HIDE DEF h
    <3>. QED BY <2>2, <3>1, KeepsTransitive, Zenon
  <2>. HIDE DEF h
  <2>4. Keeps(h, u)
    BY <1>FieldsKeep, <1>UsedKeeps, KeepsTransitive, Zenon
  <2>. HIDE DEF u
  <2>5. Keeps(u, done)
    BY <1>FieldsKeep, Zenon
  <2>. HIDE DEF done
  <2>6. Keeps(f, SetRet(h, 0)) /\ Keeps(f, SetRet(done, in.size))
    <3>1. Keeps(f, done)
      BY <2>3, <2>4, <2>5, KeepsTransitive, Zenon
    <3>. QED BY <2>3, <3>1, <1>FieldsKeep, KeepsTransitive, Zenon
  <2>. HIDE DEF r
  <2>7. CASE ~Running(h)
    <3>1. r = h /\ Frame(h) /\ (h.st = "CORRUPT" => f.st = "CORRUPT")
      BY <2>1, <2>3, <2>7, Zenon DEF Keeps, Ready
    <3>2. Adds(f, h, 1)
      BY <2>7, <3>1, Zenon DEF Adds
    <3>. QED BY <3>1, <3>2, <1>ReloadAdds, Zenon DEF r
  <2>8. CASE Running(h)
    <3>1. \E x, v : Keeps(f, x) /\ r = StackPush(x, v)
      BY <2>1, <2>6, <2>8, Zenon
    <3>. QED BY <3>1, <1>ReloadPushAdds, Zenon DEF r
  <2>. QED BY <2>7, <2>8
(* The CALLs push their success flag, on every path. *)
<1>CallAdds.
      ASSUME NEW f, Ready(f), Len(f.stack) < MaxStack, NEW op, NEW a, NEW in
      PROVE  Adds(f, reloadMemorySizeFromInstance(evmHandleCallInternal(f, op, a, in)), 1)
  <2>. USE <1>CallAdds
  <2>. DEFINE value == CallValueOf(op, a)
              r == RangesOf(op, a)
              x == normalizeOffsetWithSize(f, r[1], r[2])
              n == normalizeOffsetWithSize(x, r[3], r[4])
              c == ChargeCold(n, in, ADDITIONAL_COLD_ACCOUNT_ACCESS_COST)
              s == IF op = CALL /\ value # 0 THEN RequireNotStatic(c) ELSE c
              m == expandMemoryChecked(s, {<<r[1], r[2]>>, <<r[3], r[4]>>})
              v == chargeGas(m, ValueCost(op, value, in))
              cap == AllButOne64th(v.gas)
              want == uint256ToUint64(a[1])
              stipend == IF value # 0 THEN CALL_GAS_STIPEND ELSE 0
              given == (IF want < cap THEN want ELSE cap) + stipend
              g == [v EXCEPT !.gas = @ + stipend]
              write == IF op = STATICCALL \/ f.static THEN g ELSE HostWrite(g, op)
              u == ChargeUsed(write, given, in)
              done == addGasRefund(u, in.refund)
              y == evmHandleCallInternal(f, op, a, in)
  <2>1. y = IF ~Running(v) THEN v
            ELSE IF (value # 0 /\ in.poor) \/ f.deep THEN StackPush(SetRet(g, 0), 0)
            ELSE StackPush(SetRet(done, in.size), IF in.ok THEN 1 ELSE 0)
    BY DEF evmHandleCallInternal
  <2>. HIDE DEF y, value, r, cap, want, given
  <2>2. Keeps(f, x) /\ Keeps(x, n) /\ Keeps(n, c) /\ Keeps(s, m) /\ Keeps(m, v)
    BY <1>NormalizeKeeps, <1>ColdKeeps, <1>ExpandCheckedKeeps, ChargeKeeps, Zenon
  <2>3. Keeps(c, s)
    BY <1>FieldsKeep, KeepsReflexive, Zenon
  <2>. HIDE DEF x, n, c, s, m, v, stipend
  <2>4. Keeps(f, v)
    <3>1. Keeps(f, n)
      BY <2>2, KeepsTransitive, Zenon
    <3>2. Keeps(f, s)
      BY <2>2, <2>3, <3>1, KeepsTransitive, Zenon
    <3>. QED BY <2>2, <3>2, KeepsTransitive, Zenon
  <2>5. Keeps(v, g)
    BY DEF Keeps, Frame
  <2>. HIDE DEF g
  <2>6. Keeps(g, write)
    BY <1>FieldsKeep, KeepsReflexive, Zenon
  <2>. HIDE DEF write
  <2>7. Keeps(write, u)
    BY <1>UsedKeeps, Zenon
  <2>. HIDE DEF u
  <2>8. Keeps(u, done)
    BY <1>FieldsKeep, Zenon
  <2>. HIDE DEF done
  <2>9. Keeps(f, SetRet(g, 0)) /\ Keeps(f, SetRet(done, in.size))
    <3>1. Keeps(f, g)
      BY <2>4, <2>5, KeepsTransitive, Zenon
    <3>2. Keeps(f, done)
      BY <2>6, <2>7, <2>8, <3>1, KeepsTransitive, Zenon
    <3>. QED BY <3>1, <3>2, <1>FieldsKeep, KeepsTransitive, Zenon
  <2>10. CASE ~Running(v)
    <3>1. y = v /\ Frame(v) /\ (v.st = "CORRUPT" => f.st = "CORRUPT")
      BY <2>1, <2>4, <2>10, Zenon DEF Keeps, Ready
    <3>2. Adds(f, v, 1)
      BY <2>10, <3>1, Zenon DEF Adds
    <3>. QED BY <3>1, <3>2, <1>ReloadAdds, Zenon DEF y
  <2>11. CASE Running(v)
    <3>1. \E z, w : Keeps(f, z) /\ y = StackPush(z, w)
      BY <2>1, <2>9, <2>11, Zenon
    <3>. QED BY <3>1, <1>ReloadPushAdds, Zenon DEF y
  <2>. QED BY <2>10, <2>11
(* STOP, RETURN, REVERT, SELFDESTRUCT and INVALID end the frame. *)
<1>ReturnEnds.
      ASSUME NEW f, Ready(f), Running(f), NEW a, NEW in
      PROVE  /\ Closes(f, evmSetReturn(f, a)) /\ Closes(f, evmSetRevert(f, a))
             /\ Closes(f, evmHandleSelfDestruct(f, in))
             /\ Closes(f, Stop(f)) /\ Closes(f, Fail(f, "INVALID_INSTRUCTION"))
  <2>. USE <1>ReturnEnds
  <2>. DEFINE size == uint256ToUint64(a[2])
              g == expandMemoryChecked(f, {<<uint256ToUint64(a[1]), size>>})
  <2>1. Keeps(f, g)
    BY <1>ExpandCheckedKeeps, Zenon
  <2>2. /\ evmSetReturn(f, a) = IF Running(g) THEN [g EXCEPT !.st = "SUCCESS", !.ret = size] ELSE g
        /\ evmSetRevert(f, a) =
             IF Running(g) THEN [g EXCEPT !.st = "REVERT", !.ret = size, !.refund = f.snap] ELSE g
    BY DEF evmSetReturn, evmSetRevert
  <2>. HIDE DEF g, size
  <2>3. Closes(f, evmSetReturn(f, a)) /\ Closes(f, evmSetRevert(f, a))
    BY <2>1, <2>2 DEF Closes, Ready, Keeps, Frame, Running
  <2>. DEFINE x == RequireNotStatic(f)
              y == ChargeCold(x, in, COLD_ACCOUNT_ACCESS_COST)
              h == IF ~in.poor /\ in.missing THEN chargeGas(y, ACCOUNT_CREATION_COST) ELSE y
              k == IF x.rev < LONDON /\ in.ok THEN EXTRA_REFUND_BEFORE_LONDON ELSE 0
              v == HostWrite(h, SELFDESTRUCT)
              w == addGasRefund(v, k)
  <2>4. evmHandleSelfDestruct(f, in)
          = IF Running(w) THEN [w EXCEPT !.st = "SUCCESS", !.ret = 0] ELSE w
    BY DEF evmHandleSelfDestruct, SelfDestruct
  <2>5. Keeps(f, x) /\ Keeps(x, y) /\ Keeps(y, h) /\ Keeps(h, v) /\ Keeps(v, w)
    BY <1>FieldsKeep, <1>ColdKeeps, ChargeKeeps, KeepsReflexive, Zenon
  <2>. HIDE DEF x, y, h, v, w
  <2>6. Keeps(f, w)
    <3>1. Keeps(f, h)
      BY <2>5, KeepsTransitive, Zenon
    <3>. QED BY <2>5, <3>1, KeepsTransitive, Zenon
  <2>7. Closes(f, evmHandleSelfDestruct(f, in))
    BY <2>4, <2>6 DEF Closes, Ready, Keeps, Frame, Running
  <2>8. Closes(f, Stop(f)) /\ Closes(f, Fail(f, "INVALID_INSTRUCTION"))
    BY DEF Stop, Fail, Closes, Ready, Frame, Running
  <2>. QED BY <2>3, <2>7, <2>8
(* The words a DUP or a SWAP has taken off are put back. *)
<1>WordsAdds.
      ASSUME NEW f, Ready(f), NEW a \in Seq(Nat), Len(a) + Len(f.stack) <= MaxStack
      PROVE  /\ Len(a) + Len(f.stack) < MaxStack =>
                  \A v : Adds(f, StackPush([f EXCEPT !.stack = a \o @], v), Len(a) + 1)
             /\ \A n \in 1..Len(a) : Adds(f, SwapWords(f, a, n), Len(a))
  <2>. USE <1>WordsAdds
  <2>1. ASSUME NEW b \in Seq(Nat), Len(b) = Len(a)
        PROVE  LET g == [f EXCEPT !.stack = b \o @]
               IN  Ready(g) /\ Len(g.stack) = Len(a) + Len(f.stack) /\ Keeps(g, g) /\ g.st = f.st
    <3>. DEFINE g == [f EXCEPT !.stack = b \o @]
    <3>1. g.stack = b \o f.stack /\ Frame(g) /\ g.st = f.st
      BY DEF Ready, Frame
    <3>2. b \o f.stack \in Seq(Nat) /\ Len(b \o f.stack) = Len(a) + Len(f.stack)
      <4>1. f.stack \in Seq(Nat)
        BY DEF Ready
      <4>2. b \o f.stack \in Seq(Nat) /\ Len(b \o f.stack) = Len(b) + Len(f.stack)
        BY <4>1, ConcatProperties, Zenon
      <4>3. ASSUME NEW x, x = Len(b) + Len(f.stack) PROVE x = Len(a) + Len(f.stack)
        BY <2>1, <4>3, Zenon
      <4>. QED BY <4>2, <4>3, Zenon
    <3>. QED BY <3>1, <3>2, KeepsReflexive, Zenon DEF Ready
  <2>. DEFINE g == [f EXCEPT !.stack = a \o @]
  <2>2. ASSUME Len(a) + Len(f.stack) < MaxStack, NEW v
        PROVE  Adds(f, StackPush(g, v), Len(a) + 1)
    <3>1. Ready(g) /\ Len(g.stack) = Len(a) + Len(f.stack) /\ Keeps(g, g) /\ g.st = f.st
      BY <2>1, Zenon
    <3>. HIDE DEF g
    <3>2. Adds(g, StackPush(g, v), 1)
      <4>1. Len(g.stack) < MaxStack
        BY <2>2, <3>1
      <4>. QED BY <3>1, <4>1, <1>PushAdds, Zenon
    <3>3. Len(a) \in Nat /\ Len(f.stack) \in Nat
      BY DEF Ready
    <3>4. Len(g.stack) + 1 = Len(f.stack) + (Len(a) + 1)
      BY <3>1, <3>3, <1>SumOfLengths, Zenon
    <3>. QED BY <3>1, <3>2, <3>4, Zenon DEF Adds
  <2>3. ASSUME NEW n \in 1..Len(a) PROVE Adds(f, SwapWords(f, a, n), Len(a))
    <3>. DEFINE b == [a EXCEPT ![1] = a[n], ![n] = a[1]]
                h == [f EXCEPT !.stack = b \o @]
    <3>1. b \in Seq(Nat) /\ Len(b) = Len(a)
      <4>1. a \in [1..Len(a) -> Nat] /\ Len(a) \in Nat /\ 1 \in 1..Len(a)
        OBVIOUS
      <4>2. b \in [1..Len(a) -> Nat]
        BY <4>1
      <4>. QED BY <4>1, <4>2
    <3>2. SwapWords(f, a, n) = h
      BY DEF SwapWords
    <3>3. Len(h.stack) = Len(a) + Len(f.stack) /\ h.st = f.st
      BY <2>1, <3>1, Zenon
    <3>4. Len(a) + Len(f.stack) = Len(f.stack) + Len(a)
      BY DEF Ready
    <3>. HIDE DEF h
    <3>. QED BY <3>2, <3>3, <3>4, Zenon DEF Adds
  <2>. QED BY <2>2, <2>3, Zenon
<1>Handler.
      ASSUME NEW f, Ready(f), Running(f), NEW op \in Bytes, NEW a \in Seq(Nat),
             Len(a) = Required(op), Len(f.stack) + Pushed(op) <= MaxStack,
             op \in DupOps \cup SwapOps => Len(a) + Len(f.stack) <= MaxStack, NEW value, NEW in
      PROVE  Adds(f, handleOpcode(f, op, a, value, in), Pushed(op))
  <2>. USE <1>Handler
  <2>. DEFINE n == Pushed(op)
              Ok(g) == Adds(f, g, n)
  <2>1. ASSUME NEW g, Keeps(f, g), n = 0 PROVE Ok(g) /\ Ok(reloadMemorySizeFromInstance(g))
    <3>1. Adds(f, g, 0) /\ Frame(g)
      BY <2>1, <1>KeepsAdds, Zenon DEF Keeps, Ready
    <3>. QED BY <2>1, <3>1, <1>ReloadAdds, Zenon
  <2>2. ASSUME n = 1 PROVE Len(f.stack) < MaxStack
    <3>1. Len(f.stack) \in Nat
      BY DEF Ready
    <3>2. \A x, y \in Nat : x + 1 <= y => x < y
      OBVIOUS
    <3>3. Len(f.stack) + 1 <= MaxStack
      BY <2>2, Zenon
    <3>. QED BY <3>1, <3>2, <3>3, CodeAssumption
  <2>3. ASSUME NEW g, Keeps(f, g), NEW v, n = 1 PROVE Ok(StackPush(g, v))
    BY <2>2, <2>3, <1>PushAdds, Zenon
  <2>4. ASSUME op \in OneOps PROVE n = 1
    BY <2>4, PushedTable, Zenon
  <2>5. ASSUME op \in NoneOps PROVE n = 0
    BY <2>5, PushedTable, Zenon
  <2>6. ASSUME op \notin OneOps \cup DupOps \cup SwapOps PROVE n = 0
    BY <2>6, PushedTable, Zenon
  <2>7. /\ Ok(Fail(f, "INVALID_INSTRUCTION")) /\ Ok(Stop(f)) /\ Ok(evmSetReturn(f, a))
        /\ Ok(evmSetRevert(f, a)) /\ Ok(evmHandleSelfDestruct(f, in))
    BY <1>ReturnEnds, <1>EndAdds, Zenon
  <2>8. ASSUME op \in OneOps, NEW v
        PROVE  /\ Ok(StackPush(f, v)) /\ Ok(StackPush(DirectAccess(f, op, a[1]), v))
               /\ Ok(StackPush(IF op = EXP THEN chargeGas(f, 50 * ByteLength(a[2])) ELSE f, v))
    <3>1. n = 1 /\ Keeps(f, f) /\ Keeps(f, DirectAccess(f, op, a[1]))
          /\ Keeps(f, chargeGas(f, 50 * ByteLength(a[2])))
      BY <2>4, <2>8, KeepsReflexive, <1>AccessKeeps, ChargeKeeps, Zenon
    <3>. QED BY <2>3, <3>1, Zenon
  <2>9. ASSUME op \in OneOps PROVE Ok(handleMSize(f)) /\ Ok(QueryHelper(f, op, in))
    <3>1. Ok(handleMSize(f))
      BY <2>8, <2>9, Zenon DEF handleMSize
    <3>. DEFINE g == CASE op \in {BALANCE, EXTCODESIZE, EXTCODEHASH} ->
                            ChargeCold(f, in, ADDITIONAL_COLD_ACCOUNT_ACCESS_COST)
                       [] op = SLOAD -> ChargeCold(f, in, ADDITIONAL_COLD_SLOAD_COST)
                       [] OTHER -> f
    <3>2. Keeps(f, g)
      BY <1>ColdKeeps, KeepsReflexive
    <3>3. QueryHelper(f, op, in) = StackPush(g, in.word)
      BY DEF QueryHelper
    <3>. HIDE DEF g
    <3>. QED BY <2>3, <2>4, <2>9, <3>1, <3>2, <3>3, Zenon
  <2>10. ASSUME op \in OneOps
         PROVE  /\ Ok(reloadMemorySizeFromInstance(evmGetKeccak256(f, a, in)))
                /\ Ok(reloadMemorySizeFromInstance(evmHandleCreateInternal(f, op, a, in)))
                /\ Ok(reloadMemorySizeFromInstance(evmHandleCallInternal(f, op, a, in)))
    BY <2>2, <2>4, <2>10, <1>KeccakAdds, <1>CreateAdds, <1>CallAdds, Zenon
  <2>11. ASSUME op \in NoneOps
         PROVE  /\ Ok(DirectAccess(f, op, a[1])) /\ Ok(handleMCopy(f, a))
                /\ Ok(evmSetSStore(f, in)) /\ Ok(evmSetTStore(f))
                /\ Ok(reloadMemorySizeFromInstance(evmSetCallDataCopy(f, a)))
                /\ Ok(reloadMemorySizeFromInstance(evmSetCodeCopy(f, a)))
                /\ Ok(reloadMemorySizeFromInstance(evmSetExtCodeCopy(f, a, in)))
                /\ Ok(reloadMemorySizeFromInstance(evmSetReturnDataCopy(f, a)))
                /\ Ok(reloadMemorySizeFromInstance(evmEmitLogGeneric(f, op, a)))
    BY <2>1, <2>5, <2>11, <1>AccessKeeps, <1>MCopyKeeps, <1>CopyKeeps, <1>WritesKeep, Zenon
  <2>12. ASSUME op \notin OneOps \cup DupOps \cup SwapOps PROVE Ok(f)
    BY <2>1, <2>6, <2>12, KeepsReflexive, Zenon
  <2>13. ASSUME op \in DupOps PROVE Ok(StackPush([f EXCEPT !.stack = a \o @], a[op - DUP1 + 1]))
    <3>1. n = Len(a) + 1
      BY <2>13, PushedTable, Zenon
    <3>2. Len(a) \in Nat /\ Len(f.stack) \in Nat
      BY DEF Ready
    <3>3. \A x, y, z \in Nat : y + (x + 1) <= z => x + y < z
      OBVIOUS
    <3>4. Len(f.stack) + (Len(a) + 1) <= MaxStack
      BY <3>1, Zenon
    <3>5. MaxStack \in Nat
      BY CodeAssumption, Zenon
    <3>6. Len(a) + Len(f.stack) < MaxStack
      BY <3>2, <3>3, <3>4, <3>5, Zenon
    <3>. QED BY <2>13, <3>1, <3>6, <1>WordsAdds, Zenon
  <2>14. ASSUME op \in SwapOps PROVE Ok(SwapWords(f, a, op - SWAP1 + 2))
    <3>1. n = Len(a) /\ op - SWAP1 + 2 \in 1..Required(op)
      BY <2>14, PushedTable, RequiredTable, Zenon
    <3>. QED BY <2>14, <3>1, <1>WordsAdds, Zenon
  <2>15. /\ op \in PushOps \cup EnvOps \cup LoadOps \cup UnaryOps \cup BinaryOps \cup TernaryOps
                    \cup CreateOps \cup CallOps => op \in OneOps
         /\ op = KECCAK256 \/ op = MSIZE \/ op = MLOAD => op \in OneOps
         /\ op \in {MSTORE, MSTORE8, MCOPY, SSTORE, TSTORE, CALLDATACOPY, CODECOPY, EXTCODECOPY,
                    RETURNDATACOPY} \cup LogOps => op \in NoneOps
         /\ op \in OneOps => \/ op \in PushOps \/ op \in EnvOps \/ op \in LoadOps
                             \/ op \in UnaryOps \cup BinaryOps \cup TernaryOps
                             \/ op \in CreateOps \/ op \in CallOps \/ op = KECCAK256
    BY DEF OneOps, NoneOps, EnvOps, LoadOps
  <2>. HIDE DEF Ok, n
  <2>16. Ok(handleOpcode(f, op, a, value, in))
    BY <2>7, <2>8, <2>9, <2>10, <2>11, <2>12, <2>13, <2>14, <2>15, SMTT(60) DEF handleOpcode
  <2>. QED BY <2>16 DEF Ok, n
<1>. TAKE f, op, a, value, in
<1>. HAVE /\ Ready(f) /\ Running(f) /\ op \in Bytes /\ a \in Seq(Nat)
          /\ Len(a) = Required(op) /\ Len(f.stack) + Pushed(op) <= MaxStack
          /\ (op \in DupOps \cup SwapOps => Len(a) + Len(f.stack) <= MaxStack)
<1>. QED BY <1>Handler, Zenon

(* What an instruction needs and what it leaves to the rest of its block. *)
HeightsBefore(op, rest) ==
  [need |-> Required(op) + (IF rest.need > Pushed(op) THEN rest.need - Pushed(op) ELSE 0),
   room |-> IF rest.room + Pushed(op) > Required(op)
            THEN rest.room + Pushed(op) - Required(op) ELSE 0]

(* A stack of n words, where the rest of the block finds what it needs and
   has room for what it adds. *)
Fits(code, rev, pc, n) ==
  /\ StackHeights(code, rev, pc).need <= n
  /\ n + StackHeights(code, rev, pc).room <= MaxStack

(* Heights of a block that cover its instructions from pc on. *)
CoversBlock(code, rev, info, pc) ==
  /\ info.need \in Nat /\ info.max \in Nat
  /\ info.need >= StackHeights(code, rev, pc).need
  /\ info.max >= StackHeights(code, rev, pc).room

(* One step of compiled code: no pop and no push misses the check of its
   block, and the stack fits what is left of the block. *)
LEMMA JitExecuteFits ==
  \A cache, front, in, f : \A code \in Seq(Bytes) :
    /\ Sound(f) /\ Running(f)
    /\ f.pc < Len(code) /\ Byte(code, f.pc) = JUMPDEST =>
         LET canon == front.canon[f.pc]
         IN  canon \in PCs(code) /\ CoversBlock(code, f.rev, front.blocks[canon], canon + 1)
    /\ f.pc < Len(code) /\ Byte(code, f.pc) # JUMPDEST =>
         IF f.begin THEN CoversBlock(code, f.rev, front.blocks[f.pc], f.pc)
         ELSE Fits(code, f.rev, f.pc, Len(f.stack))
    => LET r == JitExecute(f, code, cache, front, in)
           op == Byte(code, f.pc)
           next == f.pc + opcodeLen(op)
       IN  /\ r.st # "CORRUPT"
           /\ Running(r) /\ op = JUMPDEST =>
                Fits(code, f.rev, front.canon[f.pc] + 1, Len(r.stack))
           /\ Running(r) /\ op = JUMPI => r.pc \in cache.dests \/ r.begin
           /\ Running(r) /\ op \notin {JUMPDEST, JUMP, JUMPI}
               /\ ~isBlockTerminator(op) /\ next < Len(code) =>
                Fits(code, f.rev, next, Len(r.stack))
(* A function stays one of its type when one of its values is replaced. *)
<1>ExceptType.
      ASSUME NEW D, NEW R, NEW v \in [D -> R], NEW x \in D, NEW w \in R
      PROVE  [v EXCEPT ![x] = w] \in [D -> R]
  BY <1>ExceptType
(* StackHeights satisfies the equation that defines it: nothing at the end
   of a block, and before an instruction what it needs itself and what the
   rest of the block needs after it. *)
<1>StackHeightsSum.
      ASSUME NEW code \in Seq(Bytes), NEW rev, NEW pc \in 0..Len(code)
      PROVE  LET h == StackHeights(code, rev, pc)
                 op == Byte(code, pc)
                 next == pc + opcodeLen(op)
                 rest == StackHeights(code, rev, next)
             IN  /\ h.need \in Nat /\ h.room \in Nat
                 /\ pc # Len(code) /\ pc \notin JumpDests(code) /\ Defined(op, rev) =>
                      /\ Required(op) <= h.need
                      /\ Pushed(op) <= Required(op) + h.room
                      /\ ~isBlockTerminator(op) /\ op # JUMPI /\ next < Len(code) =>
                           /\ rest.need + Required(op) <= h.need + Pushed(op)
                           /\ rest.room + Pushed(op) <= h.room + Required(op)
  <2>. USE <1>StackHeightsSum
  <2>. DEFINE n == Len(code)
              After(q) == q + opcodeLen(Byte(code, q))
              To(q) == IF After(q) < n THEN After(q) ELSE n
              Nothing == [need |-> 0, room |-> 0]
              Ends(op) == isBlockTerminator(op) \/ op = JUMPI
              Leaf(q) == q = n \/ q \in JumpDests(code) \/ ~Defined(Byte(code, q), rev)
              Rest(v, q) == IF Ends(Byte(code, q)) THEN Nothing ELSE v[To(q)]
              Bef(q, r) == HeightsBefore(Byte(code, q), r)
              Body(v, q) == IF Leaf(q) THEN Nothing ELSE Bef(q, Rest(v, q))
              Is(v) == v = [q \in 0..n |-> Body(v, q)]
              at == CHOOSE v : Is(v)
              Hs == [need : Nat, room : Nat]
  <2>1. n \in Nat
    BY LenProperties
  <2>2. ASSUME NEW x PROVE StackHeights(code, rev, x) = at[x]
    BY DEF StackHeights, HeightsBefore
  <2>3. ASSUME NEW q \in 0..n, ~Leaf(q)
        PROVE  /\ q \in PCs(code) /\ Byte(code, q) \in Bytes
               /\ After(q) \in Nat /\ To(q) \in (q + 1)..n
    <3>1. q \in PCs(code)
      BY <2>1, <2>3 DEF PCs
    <3>2. Byte(code, q) \in Bytes /\ opcodeLen(Byte(code, q)) \in 1..33
      BY ByteType, <3>1, Zenon
    <3>3. After(q) \in Nat /\ After(q) > q
      <4>1. q \in Nat
        BY <2>1, <3>1 DEF PCs
      <4>2. \A x \in 1..33 : q + x \in Nat /\ q + x > q
        BY <4>1
      <4>. QED BY <3>2, <4>2, Zenon
    <3>. HIDE DEF After
    <3>4. To(q) \in (q + 1)..n
      BY <2>1, <2>3, <3>3
    <3>. QED BY <3>1, <3>2, <3>3, <3>4, Zenon
  <2>4. ASSUME NEW op \in Bytes, NEW r \in Hs
        PROVE  LET h == HeightsBefore(op, r)
               IN  /\ h \in Hs /\ Required(op) <= h.need /\ Pushed(op) <= Required(op) + h.room
                   /\ r.need + Required(op) <= h.need + Pushed(op)
                   /\ r.room + Pushed(op) <= h.room + Required(op)
    <3>1. Required(op) \in Nat /\ Pushed(op) \in Nat
      BY PushedType, Zenon
    <3>2. ASSUME NEW a \in Nat, NEW e \in Nat, NEW y \in Nat, NEW z \in Nat
          PROVE  LET c == a + (IF y > e THEN y - e ELSE 0)
                     d == IF z + e > a THEN z + e - a ELSE 0
                 IN  /\ c \in Nat /\ d \in Nat /\ a <= c /\ e <= a + d
                     /\ y + a <= c + e /\ z + e <= d + a
      OBVIOUS
    <3>3. r.need \in Nat /\ r.room \in Nat
      OBVIOUS
    <3>. DEFINE h == HeightsBefore(op, r)
    <3>4. /\ h.need \in Nat /\ h.room \in Nat
          /\ Required(op) <= h.need /\ Pushed(op) <= Required(op) + h.room
          /\ r.need + Required(op) <= h.need + Pushed(op)
          /\ r.room + Pushed(op) <= h.room + Required(op)
      BY <3>1, <3>2, <3>3, Zenon DEF HeightsBefore
    <3>5. h = [need |-> h.need, room |-> h.room]
      BY Zenon DEF HeightsBefore
    <3>. HIDE DEF h
    <3>6. h \in Hs
      BY <3>4, <3>5
    <3>. QED BY <3>4, <3>6, Zenon DEF h
  <2>5. Nothing \in Hs
    OBVIOUS
  <2>6. ASSUME NEW q \in 0..n, ~Leaf(q), NEW r \in Hs PROVE Bef(q, r) \in Hs
    BY <2>3, <2>4, <2>6, Zenon
  <2>. HIDE DEF After, Leaf, Nothing, Ends, Hs, n
  <2>. DEFINE Upto(k) == \E r \in [0..n -> Hs] :
                           \A q \in 0..n : q >= n - k => r[q] = Body(r, q)
              S == {k \in Nat : k <= n => Upto(k)}
  <2>7. ASSUME NEW v, NEW q \in 0..n, ~Leaf(q) => v[To(q)] \in Hs PROVE Body(v, q) \in Hs
    <3>. HIDE DEF Bef, To
    <3>1. CASE Leaf(q)
      BY <3>1, <2>5
    <3>2. CASE ~Leaf(q)
      <4>1. Rest(v, q) \in Hs
        BY <3>2, <2>5, <2>7
      <4>. HIDE DEF Rest
      <4>. QED BY <3>2, <4>1, <2>6
    <3>. QED BY <3>1, <3>2
  <2>. HIDE DEF Bef, To
  <2>8. 0 \in S
    <3>. DEFINE r == [q \in 0..n |-> Nothing]
    <3>1. r \in [0..n -> Hs]
      BY <2>5
    <3>2. Leaf(n)
      BY DEF Leaf
    <3>3. \A q \in 0..n : q >= n - 0 => r[q] = Body(r, q)
      BY <2>1, <3>2
    <3>. HIDE DEF r, Body
    <3>4. Upto(0)
      BY <3>1, <3>3, Zenon
    <3>. HIDE DEF Upto
    <3>. QED BY <3>4
  <2>9. ASSUME NEW k \in Nat, k \in S PROVE k + 1 \in S
    <3>. SUFFICES ASSUME k + 1 <= n PROVE Upto(k + 1)
      OBVIOUS
    <3>1. PICK r \in [0..n -> Hs] : \A q \in 0..n : q >= n - k => r[q] = Body(r, q)
      BY <2>1, <2>9
    <3>. DEFINE m == n - (k + 1)
                s == [r EXCEPT ![m] = Body(r, m)]
    <3>2. m \in 0..n
      BY <2>1
    <3>3. Body(r, m) \in Hs
      <4>1. ~Leaf(m) => To(m) \in 0..n
        BY <2>1, <2>3, <3>2
      <4>. HIDE DEF Body, m
      <4>2. ~Leaf(m) => r[To(m)] \in Hs
        BY <4>1, Zenon
      <4>. QED BY <2>7, <3>2, <4>2, Zenon
    <3>. HIDE DEF Body
    <3>4. s \in [0..n -> Hs]
      BY <3>2, <3>3, <1>ExceptType, Zenon
    <3>5. ASSUME NEW q \in 0..n, q >= m PROVE s[q] = Body(s, q)
      <4>1. s[q] = Body(r, q)
        BY <3>1, <3>2, <3>5, <2>1
      <4>2. CASE Leaf(q)
        BY <4>1, <4>2 DEF Body
      <4>3. CASE ~Leaf(q)
        <5>1. To(q) \in 0..n /\ To(q) # m
          BY <2>1, <2>3, <3>5, <4>3
        <5>2. s[To(q)] = r[To(q)]
          BY <5>1
        <5>. HIDE DEF s
        <5>. QED BY <4>1, <5>2 DEF Body
      <4>. QED BY <4>2, <4>3
    <3>. HIDE DEF s
    <3>. QED BY <3>4, <3>5, Zenon
  <2>. HIDE DEF Body
  <2>10. Nat \subseteq S
    <3>. HIDE DEF S
    <3>. QED BY <2>8, <2>9, Induction
  <2>11. Is(at)
    <3>1. Upto(n)
      <4>1. n \in S
        BY <2>1, <2>10, Zenon
      <4>2. n <= n
        BY <2>1
      <4>. QED BY <4>1, <4>2, Zenon
    <3>2. PICK r \in [0..n -> Hs] : \A q \in 0..n : r[q] = Body(r, q)
      BY <2>1, <3>1
    <3>3. Is(r)
      BY <3>2
    <3>. HIDE DEF Is
    <3>. QED BY <3>3
  <2>. HIDE DEF at
  <2>. DEFINE T == {k \in Nat : \A q \in 0..n : q >= n - k => at[q] \in Hs}
  <2>12. \A q \in 0..n : at[q] = Body(at, q)
    <3>. SUFFICES ASSUME NEW q \in 0..n PROVE at[q] = Body(at, q)
      OBVIOUS
    <3>. DEFINE B(x) == Body(at, x)
    <3>1. at = [x \in 0..n |-> B(x)]
      BY <2>11, Zenon
    <3>. HIDE DEF B, T, S, Is
    <3>2. at[q] = B(q)
      BY <3>1
    <3>. QED BY <3>2, Zenon DEF B
  <2>. HIDE DEF Is
  <2>13. 0 \in T
    <3>1. Leaf(n)
      BY DEF Leaf
    <3>2. \A q \in 0..n : q >= n - 0 => q = n
      BY <2>1
    <3>. QED BY <2>5, <2>12, <3>1, <3>2 DEF Body
  <2>14. ASSUME NEW k \in Nat, k \in T PROVE k + 1 \in T
    <3>. SUFFICES ASSUME NEW q \in 0..n, q >= n - (k + 1) PROVE at[q] \in Hs
      OBVIOUS
    <3>1. ~Leaf(q) => To(q) \in 0..n /\ To(q) >= n - k
      BY <2>1, <2>3
    <3>2. ~Leaf(q) => at[To(q)] \in Hs
      BY <2>14, <3>1
    <3>. QED BY <2>7, <2>12, <3>2
  <2>15. Nat \subseteq T
    <3>. HIDE DEF T
    <3>. QED BY <2>13, <2>14, Induction
  <2>16. \A q \in 0..n : at[q] \in Hs
    <3>1. n \in T
      BY <2>1, <2>15, Zenon
    <3>2. \A q \in 0..n : q >= n - n
      BY <2>1
    <3>. QED BY <3>1, <3>2
  <2>. DEFINE op == Byte(code, pc)
              h == at[pc]
              next == After(pc)
  <2>17. pc \in 0..n
    BY DEF n
  <2>18. h.need \in Nat /\ h.room \in Nat
    BY <2>16, <2>17 DEF Hs
  <2>19. ASSUME ~Leaf(pc)
         PROVE  /\ Required(op) <= h.need /\ Pushed(op) <= Required(op) + h.room
                /\ ~Ends(op) /\ next < n =>
                     /\ at[next].need + Required(op) <= h.need + Pushed(op)
                     /\ at[next].room + Pushed(op) <= h.room + Required(op)
    <3>. DEFINE r == Rest(at, pc)
    <3>1. op \in Bytes /\ To(pc) \in 0..n
      BY <2>1, <2>3, <2>17, <2>19
    <3>2. r \in Hs
      BY <2>5, <2>16, <3>1
    <3>3. h = HeightsBefore(op, r)
      BY <2>12, <2>17, <2>19 DEF Body, Bef
    <3>4. ~Ends(op) /\ next < n => r = at[next]
      BY DEF To
    <3>. HIDE DEF r, h, op, next
    <3>. QED BY <2>4, <3>1, <3>2, <3>3, <3>4
  <2>. QED BY <2>2, <2>18, <2>19 DEF n, Leaf, Ends, After
(* Where the stack fits the rest of the block, it fits the instruction, and
   after it what is left of the block. *)
<1>FitsOn.
      ASSUME NEW code \in Seq(Bytes), NEW rev, NEW pc \in PCs(code), pc \notin JumpDests(code),
             Defined(Byte(code, pc), rev), NEW n \in Nat, Fits(code, rev, pc, n)
      PROVE  LET op == Byte(code, pc)
                 next == pc + opcodeLen(op)
             IN  /\ Required(op) <= n
                 /\ (n - Required(op)) + Pushed(op) <= MaxStack /\ n <= MaxStack
                 /\ ~isBlockTerminator(op) /\ op # JUMPI /\ next < Len(code) =>
                      Fits(code, rev, next, (n - Required(op)) + Pushed(op))
  <2>. USE <1>FitsOn
  <2>. DEFINE op == Byte(code, pc)
              next == pc + opcodeLen(op)
              h == StackHeights(code, rev, pc)
              rest == StackHeights(code, rev, next)
  <2>1. Len(code) \in Nat /\ op \in Bytes /\ opcodeLen(op) \in 1..33
    BY LenProperties, ByteType, Zenon
  <2>2. pc \in 0..Len(code) /\ pc # Len(code) /\ pc \in Nat
    BY <2>1 DEF PCs
  <2>3. next \in Nat
    <3>1. \A x \in 1..33 : pc + x \in Nat
      BY <2>2
    <3>. QED BY <2>1, <3>1, Zenon
  <2>4. Required(op) \in Nat /\ Pushed(op) \in Nat
    BY <2>1, PushedType, Zenon
  <2>5. /\ h.need \in Nat /\ h.room \in Nat
        /\ Required(op) <= h.need /\ Pushed(op) <= Required(op) + h.room
        /\ ~isBlockTerminator(op) /\ op # JUMPI /\ next < Len(code) =>
             /\ rest.need + Required(op) <= h.need + Pushed(op)
             /\ rest.room + Pushed(op) <= h.room + Required(op)
    BY <2>2, <1>StackHeightsSum, Zenon
  <2>6. next < Len(code) => rest.need \in Nat /\ rest.room \in Nat
    <3>1. next < Len(code) => next \in 0..Len(code)
      BY <2>1, <2>3
    <3>. QED BY <3>1, <1>StackHeightsSum, Zenon
  <2>7. h.need <= n /\ n + h.room <= MaxStack
    BY Zenon DEF Fits
  <2>. HIDE DEF op, next, h, rest
  <2>8. Required(op) <= n /\ (n - Required(op)) + Pushed(op) <= MaxStack /\ n <= MaxStack
    BY <2>4, <2>5, <2>7, CodeAssumption
  <2>9. ASSUME ~isBlockTerminator(op), op # JUMPI, next < Len(code)
        PROVE  /\ rest.need <= (n - Required(op)) + Pushed(op)
               /\ ((n - Required(op)) + Pushed(op)) + rest.room <= MaxStack
    <3>1. /\ rest.need \in Nat /\ rest.room \in Nat
          /\ rest.need + Required(op) <= h.need + Pushed(op)
          /\ rest.room + Pushed(op) <= h.room + Required(op)
      BY <2>5, <2>6, <2>9, Zenon
    <3>2. h.need \in Nat /\ h.room \in Nat
      BY <2>5, Zenon
    <3>3. \A r, p, x, y \in Nat : y + r <= x + p /\ x <= n => y <= (n - r) + p
      OBVIOUS
    <3>4. \A r, p, x, y \in Nat : y + p <= x + r /\ n + x <= MaxStack =>
            ((n - r) + p) + y <= MaxStack
      BY CodeAssumption
    <3>. QED BY <2>4, <2>7, <3>1, <3>2, <3>3, <3>4, Zenon
  <2>. QED BY <2>8, <2>9, Zenon DEF op, next, rest, Fits
(* The check of a block leaves the stack as it is. *)
<1>BeginKeeps.
      ASSUME NEW f, NEW info PROVE Keeps(f, handleBeginBlock(f, info))
  <2>. USE <1>BeginKeeps
  <2>. DEFINE g == [f EXCEPT !.plan = info.plan, !.begin = FALSE]
  <2>1. Keeps(f, g)
    BY DEF Keeps, Frame
  <2>. HIDE DEF g
  <2>2. /\ Keeps(g, Fail(g, "STACK_UNDERFLOW")) /\ Keeps(g, Fail(g, "STACK_OVERFLOW"))
        /\ Keeps(g, g)
    BY FailKeeps, KeepsReflexive, Zenon
  <2>3. handleBeginBlock(f, info) \in {g, Fail(g, "STACK_UNDERFLOW"), Fail(g, "STACK_OVERFLOW")}
    BY DEF handleBeginBlock, createStackCheckBlock, g
  <2>. QED BY <2>1, <2>2, <2>3, KeepsTransitive
(* The check at the head of a block leaves a stack that fits the block. *)
<1>BeginFits.
      ASSUME NEW f, Ready(f), NEW info, NEW code, NEW rev, NEW pc,
             CoversBlock(code, rev, info, pc),
             StackHeights(code, rev, pc).need \in Nat, StackHeights(code, rev, pc).room \in Nat
      PROVE  LET b == handleBeginBlock(f, info)
             IN  /\ Keeps(f, b)
                 /\ Running(b) => Fits(code, rev, pc, Len(f.stack))
  <2>. USE <1>BeginFits
  <2>. DEFINE g == [f EXCEPT !.plan = info.plan, !.begin = FALSE]
              b == handleBeginBlock(f, info)
              n == Len(f.stack)
              h == StackHeights(code, rev, pc)
  <2>1. Frame(f) /\ f.stack \in Seq(Nat) /\ n \in Nat
    BY LenProperties DEF Ready
  <2>2. Keeps(f, g) /\ Frame(g) /\ g.stack = f.stack
    BY <2>1 DEF Keeps, Frame
  <2>3. b = IF n < info.need THEN Fail(g, "STACK_UNDERFLOW")
            ELSE IF n > MaxStack - info.max THEN Fail(g, "STACK_OVERFLOW") ELSE g
    BY <2>2 DEF handleBeginBlock, createStackCheckBlock
  <2>4. \A s : ~Running(Fail(g, s)) \/ s = "running"
    BY <2>2 DEF Fail, Running, Frame
  <2>. HIDE DEF g, b
  <2>5. Keeps(f, b)
    <3>1. Keeps(g, Fail(g, "STACK_UNDERFLOW")) /\ Keeps(g, Fail(g, "STACK_OVERFLOW"))
      BY FailKeeps, Zenon
    <3>. QED BY <2>2, <2>3, <3>1, KeepsTransitive, Zenon
  <2>6. Running(b) => ~(n < info.need) /\ ~(n > MaxStack - info.max)
    BY <2>3, <2>4
  <2>. HIDE DEF n, h
  <2>7. /\ info.need \in Nat /\ info.max \in Nat /\ h.need \in Nat /\ h.room \in Nat
        /\ info.need >= h.need /\ info.max >= h.room
    BY Zenon DEF CoversBlock, h
  <2>8. Running(b) => h.need <= n /\ n + h.room <= MaxStack
    BY <2>1, <2>6, <2>7, CodeAssumption
  <2>. QED BY <2>5, <2>8, Zenon DEF Fits, h, n, b
(* Popping operands that are there. *)
<1>PopAdds.
      ASSUME NEW m, Ready(m), Running(m), NEW n \in Nat, n <= Len(m.stack)
      PROVE  LET p == StackPop(m, n)
                 a == SubSeq(m.stack, 1, n)
             IN  /\ Ready(p) /\ p.st = m.st /\ Len(p.stack) = Len(m.stack) - n
                 /\ a \in Seq(Nat) /\ Len(a) = n
  <2>. USE <1>PopAdds
  <2>. DEFINE p == StackPop(m, n)
              a == SubSeq(m.stack, 1, n)
              s == SubSeq(m.stack, n + 1, Len(m.stack))
  <2>1. Frame(m) /\ m.stack \in Seq(Nat) /\ Len(m.stack) \in Nat
    BY LenProperties DEF Ready
  <2>2. p = [m EXCEPT !.stack = s]
    BY <2>1 DEF StackPop, Drop
  <2>3. /\ 1 \in Nat \ {0} /\ 1 <= n + 1 /\ n + 1 \in Nat \ {0} /\ n + 1 <= Len(m.stack) + 1
        /\ Len(m.stack) <= Len(m.stack) /\ n - 1 + 1 = n
        /\ Len(m.stack) - (n + 1) + 1 = Len(m.stack) - n
    BY <2>1
  <2>4. a \in Seq(Nat) /\ Len(a) = n - 1 + 1
    BY <2>1, <2>3, SubSeqOfWords, Zenon
  <2>5. s \in Seq(Nat) /\ Len(s) = Len(m.stack) - (n + 1) + 1
    BY <2>1, <2>3, SubSeqOfWords, Zenon
  <2>. HIDE DEF s, a
  <2>6. p.st = m.st /\ p.stack = s /\ Frame(p)
    BY <2>1, <2>2 DEF Frame
  <2>. HIDE DEF p
  <2>7. Len(a) = n /\ Len(p.stack) = Len(m.stack) - n
    BY <2>3, <2>4, <2>5, <2>6, Zenon
  <2>. QED BY <2>4, <2>5, <2>6, <2>7, Zenon DEF Ready, p, a
(* A run of JUMPDESTs is entered through the check of its block. *)
<1>EnterRunFits.
      ASSUME NEW f, Ready(f), Running(f), NEW cache, NEW front, NEW code, NEW rev, NEW pc,
             CoversBlock(code, rev, front.blocks[front.canon[f.pc]], pc),
             StackHeights(code, rev, pc).need \in Nat, StackHeights(code, rev, pc).room \in Nat
      PROVE  LET r == EnterRun(f, cache, front)
             IN  /\ r.st # "CORRUPT"
                 /\ Running(r) => Fits(code, rev, pc, Len(r.stack))
  <2>. USE <1>EnterRunFits
  <2>. DEFINE canon == front.canon[f.pc]
              info == front.blocks[canon]
              skip == RunCost(cache.cost, f.pc, canon)
              g == chargeGas(f, skip)
              g2 == [g EXCEPT !.pc = canon]
              h == handleBeginBlock(g2, info)
              m == meterOpcode(h, cache)
              w == Advance(m, JUMPDEST)
              r == EnterRun(f, cache, front)
  <2>1. r = IF ~Running(g) THEN g ELSE IF ~Running(h) THEN h ELSE w
    BY DEF EnterRun, RunCost
  <2>. HIDE DEF r
  <2>2. Frame(f) /\ f.st # "CORRUPT"
    BY DEF Ready, Running
  <2>3. Keeps(f, g)
    BY ChargeKeeps, Zenon
  <2>. HIDE DEF g, skip
  <2>4. Keeps(g, g2)
    BY DEF Keeps, Frame
  <2>5. Keeps(g2, h) /\ (Running(h) => Fits(code, rev, pc, Len(g2.stack)))
    <3>1. Ready(g2)
      BY <2>2, <2>3, <2>4, Zenon DEF Ready, Keeps
    <3>2. CoversBlock(code, rev, info, pc)
      OBVIOUS
    <3>. HIDE DEF g2, info
    <3>. QED BY <3>1, <3>2, <1>BeginFits, Zenon
  <2>. HIDE DEF g2, h
  <2>6. Keeps(h, m)
    BY DEF meterOpcode, chargeGas, Fail, Keeps, Frame
  <2>. HIDE DEF m
  <2>7. Keeps(m, w)
    BY DEF Advance, Keeps, Frame
  <2>. HIDE DEF w
  <2>8. Keeps(f, h) /\ Keeps(f, w) /\ Keeps(f, g2)
    <3>1. Keeps(f, g2)
      BY <2>3, <2>4, KeepsTransitive, Zenon
    <3>2. Keeps(f, h)
      BY <2>5, <3>1, KeepsTransitive, Zenon
    <3>3. Keeps(f, m)
      BY <2>6, <3>2, KeepsTransitive, Zenon
    <3>. QED BY <2>7, <3>1, <3>2, <3>3, KeepsTransitive, Zenon
  <2>9. r.st # "CORRUPT"
    BY <2>1, <2>2, <2>3, <2>8, Zenon DEF Keeps
  <2>10. Running(r) => Running(h) /\ r.stack = g2.stack
    <3>1. w.stack = g2.stack
      BY <2>2, <2>8, Zenon DEF Keeps
    <3>. QED BY <2>1, <3>1, Zenon
  <2>. QED BY <2>5, <2>9, <2>10, Zenon DEF r
<1>. DEFINE Premises(cache, front, in, f, code) ==
              /\ Sound(f) /\ Running(f)
              /\ f.pc < Len(code) /\ Byte(code, f.pc) = JUMPDEST =>
                   LET canon == front.canon[f.pc]
                   IN  canon \in PCs(code) /\ CoversBlock(code, f.rev, front.blocks[canon], canon + 1)
              /\ f.pc < Len(code) /\ Byte(code, f.pc) # JUMPDEST =>
                   IF f.begin THEN CoversBlock(code, f.rev, front.blocks[f.pc], f.pc)
                   ELSE Fits(code, f.rev, f.pc, Len(f.stack))
            Promise(cache, front, in, f, code) ==
              LET r == JitExecute(f, code, cache, front, in)
                  op == Byte(code, f.pc)
                  next == f.pc + opcodeLen(op)
              IN  /\ r.st # "CORRUPT"
                  /\ Running(r) /\ op = JUMPDEST =>
                       Fits(code, f.rev, front.canon[f.pc] + 1, Len(r.stack))
                  /\ Running(r) /\ op = JUMPI => r.pc \in cache.dests \/ r.begin
                  /\ Running(r) /\ op \notin {JUMPDEST, JUMP, JUMPI}
                      /\ ~isBlockTerminator(op) /\ next < Len(code) =>
                       Fits(code, f.rev, next, Len(r.stack))
<1>Main. ASSUME NEW cache, NEW front, NEW in, NEW f, NEW code \in Seq(Bytes),
                Premises(cache, front, in, f, code)
         PROVE  Promise(cache, front, in, f, code)
  <2>. USE <1>Main
  <2>. DEFINE op == Byte(code, f.pc)
              next == f.pc + opcodeLen(op)
              canon == front.canon[f.pc]
              info == front.blocks[f.pc]
              b == IF f.begin THEN handleBeginBlock(f, info) ELSE f
              m == meterOpcode(b, cache)
              p == StackPop(m, Required(op))
              a == SubSeq(m.stack, 1, Required(op))
              value == loadPushValue(code, f.pc)
              x == handleOpcode(p, op, a, value, in)
              r == JitExecute(f, code, cache, front, in)
              n == Len(f.stack)
              Goal(y) ==
                /\ y.st # "CORRUPT"
                /\ Running(y) /\ op = JUMPDEST => Fits(code, f.rev, canon + 1, Len(y.stack))
                /\ Running(y) /\ op = JUMPI => y.pc \in cache.dests \/ y.begin
                /\ Running(y) /\ op \notin {JUMPDEST, JUMP, JUMPI}
                    /\ ~isBlockTerminator(op) /\ next < Len(code) =>
                     Fits(code, f.rev, next, Len(y.stack))
  <2>1. r = IF f.pc >= Len(code) THEN Stop(b)
            ELSE IF op = JUMPDEST THEN EnterRun(f, cache, front)
            ELSE IF ~Running(b) THEN b
            ELSE IF ~Defined(op, f.rev) THEN Fail(b, "UNDEFINED_INSTRUCTION")
            ELSE IF ~Running(p) THEN p
            ELSE IF op = JUMP THEN handleJump(p, a[1], cache.dests)
            ELSE IF op = JUMPI THEN handleJumpI(p, a, cache.dests)
            ELSE Advance(x, op)
    BY Zenon DEF JitExecute
  <2>. SUFFICES Goal(r)
    BY Zenon
  <2>. HIDE DEF r, b, m, p, a, value, x
  <2>2. /\ Ready(f) /\ f.st # "CORRUPT" /\ f.pc \in Nat /\ Len(code) \in Nat /\ n \in Nat
        /\ f.pc < Len(code) <=> ~(f.pc >= Len(code))
    BY LenProperties DEF Sound, Frames, Ready, Frame, Running
  <2>3. ASSUME NEW q \in 0..Len(code)
        PROVE  StackHeights(code, f.rev, q).need \in Nat /\ StackHeights(code, f.rev, q).room \in Nat
    BY <1>StackHeightsSum, Zenon
  <2>4. Keeps(f, b)
    <3>1. Keeps(f, handleBeginBlock(f, info))
      BY <1>BeginKeeps, Zenon
    <3>. QED BY <3>1, KeepsReflexive, Zenon DEF b
  <2>5. ASSUME f.pc < Len(code), op # JUMPDEST, Running(b) PROVE Fits(code, f.rev, f.pc, n)
    <3>1. CASE f.begin
      <4>1. CoversBlock(code, f.rev, info, f.pc) /\ Running(handleBeginBlock(f, info))
        BY <2>5, <3>1, Zenon DEF b
      <4>2. f.pc \in 0..Len(code)
        BY <2>2, <2>5
      <4>. QED BY <2>2, <2>3, <4>1, <4>2, <1>BeginFits, Zenon
    <3>2. CASE ~f.begin
      BY <2>5, <3>2
    <3>. QED BY <3>1, <3>2
  <2>6. Keeps(b, m)
    BY DEF m, meterOpcode, chargeGas, Fail, Keeps, Frame
  <2>7. Ready(b) /\ b.st # "CORRUPT" /\ Ready(m) /\ m.st # "CORRUPT" /\ m.stack = f.stack
    BY <2>2, <2>4, <2>6, Zenon DEF Ready, Keeps
  <2>8. CASE f.pc >= Len(code)
    <3>1. r = Stop(b)
      BY <2>1, <2>8, Zenon
    <3>2. r.st # "CORRUPT" /\ ~Running(r)
      BY <2>7, <3>1 DEF Stop, Running, Ready, Frame
    <3>. QED BY <3>2, Zenon
  <2>9. CASE f.pc < Len(code) /\ op = JUMPDEST
    <3>1. r = EnterRun(f, cache, front)
      BY <2>1, <2>2, <2>9, Zenon
    <3>2. canon \in PCs(code) /\ CoversBlock(code, f.rev, front.blocks[canon], canon + 1)
      BY <2>9
    <3>3. canon + 1 \in 0..Len(code)
      BY <2>2, <3>2 DEF PCs
    <3>4. r.st # "CORRUPT" /\ (Running(r) => Fits(code, f.rev, canon + 1, Len(r.stack)))
      BY <2>2, <2>3, <3>1, <3>2, <3>3, <1>EnterRunFits, Zenon
    <3>5. op # JUMPI
      BY <2>9 DEF JUMPDEST, JUMPI
    <3>. QED BY <2>9, <3>4, <3>5, Zenon
  <2>10. CASE f.pc < Len(code) /\ op # JUMPDEST /\ (~Running(b) \/ ~Defined(op, f.rev))
    <3>1. \/ r = b /\ ~Running(b)
          \/ r = Fail(b, "UNDEFINED_INSTRUCTION")
      BY <2>1, <2>2, <2>10, Zenon
    <3>. DEFINE z == Fail(b, "UNDEFINED_INSTRUCTION")
    <3>2. z.st # "CORRUPT" /\ ~Running(z)
      BY <2>7 DEF Fail, Running, Ready, Frame
    <3>. HIDE DEF z
    <3>3. r.st # "CORRUPT" /\ ~Running(r)
      BY <2>7, <3>1, <3>2, Zenon DEF z
    <3>. QED BY <3>3, Zenon
  <2>11. CASE f.pc < Len(code) /\ op # JUMPDEST /\ Running(b) /\ Defined(op, f.rev)
    <3>1. f.pc \in PCs(code) /\ f.pc \notin JumpDests(code)
      BY <2>2, <2>11 DEF PCs, JumpDests
    <3>2. op \in Bytes /\ Required(op) \in Nat /\ Pushed(op) \in Nat
      BY <3>1, ByteType, PushedType, Zenon
    <3>3. /\ Required(op) <= n /\ (n - Required(op)) + Pushed(op) <= MaxStack /\ n <= MaxStack
          /\ ~isBlockTerminator(op) /\ op # JUMPI /\ next < Len(code) =>
               Fits(code, f.rev, next, (n - Required(op)) + Pushed(op))
      BY <2>2, <2>5, <2>11, <3>1, <1>FitsOn, Zenon
    <3>4. CASE ~Running(m)
      <4>1. p = m
        BY <3>4 DEF p, StackPop, Corrupt, Drop
      <4>2. r = m
        BY <2>1, <2>2, <2>11, <3>4, <4>1, Zenon
      <4>. QED BY <2>7, <3>4, <4>2, Zenon
    <3>5. CASE Running(m)
      <4>1. /\ Ready(p) /\ p.st = m.st /\ Len(p.stack) = n - Required(op)
            /\ a \in Seq(Nat) /\ Len(a) = Required(op)
        BY <2>7, <3>2, <3>3, <3>5, <1>PopAdds, Zenon DEF p, a
      <4>2. r = IF op = JUMP THEN handleJump(p, a[1], cache.dests)
                ELSE IF op = JUMPI THEN handleJumpI(p, a, cache.dests)
                ELSE Advance(x, op)
        BY <2>1, <2>2, <2>11, <3>5, <4>1, Zenon DEF Running
      <4>3. CASE op \in {JUMP, JUMPI}
        <5>1. r.st # "CORRUPT" /\ (Running(r) => r.pc \in cache.dests \/ r.begin)
          BY <2>7, <4>1, <4>2, <4>3
             DEF handleJump, handleJumpI, JumpTo, Fail, Ready, Frame, Running
        <5>. QED BY <2>11, <4>3, <5>1, Zenon
      <4>4. CASE op \notin {JUMP, JUMPI}
        <5>1. r = Advance(x, op)
          BY <4>2, <4>4
        <5>2. Len(p.stack) + Pushed(op) <= MaxStack /\ Len(a) + Len(p.stack) <= MaxStack
          BY <2>2, <3>2, <3>3, <4>1, CodeAssumption
        <5>3. Adds(p, x, Pushed(op))
          BY <3>2, <3>5, <4>1, <5>2, EmittedAdds, Zenon DEF x, Running
        <5>4. r.st = x.st /\ (Running(r) => Running(x) /\ r.stack = x.stack)
          BY <5>1 DEF Advance, Running
        <5>5. r.st # "CORRUPT" /\ (Running(r) => Len(r.stack) = (n - Required(op)) + Pushed(op))
          BY <2>7, <4>1, <5>3, <5>4, Zenon DEF Adds
        <5>. QED BY <2>11, <3>3, <4>4, <5>5, Zenon
      <4>. QED BY <4>3, <4>4, Zenon
    <3>. QED BY <3>4, <3>5, Zenon
  <2>. QED BY <2>2, <2>8, <2>9, <2>10, <2>11, Zenon
<1>. HIDE DEF Premises, Promise
<1>All. \A cache, front, in, f : \A code \in Seq(Bytes) :
         Premises(cache, front, in, f, code) => Promise(cache, front, in, f, code)
  BY <1>Main, Zenon
<1>. QED BY <1>All, Zenon DEF Premises, Promise

-----------------------------------------------------------------------------
(* The emitted code.  Grows: a helper that may leave the cached memory size
   behind; Tracks: a step after which the cached size is right again. *)
Grows(f, g) == Evolves(f, g) /\ g.begin = f.begin

Tracks(f, g) ==
  /\ Grows(f, g)
  /\ f.msz = f.mem /\ Running(g) => g.msz = g.mem

(* What the rest of the proof uses of the two relations. *)
LEMMA TracksFacts ==
  ASSUME NEW f, NEW g
  PROVE  /\ Calm(f, g) => Tracks(f, g)
         /\ Tracks(f, g) => Grows(f, g)
         /\ Grows(f, g) => Evolves(f, g) /\ Sound(g) /\ (Running(g) => Running(f))
                             /\ g.begin = f.begin /\ g.static = f.static
<1>1. Evolves(f, g) => Sound(g) /\ (Running(g) => Running(f)) /\ g.static = f.static
  BY EvolvesFacts, Zenon
<1>. QED BY <1>1, Zenon DEF Calm, Tracks, Grows

(* A missed stack check is an end of the frame that no handler resumes. *)
LEMMA CorruptCalm ==
  ASSUME NEW f, Sound(f)
  PROVE  Calm(f, Corrupt(f)) /\ ~Running(Corrupt(f))
<1>1. CASE Running(f)
  <2>. DEFINE g == [f EXCEPT !.st = "CORRUPT"]
  <2>1. f \in Frames /\ "CORRUPT" \in Statuses
    BY DEF Sound, Statuses
  <2>2. Corrupt(f) = g
    BY <1>1 DEF Corrupt
  <2>3. g \in Frames
    BY <2>1, Zenon DEF Frames
  <2>4. /\ g.gas = f.gas /\ g.stack = f.stack /\ g.mem = f.mem /\ g.pc = f.pc
        /\ g.until = f.until /\ g.snap = f.snap /\ g.rev = f.rev /\ g.static = f.static
        /\ g.deep = f.deep /\ g.log = f.log /\ g.msz = f.msz /\ g.plan = f.plan
        /\ g.begin = f.begin /\ g.st = "CORRUPT"
    BY <2>1 DEF Frames
  <2>. HIDE DEF g
  <2>5. Sound(g)
    BY <2>3, <2>4 DEF Sound
  <2>6. g.gas <= f.gas /\ ~Running(g)
    BY <2>4, FrameFields DEF Running
  <2>. QED BY <1>1, <2>2, <2>4, <2>5, <2>6, Zenon DEF Calm, Evolves
<1>2. CASE ~Running(f)
  <2>1. Corrupt(f) = f
    BY <1>2 DEF Corrupt
  <2>. QED BY <1>2, <2>1, CalmReflexive, Zenon
<1>. QED BY <1>1, <1>2, Zenon

(* The opcodes that end a frame, and no other family of handlers. *)
EndOps == {INVALID, STOP, RETURN, REVERT, SELFDESTRUCT}

(* The emitted code of any opcode keeps the frame sound and its cached size
   right, and ends the frame where the opcode says so. *)
LEMMA EmittedTracks ==
  \A f, op, a, value, in :
    /\ Sound(f) /\ Running(f) /\ op \in Bytes /\ a \in Seq(Nat)
    /\ Len(a) = Required(op) /\ Len(a) + Len(f.stack) <= MaxStack /\ value \in Nat /\ Answer(in)
    => /\ Tracks(f, handleOpcode(f, op, a, value, in))
       /\ op \in EndOps => ~Running(handleOpcode(f, op, a, value, in))
(* Two helpers that may grow the memory, in a row, are one. *)
<1>GrowsTransitive.
      ASSUME NEW f, NEW g, NEW h, Sound(f), Grows(f, g), Grows(g, h)
      PROVE  Grows(f, h)
  BY <1>GrowsTransitive, EvolvesTransitive, Zenon DEF Grows
(* Two steps of compiled code that keep the cached size right do so
   together. *)
<1>TracksTransitive.
      ASSUME NEW f, NEW g, NEW h, Sound(f), Tracks(f, g), Tracks(g, h)
      PROVE  Tracks(f, h)
  <2>. USE <1>TracksTransitive
  <2>1. Grows(f, h)
    BY <1>GrowsTransitive, Zenon DEF Tracks
  <2>2. Running(h) => Running(g)
    BY TracksFacts, Zenon
  <2>. QED BY <2>1, <2>2, Zenon DEF Tracks
(* The emitted push changes the stack only. *)
<1>StackPushCalm.
      ASSUME NEW f, Sound(f), NEW v \in Nat
      PROVE  Calm(f, StackPush(f, v))
  <2>. USE <1>StackPushCalm
  <2>1. StackPush(f, v) \in {Corrupt(f), Push(f, v)}
    BY DEF StackPush
  <2>. QED BY <2>1, CorruptCalm, PushCalm, Zenon
(* normalizeOperandU64 and normalizeOffsetWithSize pass or end the frame. *)
<1>NormalizeCalm.
      ASSUME NEW f, Sound(f), NEW w, NEW off
      PROVE  Calm(f, normalizeOperandU64(f, w)) /\ Calm(f, normalizeOffsetWithSize(f, off, w))
  <2>. USE <1>NormalizeCalm
  <2>1. \A h, x : Sound(h) => Calm(h, normalizeOperandU64(h, x))
    <3>. TAKE h, x
    <3>. SUFFICES ASSUME Sound(h) PROVE Calm(h, normalizeOperandU64(h, x))
      OBVIOUS
    <3>1. normalizeOperandU64(h, x) \in {h, Fail(h, "OUT_OF_GAS")}
      BY DEF normalizeOperandU64
    <3>. QED BY <3>1, FailCalm, CalmReflexive, Zenon DEF Statuses
  <2>. DEFINE g == normalizeOperandU64(f, w)
  <2>2. Calm(f, g) /\ Sound(g)
    BY <2>1, CalmFacts, Zenon
  <2>. HIDE DEF g
  <2>3. normalizeOffsetWithSize(f, off, w) \in {g, normalizeOperandU64(g, off)}
    BY DEF normalizeOffsetWithSize, g
  <2>4. Calm(f, normalizeOperandU64(g, off))
    BY <2>1, <2>2, CalmTransitive, Zenon
  <2>. QED BY <2>2, <2>3, <2>4, Zenon DEF g
(* Reloading the size after a helper that may have grown the memory. *)
<1>ReloadTracks.
      ASSUME NEW f, NEW g, Sound(f), Grows(f, g)
      PROVE  Tracks(f, reloadMemorySizeFromInstance(g))
  <2>. USE <1>ReloadTracks
  <2>1. Sound(g)
    BY TracksFacts, Zenon
  <2>2. CASE Running(g)
    <3>. DEFINE h == [g EXCEPT !.msz = g.mem]
    <3>1. g \in Frames /\ g.mem \in Nat
      BY <2>1, FrameFields DEF Sound
    <3>2. reloadMemorySizeFromInstance(g) = h
      BY <2>2 DEF reloadMemorySizeFromInstance
    <3>3. h \in Frames
      BY <3>1, Zenon DEF Frames
    <3>4. /\ h.gas = g.gas /\ h.stack = g.stack /\ h.mem = g.mem /\ h.pc = g.pc
          /\ h.until = g.until /\ h.snap = g.snap /\ h.rev = g.rev /\ h.static = g.static
          /\ h.deep = g.deep /\ h.log = g.log /\ h.msz = g.mem /\ h.begin = g.begin
      BY <3>1 DEF Frames
    <3>. HIDE DEF h
    <3>5. Sound(h)
      BY <2>1, <3>3, <3>4 DEF Sound
    <3>6. Running(f)
      BY <2>2, TracksFacts, Zenon
    <3>. QED BY <3>2, <3>4, <3>5, <3>6, Zenon DEF Tracks, Grows, Evolves
  <2>3. CASE ~Running(g)
    <3>1. reloadMemorySizeFromInstance(g) = g
      BY <2>3 DEF reloadMemorySizeFromInstance
    <3>. QED BY <2>3, <3>1, Zenon DEF Tracks
  <2>. QED BY <2>2, <2>3, Zenon
(* Inline growth charges a natural amount and leaves the cached size right. *)
<1>ExpandIRTracks.
      ASSUME NEW f, Sound(f), NEW size \in Nat
      PROVE  Tracks(f, expandMemoryIR(f, size))
  <2>. USE <1>ExpandIRTracks
  <2>. DEFINE end == 32 * numWords(size)
              cost == MemoryGas(end) - MemoryGas(f.msz)
              g == chargeGas(f, cost)
              r == expandMemoryIR(f, size)
  <2>1. CASE size > MaxMemory
    <3>1. r = Fail(f, "OUT_OF_GAS")
      BY <2>1 DEF expandMemoryIR
    <3>. QED BY <3>1, FailCalm, TracksFacts, Zenon DEF Statuses
  <2>2. CASE ~(size > MaxMemory) /\ (size <= f.msz \/ ~Running(f))
    <3>1. r = f
      BY <2>2 DEF expandMemoryIR
    <3>. QED BY <3>1, CalmReflexive, TracksFacts, Zenon
  <2>3. CASE ~(size > MaxMemory) /\ ~(size <= f.msz) /\ Running(f)
    <3>1. r = IF Running(g) THEN [g EXCEPT !.mem = end, !.msz = end] ELSE g
      BY <2>3 DEF expandMemoryIR
    <3>2. end \in Nat /\ end % 32 = 0 /\ size <= end /\ end <= size + 31
      BY NumWords
    <3>. HIDE DEF end
    <3>3. f.msz \in Nat
      BY FrameFields, Zenon
    <3>4. f.msz <= end /\ end <= MaxMemory + 31
      BY <2>3, <3>2, <3>3, CodeAssumption
    <3>5. cost \in Nat
      BY <3>2, <3>3, <3>4, MemoryGasGrows
    <3>. HIDE DEF cost
    <3>6. Calm(f, g)
      BY <3>5, ChargeCalm, Zenon
    <3>. HIDE DEF g, r
    <3>7. Sound(g) /\ Tracks(f, g)
      BY <3>6, TracksFacts, Zenon
    <3>8. CASE Running(g)
      <4>. DEFINE h == [g EXCEPT !.mem = end, !.msz = end]
      <4>1. Evolves(g, h) /\ h.begin = g.begin /\ h.mem = end /\ h.msz = end
        BY <3>2, <3>4, <3>7, <3>8, SetMemEvolves, Zenon
      <4>2. r = h
        BY <3>1, <3>8, Zenon
      <4>. HIDE DEF h
      <4>3. Tracks(g, h)
        BY <4>1, Zenon DEF Tracks, Grows
      <4>4. Tracks(f, h)
        BY <3>7, <4>3, <1>TracksTransitive, Zenon
      <4>. QED BY <4>2, <4>4, Zenon DEF r
    <3>9. CASE ~Running(g)
      BY <3>1, <3>7, <3>9, Zenon DEF r
    <3>. QED BY <3>8, <3>9, Zenon
  <2>. QED BY <2>1, <2>2, <2>3, Zenon
(* Growth by a helper: the larger of the ends that are used is a size. *)
<1>ExpandCheckedGrows.
      ASSUME NEW f, Sound(f), NEW a \in Nat, NEW b \in Nat, NEW c \in Nat, NEW d \in Nat
      PROVE  Grows(f, expandMemoryChecked(f, {<<a, b>>, <<c, d>>}))
  <2>. USE <1>ExpandCheckedGrows
  <2>. DEFINE ranges == {<<a, b>>, <<c, d>>}
              used == {r \in ranges : r[2] > 0}
              sums == {r[1] + r[2] : r \in used}
              size == CHOOSE s \in sums : \A r \in used : r[1] + r[2] <= s
              end == 32 * numWords(size)
              cost == MemoryGas(end) - MemoryGas(f.mem)
              h == chargeGas(f, cost)
              x == expandMemoryChecked(f, ranges)
  <2>1. x = IF used = {} \/ ~Running(f) THEN f
            ELSE IF size > U64Max \/ size > MaxMemory THEN Fail(f, "OUT_OF_GAS")
            ELSE IF end <= f.mem THEN f
            ELSE IF Running(h) THEN [h EXCEPT !.mem = end] ELSE h
    BY DEF expandMemoryChecked
  <2>2. \A s \in sums : s \in Nat
    OBVIOUS
  <2>3. used # {} => \E s \in sums : \A r \in used : r[1] + r[2] <= s
    <3>. SUFFICES ASSUME used # {} PROVE \E s \in sums : \A r \in used : r[1] + r[2] <= s
      OBVIOUS
    <3>0. <<a, b>>[1] = a /\ <<a, b>>[2] = b /\ <<c, d>>[1] = c /\ <<c, d>>[2] = d
      OBVIOUS
    <3>4. \A r \in used : (r = <<a, b>> /\ b > 0) \/ (r = <<c, d>> /\ d > 0)
      <4>. TAKE r \in used
      <4>1. (r = <<a, b>> \/ r = <<c, d>>) /\ r[2] > 0
        BY Zenon
      <4>2. r = <<a, b>> => r[2] = b
        BY <3>0, Zenon
      <4>3. r = <<c, d>> => r[2] = d
        BY <3>0, Zenon
      <4>. QED BY <4>1, <4>2, <4>3, Zenon
    <3>1. b > 0 => a + b \in sums
      <4>1. b > 0 => <<a, b>> \in used
        BY <3>0, Zenon
      <4>. QED BY <3>0, <4>1, Zenon
    <3>2. d > 0 => c + d \in sums
      <4>1. d > 0 => <<c, d>> \in used
        BY <3>0, Zenon
      <4>. QED BY <3>0, <4>1, Zenon
    <3>3. b > 0 \/ d > 0
      BY <3>4, Zenon
    <3>5. CASE b > 0 /\ (d = 0 \/ c + d <= a + b)
      <4>1. \A r \in used : r[1] + r[2] <= a + b
        BY <3>4, <3>5
      <4>. QED BY <3>1, <3>5, <4>1, Zenon
    <3>6. CASE ~(b > 0 /\ (d = 0 \/ c + d <= a + b))
      <4>1. d > 0
        BY <3>3, <3>6
      <4>2. \A r \in used : r[1] + r[2] <= c + d
        BY <3>4, <3>6
      <4>. QED BY <3>2, <4>1, <4>2, Zenon
    <3>. QED BY <3>5, <3>6, Zenon
  <2>. HIDE DEF used, sums
  <2>4. used # {} => size \in sums
    BY <2>3, Zenon
  <2>. HIDE DEF size, x
  <2>5. CASE used = {} \/ ~Running(f) \/ size > U64Max \/ size > MaxMemory \/ end <= f.mem
    <3>1. x \in {f, Fail(f, "OUT_OF_GAS")}
      BY <2>1, <2>5, Zenon
    <3>2. Grows(f, x)
      BY <3>1, FailCalm, CalmReflexive, TracksFacts, Zenon DEF Statuses
    <3>. QED BY <3>2, Zenon DEF x
  <2>6. CASE ~(used = {} \/ ~Running(f) \/ size > U64Max \/ size > MaxMemory \/ end <= f.mem)
    <3>1. size \in Nat
      BY <2>2, <2>4, <2>6, Zenon
    <3>2. end \in Nat /\ end % 32 = 0 /\ end <= size + 31
      BY <3>1, NumWords
    <3>3. x = IF Running(h) THEN [h EXCEPT !.mem = end] ELSE h
      BY <2>1, <2>6, Zenon
    <3>. HIDE DEF end
    <3>4. f.mem \in Nat
      BY FrameFields, Zenon
    <3>5. f.mem <= end /\ end <= MaxMemory + 31
      BY <2>6, <3>1, <3>2, <3>4, CodeAssumption
    <3>6. cost \in Nat
      BY <3>2, <3>4, <3>5, MemoryGasGrows
    <3>. HIDE DEF cost
    <3>7. Calm(f, h)
      BY <3>6, ChargeCalm, Zenon
    <3>. HIDE DEF h
    <3>8. Sound(h) /\ Grows(f, h)
      BY <3>7, TracksFacts, Zenon
    <3>9. CASE Running(h)
      <4>. DEFINE y == [h EXCEPT !.mem = end]
      <4>1. Evolves(h, y) /\ y.begin = h.begin
        BY <3>2, <3>5, <3>8, <3>9, SetMemEvolves, Zenon
      <4>2. x = y
        BY <3>3, <3>9, Zenon
      <4>. HIDE DEF y
      <4>3. Grows(f, y)
        BY <3>8, <4>1, <1>GrowsTransitive, Zenon DEF Grows
      <4>. QED BY <4>2, <4>3, Zenon DEF x
    <3>10. CASE ~Running(h)
      BY <3>3, <3>8, <3>10, Zenon DEF x
    <3>. QED BY <3>9, <3>10, Zenon
  <2>. QED BY <2>5, <2>6, Zenon
(* expandMemoryChecked for one range keeps the memory in whole words and
   only takes gas. *)
<1>ExpandOneGrows.
      ASSUME NEW f, Sound(f), NEW a \in Nat, NEW b \in Nat
      PROVE  Grows(f, expandMemoryChecked(f, {<<a, b>>}))
  <2>. USE <1>ExpandOneGrows
  <2>1. {<<a, b>>} = {<<a, b>>, <<a, b>>}
    OBVIOUS
  <2>. QED BY <2>1, <1>ExpandCheckedGrows, Zenon
(* The emitted expansion leaves the precheck plan of the block alone. *)
<1>ExpandIRPlan.
      ASSUME NEW f, Sound(f), NEW size
      PROVE  expandMemoryIR(f, size).plan = f.plan
  BY <1>ExpandIRPlan DEF expandMemoryIR, chargeGas, Fail, Sound, Frames
(* Taking an access off the plan of the block. *)
<1>TakePlanTracks.
      ASSUME NEW e, Sound(e), Running(e), NEW f, Tracks(e, f), NEW size,
             f.plan.ops > 0, f.plan.paid \/ size \in Nat
      PROVE  Tracks(e, TakePlan(f, size))
  <2>. USE <1>TakePlanTracks
  <2>. DEFINE g == IF f.plan.paid THEN f ELSE expandMemoryIR(f, size)
  <2>1. Sound(f)
    BY TracksFacts, Zenon
  <2>2. Tracks(e, g) /\ g.plan = f.plan
    <3>1. CASE f.plan.paid
      BY <3>1, Zenon
    <3>2. CASE ~f.plan.paid
      <4>1. Tracks(f, expandMemoryIR(f, size))
        BY <2>1, <3>2, <1>ExpandIRTracks, Zenon
      <4>2. Tracks(e, expandMemoryIR(f, size))
        BY <4>1, <1>TracksTransitive, Zenon
      <4>. QED BY <3>2, <4>2, <1>ExpandIRPlan, <2>1, Zenon
    <3>. QED BY <3>1, <3>2, Zenon
  <2>. HIDE DEF g
  <2>3. Sound(g) /\ g.plan \in Plans /\ g.plan.ops > 0
    BY <2>2, TracksFacts, FrameFields, Zenon
  <2>. DEFINE p == [g.plan EXCEPT !.paid = TRUE, !.ops = @ - 1]
              h == [g EXCEPT !.plan = p]
  <2>4. p \in Plans
    <3>1. g.plan.ops - 1 \in Nat
      BY <2>3 DEF Plans
    <3>. QED BY <2>3, <3>1, Zenon DEF Plans
  <2>5. g \in Frames
    BY <2>3 DEF Sound
  <2>9. TakePlan(f, size) = h
    BY Zenon DEF TakePlan, g
  <2>. HIDE DEF p
  <2>7. h \in Frames
    BY <2>4, <2>5, Zenon DEF Frames
  <2>8. /\ h.gas = g.gas /\ h.stack = g.stack /\ h.mem = g.mem /\ h.pc = g.pc
        /\ h.until = g.until /\ h.snap = g.snap /\ h.rev = g.rev /\ h.static = g.static
        /\ h.deep = g.deep /\ h.log = g.log /\ h.msz = g.msz /\ h.begin = g.begin
        /\ h.st = g.st
    BY <2>5 DEF Frames
  <2>. HIDE DEF h
  <2>10. Sound(h)
    BY <2>3, <2>7, <2>8 DEF Sound
  <2>11. Running(h) <=> Running(g)
    BY <2>8, Zenon DEF Running
  <2>. QED BY <2>2, <2>8, <2>9, <2>10, <2>11, Zenon DEF Tracks, Grows, Evolves
(* A load or store of compiled code leaves the cached memory size right,
   expanded or prechecked. *)
<1>DirectAccessTracks.
      ASSUME NEW f, Sound(f), Running(f), NEW op, NEW addr \in Nat
      PROVE  Tracks(f, DirectAccess(f, op, addr))
  <2>. USE <1>DirectAccessTracks
  <2>0. f.plan \in Plans /\ f.stack \in Seq(Nat)
    BY FrameFields
  <2>1. f.plan.ops \in Nat /\ f.plan.size \in Nat
    BY <2>0 DEF Plans
  <2>2. \A w : Calm(f, normalizeOperandU64(f, w)) /\ normalizeOperandU64(f, w).plan = f.plan
    BY <1>NormalizeCalm, Zenon DEF Calm
  <2>3. CASE f.plan.kind = "linear" /\ f.plan.ops > 0 /\ op # MSTORE8
               /\ (f.plan.paid \/ Len(f.stack) >= 2)
    <3>. DEFINE stride == f.stack[2]
                g == IF f.plan.paid THEN f ELSE normalizeOperandU64(f, stride)
                last == addr + stride * (f.plan.ops - 1)
    <3>1. DirectAccess(f, op, addr) = IF ~Running(g) THEN g ELSE TakePlan(g, last + f.plan.size)
      BY <2>3 DEF DirectAccess, tryConsumeLinearBlockMemoryPrecheck
    <3>2. Tracks(f, g) /\ g.plan = f.plan
      BY <2>2, CalmReflexive, TracksFacts, Zenon
    <3>3. f.plan.paid \/ last + f.plan.size \in Nat
      <4>1. CASE Len(f.stack) >= 2
        <5>1. stride \in Nat
          BY <2>0, <4>1, ElementOfSeq, LenProperties
        <5>. HIDE DEF stride
        <5>2. f.plan.ops - 1 \in Nat
          BY <2>1, <2>3
        <5>3. stride * (f.plan.ops - 1) \in Nat
          BY <5>1, <5>2
        <5>. QED BY <2>1, <5>3
      <4>. QED BY <2>3, <4>1
    <3>. HIDE DEF g, last
    <3>4. Tracks(f, TakePlan(g, last + f.plan.size))
      BY <2>3, <3>2, <3>3, <1>TakePlanTracks, Zenon
    <3>. QED BY <3>1, <3>2, <3>4, Zenon
  <2>4. CASE ~(f.plan.kind = "linear" /\ f.plan.ops > 0 /\ op # MSTORE8
                 /\ (f.plan.paid \/ Len(f.stack) >= 2))
    <3>. DEFINE g == normalizeOperandU64(f, addr)
                n == addr + (IF op = MSTORE8 THEN 1 ELSE 32)
    <3>1. DirectAccess(f, op, addr) =
            IF f.plan.kind = "const" /\ f.plan.ops > 0 THEN TakePlan(g, f.plan.size)
            ELSE expandMemoryIR(g, n)
      BY <2>4 DEF DirectAccess
    <3>2. Tracks(f, g) /\ g.plan = f.plan /\ Sound(g)
      BY <2>2, TracksFacts, Zenon
    <3>3. n \in Nat
      OBVIOUS
    <3>. HIDE DEF g, n
    <3>4. f.plan.ops > 0 => Tracks(f, TakePlan(g, f.plan.size))
      BY <2>1, <3>2, <1>TakePlanTracks, Zenon
    <3>5. Tracks(g, expandMemoryIR(g, n))
      BY <3>2, <3>3, <1>ExpandIRTracks, Zenon
    <3>6. Tracks(f, expandMemoryIR(g, n))
      BY <3>2, <3>5, <1>TracksTransitive, Zenon
    <3>. QED BY <3>1, <3>4, <3>6, Zenon
  <2>. QED BY <2>3, <2>4, Zenon
(* The emitted MCOPY leaves the cached memory size right. *)
<1>MCopyTracks.
      ASSUME NEW f, Sound(f), NEW a, a[1] \in Nat, a[2] \in Nat, a[3] \in Nat
      PROVE  Tracks(f, handleMCopy(f, a))
  <2>. USE <1>MCopyTracks
  <2>. DEFINE x == normalizeOperandU64(f, a[1])
              y == normalizeOperandU64(x, a[2])
              g == normalizeOperandU64(y, a[3])
              end == (IF a[1] > a[2] THEN a[1] ELSE a[2]) + a[3]
              cost == 3 * numWords(a[3])
              c == chargeGas(g, cost)
  <2>1. handleMCopy(f, a) = IF a[3] = 0 THEN f ELSE IF ~Running(g) THEN g
                            ELSE expandMemoryIR(c, end)
    BY DEF handleMCopy
  <2>2. end \in Nat
    OBVIOUS
  <2>3. cost \in Nat
    <3>1. numWords(a[3]) \in Nat
      BY NumWords, Zenon
    <3>. QED BY <3>1
  <2>. HIDE DEF end, cost
  <2>4. Calm(f, x) /\ Sound(x)
    BY <1>NormalizeCalm, CalmFacts, Zenon
  <2>. HIDE DEF x
  <2>5. Calm(x, y) /\ Sound(y)
    BY <2>4, <1>NormalizeCalm, CalmFacts, Zenon
  <2>. HIDE DEF y
  <2>6. Calm(y, g) /\ Sound(g)
    BY <2>5, <1>NormalizeCalm, CalmFacts, Zenon
  <2>7. Calm(f, g)
    BY <2>4, <2>5, <2>6, CalmTransitive, Zenon
  <2>. HIDE DEF g
  <2>8. Calm(g, c) /\ Sound(c)
    BY <2>3, <2>6, ChargeCalm, CalmFacts, Zenon
  <2>. HIDE DEF c
  <2>9. Tracks(c, expandMemoryIR(c, end))
    BY <2>2, <2>8, <1>ExpandIRTracks, Zenon
  <2>10. Calm(f, c)
    BY <2>7, <2>8, CalmTransitive, Zenon
  <2>11. Tracks(f, expandMemoryIR(c, end))
    BY <2>9, <2>10, TracksFacts, <1>TracksTransitive, Zenon
  <2>. QED BY <2>1, <2>7, <2>11, CalmReflexive, TracksFacts, Zenon
(* A helper's copy: growth and the price of the words. *)
<1>CallDataCopyGrows.
      ASSUME NEW f, Sound(f), NEW a, a[1] \in Nat, a[3] \in Nat
      PROVE  Grows(f, evmSetCallDataCopy(f, a))
  <2>. USE <1>CallDataCopyGrows
  <2>. DEFINE size == uint256ToUint64(a[3])
              off == uint256ToUint64(a[1])
              m == expandMemoryChecked(f, {<<off, size>>})
              cost == 3 * numWords(size)
  <2>1. evmSetCallDataCopy(f, a) = IF size = 0 THEN f ELSE chargeGas(m, cost)
    BY DEF evmSetCallDataCopy
  <2>2. size \in Nat /\ off \in Nat
    BY U64Type, Zenon
  <2>. HIDE DEF size, off
  <2>3. cost \in Nat
    <3>1. numWords(size) \in Nat
      BY <2>2, NumWords, Zenon
    <3>. QED BY <3>1
  <2>. HIDE DEF cost
  <2>4. Grows(f, m) /\ Sound(m)
    BY <2>2, <1>ExpandOneGrows, TracksFacts, Zenon
  <2>. HIDE DEF m
  <2>5. Grows(m, chargeGas(m, cost))
    BY <2>3, <2>4, ChargeCalm, TracksFacts, Zenon
  <2>6. Grows(f, chargeGas(m, cost))
    BY <2>4, <2>5, <1>GrowsTransitive, Zenon
  <2>. QED BY <2>1, <2>6, CalmReflexive, TracksFacts, Zenon
(* evmSetCodeCopy only grows the memory and charges. *)
<1>CodeCopyGrows.
      ASSUME NEW f, Sound(f), NEW a, a[1] \in Nat, a[3] \in Nat
      PROVE  Grows(f, evmSetCodeCopy(f, a))
  <2>. USE <1>CodeCopyGrows
  <2>. DEFINE n == normalizeOffsetWithSize(f, a[1], a[3])
  <2>1. Grows(f, n) /\ Sound(n)
    BY <1>NormalizeCalm, TracksFacts, Zenon
  <2>2. evmSetCodeCopy(f, a) = evmSetCallDataCopy(n, a)
    BY DEF evmSetCodeCopy
  <2>. HIDE DEF n
  <2>3. Grows(n, evmSetCallDataCopy(n, a))
    BY <2>1, <1>CallDataCopyGrows, Zenon
  <2>. QED BY <2>1, <2>2, <2>3, <1>GrowsTransitive, Zenon
(* evmSetExtCodeCopy only grows the memory and charges. *)
<1>ExtCodeCopyGrows.
      ASSUME NEW f, Sound(f), NEW a, a[2] \in Nat, a[4] \in Nat, NEW in
      PROVE  Grows(f, evmSetExtCodeCopy(f, a, in))
  <2>. USE <1>ExtCodeCopyGrows
  <2>. DEFINE size == uint256ToUint64(a[4])
              off == uint256ToUint64(a[2])
              m == expandMemoryChecked(f, {<<off, size>>})
              cost == 3 * numWords(size)
              cold == ADDITIONAL_COLD_ACCOUNT_ACCESS_COST
              c == chargeGas(m, cost)
  <2>1. evmSetExtCodeCopy(f, a, in) = ChargeCold(c, in, cold)
    BY DEF evmSetExtCodeCopy
  <2>2. size \in Nat /\ off \in Nat
    BY U64Type, Zenon
  <2>. HIDE DEF size, off
  <2>3. cost \in Nat
    <3>1. numWords(size) \in Nat
      BY <2>2, NumWords, Zenon
    <3>. QED BY <3>1
  <2>4. cold \in Nat
    BY DEF ADDITIONAL_COLD_ACCOUNT_ACCESS_COST, COLD_ACCOUNT_ACCESS_COST, WARM_STORAGE_READ_COST
  <2>. HIDE DEF cost, cold
  <2>5. Grows(f, m) /\ Sound(m)
    BY <2>2, <1>ExpandOneGrows, TracksFacts, Zenon
  <2>. HIDE DEF m
  <2>6. Grows(m, c) /\ Sound(c)
    BY <2>3, <2>5, ChargeCalm, TracksFacts, Zenon
  <2>. HIDE DEF c
  <2>7. Grows(c, ChargeCold(c, in, cold))
    BY <2>4, <2>6, ChargeColdCalm, TracksFacts, Zenon
  <2>. QED BY <2>1, <2>5, <2>6, <2>7, <1>GrowsTransitive, Zenon
(* evmSetReturnDataCopy fails beyond the return data, and else grows the
   memory and charges. *)
<1>ReturnDataCopyGrows.
      ASSUME NEW f, Sound(f), NEW a, a[1] \in Nat, a[3] \in Nat
      PROVE  Grows(f, evmSetReturnDataCopy(f, a))
  <2>. USE <1>ReturnDataCopyGrows
  <2>1. evmSetReturnDataCopy(f, a) \in {Fail(f, "OUT_OF_BOUNDS_MEMORY"), evmSetCallDataCopy(f, a)}
    BY DEF evmSetReturnDataCopy
  <2>. QED BY <2>1, FailCalm, TracksFacts, <1>CallDataCopyGrows, Zenon DEF Statuses
(* evmGetKeccak256 only grows the memory, charges and pushes. *)
<1>Keccak256Grows.
      ASSUME NEW f, Sound(f), NEW a, a[1] \in Nat, a[2] \in Nat, NEW in, in.word \in Nat
      PROVE  Grows(f, evmGetKeccak256(f, a, in))
  <2>. USE <1>Keccak256Grows
  <2>. DEFINE n == normalizeOffsetWithSize(f, a[1], a[2])
              m == expandMemoryChecked(n, {<<a[1], a[2]>>})
              cost == 6 * numWords(a[2])
              c == chargeGas(m, cost)
  <2>1. evmGetKeccak256(f, a, in) = StackPush(c, in.word)
    BY DEF evmGetKeccak256
  <2>2. cost \in Nat
    <3>1. numWords(a[2]) \in Nat
      BY NumWords, Zenon
    <3>. QED BY <3>1
  <2>3. Grows(f, n) /\ Sound(n)
    BY <1>NormalizeCalm, TracksFacts, Zenon
  <2>. HIDE DEF n, cost
  <2>4. Grows(n, m) /\ Sound(m)
    BY <2>3, <1>ExpandOneGrows, TracksFacts, Zenon
  <2>. HIDE DEF m
  <2>5. Grows(m, c) /\ Sound(c)
    BY <2>2, <2>4, ChargeCalm, TracksFacts, Zenon
  <2>. HIDE DEF c
  <2>6. Grows(c, StackPush(c, in.word))
    BY <2>5, <1>StackPushCalm, TracksFacts, Zenon
  <2>7. Grows(f, m)
    BY <2>3, <2>4, <1>GrowsTransitive, Zenon
  <2>. QED BY <2>1, <2>5, <2>6, <2>7, <1>GrowsTransitive, Zenon
(* evmEmitLog writes only outside a static frame, and else fails. *)
<1>LogGrows.
      ASSUME NEW f, Sound(f), NEW op \in Nat, NEW a, a[1] \in Nat, a[2] \in Nat
      PROVE  Grows(f, evmEmitLogGeneric(f, op, a))
  <2>. USE <1>LogGrows
  <2>. DEFINE n == normalizeOffsetWithSize(f, a[1], a[2])
              g == RequireNotStatic(n)
              m == expandMemoryChecked(g, {<<a[1], a[2]>>})
              cost == 8 * a[2]
              c == chargeGas(m, cost)
  <2>1. evmEmitLogGeneric(f, op, a) = HostWrite(c, op)
    BY DEF evmEmitLogGeneric
  <2>2. cost \in Nat
    OBVIOUS
  <2>3. Grows(f, n) /\ Sound(n)
    BY <1>NormalizeCalm, TracksFacts, Zenon
  <2>. HIDE DEF n, cost
  <2>4. Grows(n, g) /\ Sound(g) /\ (Running(g) => ~g.static)
    BY <2>3, RequireNotStaticCalm, TracksFacts, Zenon
  <2>. HIDE DEF g
  <2>5. Grows(g, m) /\ Sound(m)
    BY <2>4, <1>ExpandOneGrows, TracksFacts, Zenon
  <2>. HIDE DEF m
  <2>6. Grows(m, c) /\ Sound(c)
    BY <2>2, <2>5, ChargeCalm, TracksFacts, Zenon
  <2>. HIDE DEF c
  <2>7. Grows(g, c)
    BY <2>4, <2>5, <2>6, <1>GrowsTransitive, Zenon
  <2>8. Running(c) => ~c.static
    BY <2>4, <2>7, TracksFacts, Zenon
  <2>9. Grows(c, HostWrite(c, op))
    BY <2>6, <2>8, HostWriteCalm, TracksFacts, Zenon
  <2>10. Grows(f, g)
    BY <2>3, <2>4, <1>GrowsTransitive, Zenon
  <2>. QED BY <2>1, <2>7, <2>9, <2>10, <1>GrowsTransitive, Zenon
(* evmSetSStore and evmSetTStore write only outside a static frame, and
   else fail. *)
<1>SetSStoreCalm.
      ASSUME NEW f, Sound(f), NEW in
      PROVE  Calm(f, evmSetSStore(f, in)) /\ Calm(f, evmSetTStore(f))
  <2>. USE <1>SetSStoreCalm
  <2>. DEFINE g == RequireNotStatic(f)
              cost == SStoreCost(f.rev, in.status)
              cold == IF f.rev >= BERLIN /\ in.cold THEN COLD_SLOAD_COST ELSE 0
              w == HostWrite(g, SSTORE)
              c == chargeGas(w, cold + cost[1])
  <2>1. evmSetSStore(f, in) \in {Fail(g, "OUT_OF_GAS"), addGasRefund(c, cost[2])}
    BY DEF evmSetSStore
  <2>2. evmSetTStore(f) = HostWrite(g, TSTORE)
    BY DEF evmSetTStore
  <2>3. cost[1] \in Nat /\ cost[2] \in Int
    BY FrameFields, SStoreCostType, Zenon
  <2>4. cold \in Nat /\ SSTORE \in Nat /\ TSTORE \in Nat
    BY DEF COLD_SLOAD_COST, SSTORE, TSTORE
  <2>5. Calm(f, g) /\ Sound(g) /\ (Running(g) => ~g.static)
    BY RequireNotStaticCalm, CalmFacts, Zenon
  <2>. HIDE DEF cost, cold, g
  <2>6. cold + cost[1] \in Nat
    BY <2>3, <2>4
  <2>7. Calm(g, HostWrite(g, TSTORE)) /\ Calm(g, w) /\ Sound(w)
    BY <2>4, <2>5, HostWriteCalm, CalmFacts, Zenon
  <2>. HIDE DEF w
  <2>8. Calm(w, c) /\ Sound(c)
    BY <2>6, <2>7, ChargeCalm, CalmFacts, Zenon
  <2>. HIDE DEF c
  <2>9. Calm(c, addGasRefund(c, cost[2]))
    BY <2>3, <2>8, RefundCalm, Zenon
  <2>10. Calm(f, HostWrite(g, TSTORE)) /\ Calm(f, w)
    BY <2>5, <2>7, CalmTransitive, Zenon
  <2>11. Calm(f, addGasRefund(c, cost[2]))
    BY <2>8, <2>9, <2>10, CalmTransitive, Zenon
  <2>12. Calm(f, Fail(g, "OUT_OF_GAS"))
    BY <2>5, FailCalm, CalmTransitive, Zenon DEF Statuses
  <2>. QED BY <2>1, <2>2, <2>10, <2>11, <2>12, Zenon
(* evmHandleCreateInternal never leaves the caller with more gas. *)
<1>CreateGrows.
      ASSUME NEW f, Sound(f), NEW op \in Nat, NEW a, a[1] \in Nat, a[2] \in Nat, a[3] \in Nat,
             NEW in, Answer(in)
      PROVE  Grows(f, evmHandleCreateInternal(f, op, a, in))
  <2>. USE <1>CreateGrows
  <2>. DEFINE size == a[3]
              word == (IF op = CREATE2 THEN 6 ELSE 0) + (IF f.rev >= SHANGHAI THEN 2 ELSE 0)
              cost == word * numWords(size)
              n == normalizeOffsetWithSize(f, a[2], size)
              s == RequireNotStatic(n)
              g == expandMemoryChecked(s, {<<a[2], size>>})
              h == IF f.rev >= SHANGHAI /\ size > MaxInitcode THEN Fail(g, "OUT_OF_GAS")
                   ELSE chargeGas(g, cost)
              w == HostWrite(h, op)
              u == ChargeUsed(w, AllButOne64th(h.gas), in)
              done == addGasRefund(u, in.refund)
              z == SetRet(h, 0)
              x == SetRet(done, in.size)
              v == IF in.ok THEN in.word ELSE 0
  <2>1. 0 \in Nat /\ word \in Nat /\ v \in Nat /\ in.size \in Nat
    BY DEF Answer
  <2>2. cost \in Nat
    <3>1. numWords(size) \in Nat
      BY NumWords, Zenon
    <3>. HIDE DEF word
    <3>. QED BY <2>1, <3>1
  <2>3. evmHandleCreateInternal(f, op, a, in) =
          IF ~Running(h) THEN h
          ELSE IF h.deep \/ (a[1] # 0 /\ in.poor) THEN StackPush(z, 0)
          ELSE StackPush(x, v)
    BY DEF evmHandleCreateInternal
  <2>. HIDE DEF word, cost, v
  <2>4. Grows(f, n) /\ Sound(n)
    BY <1>NormalizeCalm, TracksFacts, Zenon
  <2>. HIDE DEF n
  <2>5. Grows(n, s) /\ Sound(s) /\ (Running(s) => ~s.static)
    BY <2>4, RequireNotStaticCalm, TracksFacts, Zenon
  <2>. HIDE DEF s
  <2>6. Grows(s, g) /\ Sound(g)
    BY <2>5, <1>ExpandOneGrows, TracksFacts, Zenon
  <2>. HIDE DEF g
  <2>7. Grows(g, h) /\ Sound(h)
    <3>1. Grows(g, Fail(g, "OUT_OF_GAS"))
      BY <2>6, FailCalm, TracksFacts, Zenon DEF Statuses
    <3>2. Grows(g, chargeGas(g, cost))
      BY <2>2, <2>6, ChargeCalm, TracksFacts, Zenon
    <3>. QED BY <3>1, <3>2, TracksFacts, Zenon
  <2>. HIDE DEF h
  <2>8. Grows(s, h) /\ Grows(f, h)
    <3>1. Grows(s, h)
      BY <2>5, <2>6, <2>7, <1>GrowsTransitive, Zenon
    <3>2. Grows(f, s)
      BY <2>4, <2>5, <1>GrowsTransitive, Zenon
    <3>. QED BY <3>1, <3>2, <1>GrowsTransitive, Zenon
  <2>9. Running(h) => ~h.static
    BY <2>5, <2>8, TracksFacts, Zenon
  <2>10. Grows(h, w) /\ Sound(w)
    BY <2>7, <2>9, HostWriteCalm, TracksFacts, Zenon
  <2>11. AllButOne64th(h.gas) \in Nat
    BY <2>7, FrameFields, AllButOne64thType, Zenon
  <2>. HIDE DEF w
  <2>12. Grows(w, u) /\ Sound(u)
    BY <2>10, <2>11, ChargeUsedCalm, TracksFacts, Zenon DEF Answer
  <2>. HIDE DEF u
  <2>13. Grows(u, done) /\ Sound(done)
    BY <2>12, RefundCalm, TracksFacts, Zenon DEF Answer
  <2>. HIDE DEF done
  <2>14. Grows(f, done)
    <3>1. Grows(f, w)
      BY <2>8, <2>10, <1>GrowsTransitive, Zenon
    <3>2. Grows(f, u)
      BY <3>1, <2>12, <1>GrowsTransitive, Zenon
    <3>. QED BY <3>2, <2>13, <1>GrowsTransitive, Zenon
  <2>15. Grows(done, x) /\ Sound(x) /\ Grows(h, z) /\ Sound(z)
    BY <2>1, <2>7, <2>13, SetRetCalm, TracksFacts, Zenon
  <2>. HIDE DEF x, z
  <2>16. Grows(x, StackPush(x, v)) /\ Grows(z, StackPush(z, 0))
    BY <2>1, <2>15, <1>StackPushCalm, TracksFacts, Zenon
  <2>17. Grows(f, x) /\ Grows(f, z)
    BY <2>8, <2>14, <2>15, <1>GrowsTransitive, Zenon
  <2>18. Grows(f, StackPush(x, v)) /\ Grows(f, StackPush(z, 0))
    BY <2>16, <2>17, <1>GrowsTransitive, Zenon
  <2>. QED BY <2>3, <2>8, <2>18, Zenon
(* evmHandleCallInternal never leaves the caller with more gas, the
   stipend included. *)
<1>CallGrows.
      ASSUME NEW f, Sound(f), NEW op \in CallOps, NEW a \in Seq(Nat), Len(a) = Required(op),
             NEW in, Answer(in)
      PROVE  Grows(f, evmHandleCallInternal(f, op, a, in))
  <2>. USE <1>CallGrows
  <2>. DEFINE value == CallValueOf(op, a)
              r == RangesOf(op, a)
              n1 == normalizeOffsetWithSize(f, r[1], r[2])
              n == normalizeOffsetWithSize(n1, r[3], r[4])
              c == ChargeCold(n, in, ADDITIONAL_COLD_ACCOUNT_ACCESS_COST)
              s == IF op = CALL /\ value # 0 THEN RequireNotStatic(c) ELSE c
              m == expandMemoryChecked(s, {<<r[1], r[2]>>, <<r[3], r[4]>>})
              v == chargeGas(m, ValueCost(op, value, in))
              cap == AllButOne64th(v.gas)
              want == uint256ToUint64(a[1])
              stipend == IF value # 0 THEN CALL_GAS_STIPEND ELSE 0
              given == (IF want < cap THEN want ELSE cap) + stipend
              g == [v EXCEPT !.gas = @ + stipend]
              write == IF op = STATICCALL \/ f.static THEN g ELSE HostWrite(g, op)
              u == ChargeUsed(write, given, in)
              done == addGasRefund(u, in.refund)
              z == SetRet(g, 0)
              x == SetRet(done, in.size)
              b == IF in.ok THEN 1 ELSE 0
  <2>1. /\ a[1] \in Nat /\ value \in Nat
        /\ r[1] \in Nat /\ r[2] \in Nat /\ r[3] \in Nat /\ r[4] \in Nat
    <3>1. 1 \in 1..4 /\ 2 \in 1..4 /\ 3 \in 1..4 /\ 4 \in 1..4
      OBVIOUS
    <3>. QED BY <3>1, RangesType, Zenon
  <2>2. /\ ADDITIONAL_COLD_ACCOUNT_ACCESS_COST \in Nat /\ CALL_GAS_STIPEND \in Nat /\ 0 \in Nat
        /\ b \in Nat /\ op \in Nat /\ in.size \in Nat
    BY DEF ADDITIONAL_COLD_ACCOUNT_ACCESS_COST, COLD_ACCOUNT_ACCESS_COST, WARM_STORAGE_READ_COST,
           CALL_GAS_STIPEND, CallOps, CALL, CALLCODE, DELEGATECALL, STATICCALL, Answer
  <2>3. evmHandleCallInternal(f, op, a, in) =
          IF ~Running(v) THEN v
          ELSE IF (value # 0 /\ in.poor) \/ f.deep THEN StackPush(z, 0)
          ELSE StackPush(x, b)
    BY DEF evmHandleCallInternal
  <2>. HIDE DEF value, r, b
  <2>4. Grows(f, n1) /\ Sound(n1)
    BY <1>NormalizeCalm, TracksFacts, Zenon
  <2>. HIDE DEF n1
  <2>5. Grows(n1, n) /\ Sound(n)
    BY <2>4, <1>NormalizeCalm, TracksFacts, Zenon
  <2>. HIDE DEF n
  <2>6. Grows(n, c) /\ Sound(c)
    BY <2>2, <2>5, ChargeColdCalm, TracksFacts, Zenon
  <2>. HIDE DEF c
  <2>7. Grows(c, s) /\ Sound(s)
    BY <2>6, RequireNotStaticCalm, CalmReflexive, TracksFacts, Zenon
  <2>. HIDE DEF s
  <2>8. Grows(s, m) /\ Sound(m)
    BY <2>1, <2>7, <1>ExpandCheckedGrows, TracksFacts, Zenon
  <2>. HIDE DEF m
  <2>9. Grows(f, m)
    <3>1. Grows(f, n)
      BY <2>4, <2>5, <1>GrowsTransitive, Zenon
    <3>2. Grows(f, c)
      BY <3>1, <2>6, <1>GrowsTransitive, Zenon
    <3>3. Grows(f, s)
      BY <3>2, <2>7, <1>GrowsTransitive, Zenon
    <3>. QED BY <3>3, <2>8, <1>GrowsTransitive, Zenon
  <2>11. ValueCost(op, value, in) \in Nat
    BY <2>1, ValueCostType, Zenon
  <2>12. /\ Grows(m, v) /\ Sound(v)
         /\ Running(v) => v.gas = m.gas - ValueCost(op, value, in)
    BY <2>8, <2>11, ChargeCalm, TracksFacts, Zenon
  <2>. HIDE DEF v
  <2>13. Grows(f, v)
    BY <2>9, <2>12, <1>GrowsTransitive, Zenon
  <2>14. stipend \in Nat /\ stipend <= ValueCost(op, value, in)
    BY <2>1, <2>2, <2>11, ValueCostType
  <2>. HIDE DEF stipend
  <2>. SUFFICES ASSUME Running(v) PROVE Grows(f, evmHandleCallInternal(f, op, a, in))
    BY <2>3, <2>13, Zenon
  <2>15. v.gas + stipend <= f.gas
    <3>1. v.gas \in Nat /\ m.gas \in Nat /\ f.gas \in Nat
      BY <2>8, <2>12, FrameFields, Zenon
    <3>2. m.gas <= f.gas
      BY <2>9, EvolvesFacts, TracksFacts, Zenon
    <3>. QED BY <2>11, <2>12, <2>14, <3>1, <3>2
  <2>16. Grows(f, g) /\ Sound(g)
    <3>1. Evolves(f, g)
      BY <2>13, <2>14, <2>15, StipendEvolves, TracksFacts, Zenon
    <3>2. g.begin = v.begin
      BY <2>12 DEF Sound, Frames
    <3>. HIDE DEF g
    <3>. QED BY <2>13, <3>1, <3>2, EvolvesFacts, Zenon DEF Grows
  <2>17. given \in Nat
    <3>1. cap \in Nat /\ want \in Nat
      BY <2>1, <2>12, FrameFields, AllButOne64thType, U64Type, Zenon
    <3>. HIDE DEF cap, want
    <3>. QED BY <2>14, <3>1
  <2>. HIDE DEF given, g
  <2>18. Grows(f, write) /\ Sound(write)
    <3>1. ~f.static => Grows(g, HostWrite(g, op))
      <4>1. ~f.static => ~g.static
        BY <2>16, TracksFacts, Zenon
      <4>. QED BY <2>2, <2>16, <4>1, HostWriteCalm, TracksFacts, Zenon
    <3>. QED BY <2>16, <3>1, <1>GrowsTransitive, TracksFacts, Zenon
  <2>. HIDE DEF write
  <2>19. Grows(write, u) /\ Sound(u)
    BY <2>17, <2>18, ChargeUsedCalm, TracksFacts, Zenon DEF Answer
  <2>. HIDE DEF u
  <2>20. Grows(u, done) /\ Sound(done)
    BY <2>19, RefundCalm, TracksFacts, Zenon DEF Answer
  <2>. HIDE DEF done
  <2>21. Grows(f, done)
    <3>1. Grows(f, u)
      BY <2>18, <2>19, <1>GrowsTransitive, Zenon
    <3>. QED BY <3>1, <2>20, <1>GrowsTransitive, Zenon
  <2>22. Grows(done, x) /\ Sound(x) /\ Grows(g, z) /\ Sound(z)
    BY <2>2, <2>16, <2>20, SetRetCalm, TracksFacts, Zenon
  <2>. HIDE DEF x, z
  <2>23. Grows(x, StackPush(x, b)) /\ Grows(z, StackPush(z, 0))
    BY <2>2, <2>22, <1>StackPushCalm, TracksFacts, Zenon
  <2>24. Grows(f, x) /\ Grows(f, z)
    BY <2>16, <2>21, <2>22, <1>GrowsTransitive, Zenon
  <2>25. Grows(f, StackPush(x, b)) /\ Grows(f, StackPush(z, 0))
    BY <2>23, <2>24, <1>GrowsTransitive, Zenon
  <2>. QED BY <2>3, <2>25, Zenon
(* RETURN and REVERT end the frame. *)
<1>SetReturnTracks.
      ASSUME NEW f, Sound(f), NEW a, a[1] \in Nat, a[2] \in Nat
      PROVE  /\ Tracks(f, evmSetReturn(f, a)) /\ ~Running(evmSetReturn(f, a))
             /\ Tracks(f, evmSetRevert(f, a)) /\ ~Running(evmSetRevert(f, a))
  <2>. USE <1>SetReturnTracks
  <2>. DEFINE size == uint256ToUint64(a[2])
              off == uint256ToUint64(a[1])
              g == expandMemoryChecked(f, {<<off, size>>})
              x == [g EXCEPT !.st = "SUCCESS", !.ret = size]
              y == [g EXCEPT !.st = "REVERT", !.ret = size, !.refund = f.snap]
  <2>1. /\ evmSetReturn(f, a) = IF Running(g) THEN x ELSE g
        /\ evmSetRevert(f, a) = IF Running(g) THEN y ELSE g
    BY DEF evmSetReturn, evmSetRevert
  <2>2. size \in Nat /\ off \in Nat
    BY U64Type, Zenon
  <2>. HIDE DEF size, off
  <2>3. Grows(f, g) /\ Sound(g)
    BY <2>2, <1>ExpandOneGrows, TracksFacts, Zenon
  <2>. HIDE DEF g
  <2>4. f.snap \in Int /\ "SUCCESS" \in Statuses /\ "REVERT" \in Statuses
    BY FrameFields DEF Statuses
  <2>5. Running(g) => Calm(g, x) /\ Calm(g, y)
    BY <2>2, <2>3, <2>4, EndEvolves, Zenon
  <2>6. ~Running(x) /\ ~Running(y)
    BY <2>3 DEF Running, Sound, Frames
  <2>. HIDE DEF x, y
  <2>7. Running(g) => Grows(f, x) /\ Grows(f, y)
    BY <2>3, <2>5, TracksFacts, <1>GrowsTransitive, Zenon
  <2>. QED BY <2>1, <2>3, <2>6, <2>7, Zenon DEF Tracks
(* evmHandleSelfDestruct always ends the frame. *)
<1>DestructTracks.
      ASSUME NEW f, Sound(f), NEW in
      PROVE  Tracks(f, evmHandleSelfDestruct(f, in)) /\ ~Running(evmHandleSelfDestruct(f, in))
  <2>. USE <1>DestructTracks
  <2>. DEFINE g == RequireNotStatic(f)
  <2>1. Calm(f, g) /\ Sound(g) /\ (Running(g) => ~g.static)
    BY RequireNotStaticCalm, CalmFacts, Zenon
  <2>2. evmHandleSelfDestruct(f, in) = SelfDestruct(g, in)
    BY DEF evmHandleSelfDestruct
  <2>. HIDE DEF g
  <2>3. Calm(g, SelfDestruct(g, in))
    BY <2>1, SelfDestructCalm, Zenon
  <2>4. Calm(f, SelfDestruct(g, in))
    BY <2>1, <2>3, CalmTransitive, Zenon
  <2>5. ~Running(SelfDestruct(g, in))
    BY <2>1, SelfDestructCalm, Zenon
  <2>. QED BY <2>2, <2>4, <2>5, TracksFacts, Zenon
(* The helpers that ask the host only charge and push. *)
<1>QueryHelperCalm.
      ASSUME NEW f, Sound(f), NEW op, NEW in, in.word \in Nat
      PROVE  Calm(f, QueryHelper(f, op, in))
  <2>. USE <1>QueryHelperCalm
  <2>. DEFINE acc == ChargeCold(f, in, ADDITIONAL_COLD_ACCOUNT_ACCESS_COST)
              slot == ChargeCold(f, in, ADDITIONAL_COLD_SLOAD_COST)
              g == CASE op \in {BALANCE, EXTCODESIZE, EXTCODEHASH} -> acc
                     [] op = SLOAD -> slot
                     [] OTHER -> f
  <2>1. ADDITIONAL_COLD_ACCOUNT_ACCESS_COST \in Nat /\ ADDITIONAL_COLD_SLOAD_COST \in Nat
    BY DEF ADDITIONAL_COLD_ACCOUNT_ACCESS_COST, COLD_ACCOUNT_ACCESS_COST, WARM_STORAGE_READ_COST,
           ADDITIONAL_COLD_SLOAD_COST, COLD_SLOAD_COST
  <2>2. Calm(f, acc) /\ Calm(f, slot) /\ Calm(f, f)
    BY <2>1, ChargeColdCalm, CalmReflexive, Zenon
  <2>3. QueryHelper(f, op, in) = StackPush(g, in.word)
    BY DEF QueryHelper
  <2>. HIDE DEF acc, slot
  <2>4. g \in {acc, slot, f}
    OBVIOUS
  <2>. HIDE DEF g
  <2>5. Calm(f, g) /\ Sound(g)
    BY <2>2, <2>4, CalmFacts, Zenon
  <2>. QED BY <2>3, <2>5, <1>StackPushCalm, CalmTransitive, Zenon
(* The emitted arithmetic charges for EXP and pushes a word. *)
<1>EmittedArithmeticCalm.
      ASSUME NEW f, Sound(f), NEW op, NEW a \in Seq(Nat), NEW in, in.word \in Nat,
             op \in {ADD, SUB, LT} => Len(a) >= 2
      PROVE  Calm(f, StackPush(IF op = EXP THEN chargeGas(f, 50 * ByteLength(a[2])) ELSE f,
                               ResultOf(op, a, in)))
  <2>. USE <1>EmittedArithmeticCalm
  <2>. DEFINE cost == 50 * ByteLength(a[2])
              g == IF op = EXP THEN chargeGas(f, cost) ELSE f
  <2>1. cost \in Nat
    BY ByteLengthType
  <2>2. ResultOf(op, a, in) \in Nat
    BY ResultType, Zenon
  <2>. HIDE DEF cost
  <2>3. Calm(f, g) /\ Sound(g)
    BY <2>1, ChargeCalm, CalmReflexive, CalmFacts, Zenon
  <2>. HIDE DEF g
  <2>4. Calm(f, StackPush(g, ResultOf(op, a, in)))
    BY <2>2, <2>3, <1>StackPushCalm, CalmTransitive, Zenon
  <2>. QED BY <2>4 DEF g, cost
(* The emitted DUPn leaves a sound stack. *)
<1>EmittedDupCalm.
      ASSUME NEW f, Sound(f), Running(f), NEW a \in Seq(Nat), NEW n \in 1..Len(a),
             Len(a) + Len(f.stack) <= MaxStack
      PROVE  Calm(f, StackPush([f EXCEPT !.stack = a \o @], a[n]))
  <2>. USE <1>EmittedDupCalm
  <2>. DEFINE g == [f EXCEPT !.stack = a \o @]
  <2>1. Calm(f, g) /\ Sound(g)
    BY PutBackCalm, CalmFacts, Zenon
  <2>2. a[n] \in Nat
    BY ElementOfSeq, Zenon
  <2>. HIDE DEF g
  <2>3. Calm(f, StackPush(g, a[n]))
    BY <2>1, <2>2, <1>StackPushCalm, CalmTransitive, Zenon
  <2>. QED BY <2>3 DEF g
(* The opcodes that end a call are in no other class. *)
<1>EndOpsApart.
      ASSUME NEW op \in EndOps
      PROVE  /\ op \notin PushOps \cup DupOps \cup SwapOps \cup EnvOps \cup LoadOps
             /\ op \notin UnaryOps \cup BinaryOps \cup TernaryOps \cup LogOps
             /\ op \notin CreateOps \cup CallOps
             /\ op \notin {MSIZE, MLOAD, MSTORE, MSTORE8, MCOPY, SSTORE, TSTORE, KECCAK256,
                           CALLDATACOPY, CODECOPY, EXTCODECOPY, RETURNDATACOPY}
  <2>. USE <1>EndOpsApart
  <2>1. op = 0 \/ op = 243 \/ op = 253 \/ op = 254 \/ op = 255
    BY DEF EndOps, INVALID, STOP, RETURN, REVERT, SELFDESTRUCT
  <2>2. op \notin PushOps \cup DupOps \cup SwapOps
    <3>1. op \notin PushOps
      BY <2>1 DEF PushOps, PUSH0, PUSH32
    <3>2. op \notin DupOps
      BY <2>1 DEF DupOps, DUP1, DUP16
    <3>3. op \notin SwapOps
      BY <2>1 DEF SwapOps, SWAP1, SWAP16
    <3>. QED BY <3>1, <3>2, <3>3, Zenon
  <2>3. op \notin EnvOps \cup LoadOps
    <3>1. op \notin LoadOps
      BY <2>1 DEF LoadOps, BALANCE, CALLDATALOAD, EXTCODESIZE, EXTCODEHASH, BLOCKHASH, BLOBHASH,
        MLOAD, SLOAD, TLOAD
    <3>2. op \notin EnvOps
      <4>1. op \notin {48, 50, CALLER, 52, CALLDATASIZE, 56, 58, RETURNDATASIZE}
        BY <2>1 DEF CALLER, CALLDATASIZE, RETURNDATASIZE
      <4>2. op \notin {BLOBBASEFEE, PC, MSIZE, GAS} /\ op \notin 65..72
        BY <2>1 DEF BLOBBASEFEE, PC, MSIZE, GAS
      <4>. QED BY <4>1, <4>2, Zenon DEF EnvOps
    <3>. QED BY <3>1, <3>2, Zenon
  <2>4. op \notin UnaryOps \cup BinaryOps \cup TernaryOps
    <3>1. op \notin UnaryOps \cup TernaryOps
      BY <2>1 DEF UnaryOps, TernaryOps, ISZERO, CLZ
    <3>2. op \notin BinaryOps
      <4>1. op \notin 1..7 /\ op \notin {10, 11}
        BY <2>1
      <4>2. op \notin 16..20 /\ op \notin 22..24 /\ op \notin 26..29
        BY <2>1
      <4>. QED BY <4>1, <4>2, Zenon DEF BinaryOps, ADD, EXP
    <3>. QED BY <3>1, <3>2, Zenon
  <2>5. op \notin LogOps \cup CreateOps \cup CallOps
    BY <2>1 DEF LogOps, CreateOps, CallOps, LOG0, LOG4, CALL, CALLCODE, DELEGATECALL, STATICCALL,
      CREATE, CREATE2
  <2>6. op \notin {MSIZE, MLOAD, MSTORE, MSTORE8, MCOPY, SSTORE, TSTORE, KECCAK256,
                   CALLDATACOPY, CODECOPY, EXTCODECOPY, RETURNDATACOPY}
    BY <2>1 DEF MSIZE, MLOAD, MSTORE, MSTORE8, MCOPY, SSTORE, TSTORE, KECCAK256,
      CALLDATACOPY, CODECOPY, EXTCODECOPY, RETURNDATACOPY
  <2>. QED BY <2>2, <2>3, <2>4, <2>5, <2>6, Zenon
<1>Handler.
      ASSUME NEW f, Sound(f), Running(f), NEW op \in Bytes, NEW a \in Seq(Nat),
             Len(a) = Required(op), Len(a) + Len(f.stack) <= MaxStack, NEW value \in Nat,
             NEW in, Answer(in)
      PROVE  /\ Tracks(f, handleOpcode(f, op, a, value, in))
             /\ op \in EndOps => ~Running(handleOpcode(f, op, a, value, in))
  <2>. USE <1>Handler
  <2>. DEFINE Ok(g) == Tracks(f, g) /\ (op \in EndOps => ~Running(g))
  <2>1. op \in Nat /\ in.word \in Nat
    BY DEF Bytes, Answer
  <2>2. Ok(Fail(f, "INVALID_INSTRUCTION")) /\ Ok(Stop(f))
    <3>1. ~Running(Fail(f, "INVALID_INSTRUCTION")) /\ ~Running(Stop(f))
      BY DEF Fail, Stop, Running, Sound, Frames
    <3>. QED BY <3>1, FailCalm, StopCalm, TracksFacts, Zenon DEF Statuses
  <2>3. op \in {RETURN, REVERT} => Ok(evmSetReturn(f, a)) /\ Ok(evmSetRevert(f, a))
    BY OperandTypes, <1>SetReturnTracks, Zenon
  <2>4. Ok(evmHandleSelfDestruct(f, in))
    BY <1>DestructTracks, Zenon
  <2>5. op \notin EndOps => Ok(StackPush(f, value)) /\ Ok(f) /\ Ok(QueryHelper(f, op, in))
                             /\ Ok(evmSetSStore(f, in)) /\ Ok(evmSetTStore(f))
    BY <2>1, <1>StackPushCalm, CalmReflexive, <1>QueryHelperCalm, <1>SetSStoreCalm, TracksFacts, Zenon
  <2>6. op \notin EndOps /\ op \in DupOps =>
          Ok(StackPush([f EXCEPT !.stack = a \o @], a[op - DUP1 + 1]))
    BY OperandTypes, <1>EmittedDupCalm, TracksFacts, Zenon
  <2>7. op \notin EndOps /\ op \in SwapOps => Ok(SwapWords(f, a, op - SWAP1 + 2))
    BY OperandTypes, SwapCalm, TracksFacts, Zenon
  <2>8. op \notin EndOps => Ok(handleMSize(f)) /\ Ok(StackPush(f, EnvValue(f, op, in)))
    BY <2>1, FrameFields, EnvValueType, <1>StackPushCalm, TracksFacts, Zenon DEF handleMSize
  <2>9. op \notin EndOps /\ op \in LoadOps => Ok(StackPush(DirectAccess(f, op, a[1]), in.word))
    <3>. SUFFICES ASSUME op \notin EndOps, op \in LoadOps
                  PROVE  Tracks(f, StackPush(DirectAccess(f, op, a[1]), in.word))
      BY Zenon
    <3>. DEFINE g == DirectAccess(f, op, a[1])
    <3>1. Tracks(f, g) /\ Sound(g)
      BY OperandTypes, <1>DirectAccessTracks, TracksFacts, Zenon
    <3>. HIDE DEF g
    <3>2. Tracks(g, StackPush(g, in.word))
      BY <2>1, <3>1, <1>StackPushCalm, TracksFacts, Zenon
    <3>3. Tracks(f, StackPush(g, in.word))
      BY <3>1, <3>2, <1>TracksTransitive, Zenon
    <3>. QED BY <3>3 DEF g
  <2>10. op \notin EndOps =>
           Ok(StackPush(IF op = EXP THEN chargeGas(f, 50 * ByteLength(a[2])) ELSE f,
                        ResultOf(op, a, in)))
    BY <2>1, OperandTypes, <1>EmittedArithmeticCalm, TracksFacts, Zenon
  <2>11. op \notin EndOps /\ op \in {MSTORE, MSTORE8} => Ok(DirectAccess(f, op, a[1]))
    BY OperandTypes, <1>DirectAccessTracks, Zenon
  <2>12. op \notin EndOps /\ op \in CopyOps =>
           /\ Ok(handleMCopy(f, a))
           /\ Ok(reloadMemorySizeFromInstance(evmSetCallDataCopy(f, a)))
           /\ Ok(reloadMemorySizeFromInstance(evmSetCodeCopy(f, a)))
           /\ Ok(reloadMemorySizeFromInstance(evmSetReturnDataCopy(f, a)))
    <3>. SUFFICES ASSUME op \notin EndOps, op \in CopyOps
                  PROVE  /\ Tracks(f, handleMCopy(f, a))
                         /\ Tracks(f, reloadMemorySizeFromInstance(evmSetCallDataCopy(f, a)))
                         /\ Tracks(f, reloadMemorySizeFromInstance(evmSetCodeCopy(f, a)))
                         /\ Tracks(f, reloadMemorySizeFromInstance(evmSetReturnDataCopy(f, a)))
      BY Zenon
    <3>1. a[1] \in Nat /\ a[2] \in Nat /\ a[3] \in Nat
      BY OperandTypes, Zenon
    <3>2. Tracks(f, handleMCopy(f, a))
      BY <3>1, <1>MCopyTracks, Zenon
    <3>3. /\ Grows(f, evmSetCallDataCopy(f, a)) /\ Grows(f, evmSetCodeCopy(f, a))
          /\ Grows(f, evmSetReturnDataCopy(f, a))
      BY <3>1, <1>CallDataCopyGrows, <1>CodeCopyGrows, <1>ReturnDataCopyGrows, Zenon
    <3>. QED BY <3>2, <3>3, <1>ReloadTracks, Zenon
  <2>13. op \notin EndOps /\ op = KECCAK256 =>
           Ok(reloadMemorySizeFromInstance(evmGetKeccak256(f, a, in)))
    BY <2>1, OperandTypes, <1>Keccak256Grows, <1>ReloadTracks, Zenon
  <2>14. op \notin EndOps /\ op = EXTCODECOPY =>
           Ok(reloadMemorySizeFromInstance(evmSetExtCodeCopy(f, a, in)))
    <3>. SUFFICES ASSUME op \notin EndOps, op = EXTCODECOPY
                  PROVE  Tracks(f, reloadMemorySizeFromInstance(evmSetExtCodeCopy(f, a, in)))
      BY Zenon
    <3>1. Len(a) = 4
      BY OperandTypes, Zenon
    <3>0. 2 \in 1..4 /\ 4 \in 1..4
      OBVIOUS
    <3>2. 2 \in 1..Len(a) /\ 4 \in 1..Len(a)
      BY <3>0, <3>1, Zenon
    <3>3. a[2] \in Nat /\ a[4] \in Nat
      BY <3>2, ElementOfSeq, Zenon
    <3>. QED BY <3>3, <1>ExtCodeCopyGrows, <1>ReloadTracks, Zenon
  <2>15. op \notin EndOps /\ op \in LogOps =>
           Ok(reloadMemorySizeFromInstance(evmEmitLogGeneric(f, op, a)))
    BY <2>1, OperandTypes, <1>LogGrows, <1>ReloadTracks, Zenon
  <2>16. op \notin EndOps /\ op \in CreateOps =>
           Ok(reloadMemorySizeFromInstance(evmHandleCreateInternal(f, op, a, in)))
    BY <2>1, OperandTypes, <1>CreateGrows, <1>ReloadTracks, Zenon
  <2>17. op \notin EndOps /\ op \in CallOps =>
           Ok(reloadMemorySizeFromInstance(evmHandleCallInternal(f, op, a, in)))
    BY <1>CallGrows, <1>ReloadTracks, Zenon
  <2>18. /\ op \in {CALLDATACOPY, CODECOPY, RETURNDATACOPY, MCOPY} => op \in CopyOps
         /\ op = MLOAD => op \in LoadOps
    BY DEF CopyOps, LoadOps
  <2>19. op \in EndOps =>
           /\ op \notin PushOps \cup DupOps \cup SwapOps \cup EnvOps \cup LoadOps
           /\ op \notin UnaryOps \cup BinaryOps \cup TernaryOps \cup LogOps
           /\ op \notin CreateOps \cup CallOps
           /\ op \notin {MSIZE, MLOAD, MSTORE, MSTORE8, MCOPY, SSTORE, TSTORE, KECCAK256,
                         CALLDATACOPY, CODECOPY, EXTCODECOPY, RETURNDATACOPY}
    BY <1>EndOpsApart, Zenon
  <2>20. op \in EndOps <=> op \in {INVALID, STOP, RETURN, REVERT, SELFDESTRUCT}
    BY DEF EndOps
  <2>. HIDE DEF Ok
  <2>21. Ok(handleOpcode(f, op, a, value, in))
    BY <2>2, <2>3, <2>4, <2>5, <2>6, <2>7, <2>8, <2>9, <2>10, <2>11, <2>12, <2>13, <2>14, <2>15,
       <2>16, <2>17, <2>18, <2>19, <2>20, SMTT(60) DEF handleOpcode
  <2>. QED BY <2>21 DEF Ok
<1>. TAKE f, op, a, value, in
<1>. HAVE /\ Sound(f) /\ Running(f) /\ op \in Bytes /\ a \in Seq(Nat)
          /\ Len(a) = Required(op) /\ Len(a) + Len(f.stack) <= MaxStack /\ value \in Nat /\ Answer(in)
<1>. QED BY <1>Handler, Zenon

(* Popping the operands: what is there is taken, what is not is an error. *)
LEMMA StackPopCalm ==
  ASSUME NEW f, Sound(f), Running(f), NEW n \in Nat
  PROVE  LET p == StackPop(f, n)
             a == SubSeq(f.stack, 1, n)
         IN  /\ Calm(f, p)
             /\ Running(p) => /\ a \in Seq(Nat) /\ Len(a) = n
                              /\ Len(a) + Len(p.stack) <= MaxStack
<1>. DEFINE p == StackPop(f, n)
            a == SubSeq(f.stack, 1, n)
<1>0. f.stack \in Seq(Nat) /\ Len(f.stack) \in Nat /\ Len(f.stack) <= MaxStack
  BY FrameFields DEF Sound
<1>1. CASE Len(f.stack) < n
  <2>1. p = Corrupt(f)
    BY <1>1 DEF StackPop
  <2>. HIDE DEF p
  <2>2. Calm(f, p) /\ ~Running(p)
    BY <2>1, CorruptCalm, Zenon
  <2>. QED BY <2>2, Zenon DEF p
<1>2. CASE ~(Len(f.stack) < n)
  <2>1. p = Drop(f, n)
    BY <1>2 DEF StackPop
  <2>2. n <= Len(f.stack)
    BY <1>0, <1>2
  <2>3. Calm(f, p) /\ Len(p.stack) = Len(f.stack) - n
    BY <2>1, <2>2, DropCalm, Zenon
  <2>. HIDE DEF p
  <2>4. 1 \in Nat \ {0} /\ 1 <= n + 1
    OBVIOUS
  <2>5. a \in Seq(Nat) /\ Len(a) = n - 1 + 1
    BY <1>0, <2>2, <2>4, SubSeqOfWords, Zenon
  <2>. HIDE DEF a
  <2>6. Len(a) = n
    BY <2>5
  <2>7. Len(a) + Len(p.stack) <= MaxStack
    BY <1>0, <2>2, <2>3, <2>6
  <2>8. Calm(f, p) /\ (Running(p) => /\ a \in Seq(Nat) /\ Len(a) = n
                                      /\ Len(a) + Len(p.stack) <= MaxStack)
    BY <2>3, <2>5, <2>6, <2>7, Zenon
  <2>. QED BY <2>8, Zenon DEF p, a
<1>. QED BY <1>1, <1>2, Zenon

=============================================================================

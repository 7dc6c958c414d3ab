------------------------------ MODULE EvmCode ------------------------------
(***************************************************************************)
(* EVM bytecode as DTVM reads it: the opcode numbers, the instruction      *)
(* metrics of the evmc library, and the decoding that the interpreter's    *)
(* bytecode cache (evm_cache.cpp) and the JIT front end share.             *)
(*                                                                         *)
(* A program is a sequence of bytes; program counters are zero based, as   *)
(* in the source, so the byte at counter p is code[p + 1].                 *)
(***************************************************************************)
EXTENDS Integers, Sequences, FiniteSets

CONSTANTS
  U64Bytes,      \* bytes of a machine integer (8 in the source)
  WordBytes,     \* bytes of an EVM word (32 in the source)
  MaxStack,      \* EVM_MAX_STACK_SIZE (1024 in the source)
  MaxMemory      \* MAX_REQUIRED_MEMORY_SIZE (16 MB in the source)

U64Max == 256^U64Bytes - 1
WordMod == 256^WordBytes

(* The last line is arithmetic, stated because the provers know nothing of
   exponentiation. *)
ASSUME CodeAssumption ==
  /\ U64Bytes \in Nat \ {0} /\ WordBytes \in Nat /\ WordBytes > U64Bytes
  /\ MaxStack \in Nat \ {0} /\ MaxMemory \in Nat
  /\ U64Max \in Nat /\ WordMod \in Nat /\ U64Max < WordMod

(* Opcodes named in the source. *)
STOP == 0
ADD == 1
MUL == 2
SUB == 3
DIV == 4
EXP == 10
LT == 16
ISZERO == 21
CLZ == 30
KECCAK256 == 32
BALANCE == 49
CALLER == 51
CALLDATALOAD == 53
CALLDATASIZE == 54
CALLDATACOPY == 55
CODECOPY == 57
EXTCODESIZE == 59
EXTCODECOPY == 60
RETURNDATASIZE == 61
RETURNDATACOPY == 62
EXTCODEHASH == 63
BLOCKHASH == 64
SELFBALANCE == 71
BASEFEE == 72
BLOBHASH == 73
BLOBBASEFEE == 74
POP == 80
MLOAD == 81
MSTORE == 82
MSTORE8 == 83
SLOAD == 84
SSTORE == 85
JUMP == 86
JUMPI == 87
PC == 88
MSIZE == 89
GAS == 90
JUMPDEST == 91
TLOAD == 92
TSTORE == 93
MCOPY == 94
PUSH0 == 95
PUSH1 == 96
PUSH32 == 127
DUP1 == 128
DUP2 == 129
DUP16 == 143
SWAP1 == 144
SWAP16 == 159
LOG0 == 160
LOG1 == 161
LOG4 == 164
CREATE == 240
CALL == 241
CALLCODE == 242
RETURN == 243
DELEGATECALL == 244
CREATE2 == 245
STATICCALL == 250
REVERT == 253
INVALID == 254
SELFDESTRUCT == 255

(* Revisions, numbered as in evmc_revision. *)
ISTANBUL == 7
BERLIN == 8
LONDON == 9
SHANGHAI == 11
CANCUN == 12
PRAGUE == 13
OSAKA == 14

(* Families of opcodes by the shape of their stack effect. *)
PushOps == PUSH0..PUSH32
DupOps == DUP1..DUP16
SwapOps == SWAP1..SWAP16
LogOps == LOG0..LOG4
CallOps == {CALL, CALLCODE, DELEGATECALL, STATICCALL}
CreateOps == {CREATE, CREATE2}
EnvOps == {48, 50, CALLER, 52, CALLDATASIZE, 56, 58, RETURNDATASIZE} \cup 65..72
            \cup {BLOBBASEFEE, PC, MSIZE, GAS}
UnaryOps == {ISZERO, 25, CLZ}
BinaryOps == (ADD..7 \cup {EXP, 11} \cup 16..20 \cup 22..24 \cup 26..29)
TernaryOps == {8, 9}
CopyOps == {CALLDATACOPY, CODECOPY, RETURNDATACOPY, MCOPY}
LoadOps == {BALANCE, CALLDATALOAD, EXTCODESIZE, EXTCODEHASH, BLOCKHASH,
            BLOBHASH, MLOAD, SLOAD, TLOAD}

(* evmc_get_instruction_names_table: the opcodes a revision defines. *)
Defined(op, rev) ==
  /\ \/ op \in {STOP, KECCAK256, POP, JUMP, JUMPI, JUMPDEST, MSTORE, MSTORE8,
                SSTORE, TSTORE, EXTCODECOPY, RETURN, REVERT, INVALID, SELFDESTRUCT}
     \/ op \in UnaryOps \cup BinaryOps \cup TernaryOps \cup EnvOps \cup CopyOps
                 \cup LoadOps \cup PushOps \cup DupOps \cup SwapOps \cup LogOps
                 \cup CallOps \cup CreateOps
  /\ op = BASEFEE => rev >= LONDON
  /\ op = PUSH0 => rev >= SHANGHAI
  /\ op \in {TLOAD, TSTORE, MCOPY, BLOBHASH, BLOBBASEFEE} => rev >= CANCUN
  /\ op = CLZ => rev >= OSAKA

(* The jumps, and the same with a table that lost them. *)
JumpCostFree(op) == 0

JumpCost(op) ==
  CASE op = JUMPDEST -> 1
    [] op = JUMP -> 8
    [] OTHER -> 10

(* evmc_instruction_metrics: base gas.  An undefined opcode has all-zero
   metrics, which is what isOpcodeDefined of the JIT relies on. *)
GasCostOf(op, rev) ==
  CASE ~Defined(op, rev) -> 0
    [] op \in {STOP, RETURN, REVERT, INVALID, SSTORE} -> 0
    [] op \in {JUMPDEST, JUMP, JUMPI} -> JumpCost(op)
    [] op \in (EnvOps \ {SELFBALANCE}) \cup {POP, PUSH0} -> 2
    [] op \in {MUL, DIV, 5, 6, 7, 11, SELFBALANCE, CLZ} -> 5
    [] op \in TernaryOps -> 8
    [] op = EXP -> 10
    [] op = BLOCKHASH -> 20
    [] op = KECCAK256 -> 30
    [] op \in {BALANCE, EXTCODESIZE, EXTCODECOPY, EXTCODEHASH} \cup CallOps ->
         IF rev >= BERLIN THEN 100 ELSE 700
    [] op = SLOAD -> IF rev >= BERLIN THEN 100 ELSE 800
    [] op \in {TLOAD, TSTORE} -> 100
    [] op \in LogOps -> 375 * (op - LOG0 + 1)
    [] op \in CreateOps -> 32000
    [] op = SELFDESTRUCT -> 5000
    [] OTHER -> 3

(* evmc_instruction_metrics: stack_height_required. *)
Required(op) ==
  CASE op \in UnaryOps \cup LoadOps \cup {POP, JUMP, SELFDESTRUCT} -> 1
    [] op \in BinaryOps \cup {KECCAK256, MSTORE, MSTORE8, SSTORE, TSTORE, JUMPI,
                              RETURN, REVERT} -> 2
    [] op \in TernaryOps \cup CopyOps \cup {CREATE} -> 3
    [] op \in {EXTCODECOPY, CREATE2} -> 4
    [] op \in DupOps -> op - DUP1 + 1
    [] op \in SwapOps -> op - SWAP1 + 2
    [] op \in LogOps -> op - LOG0 + 2
    [] op \in {CALL, CALLCODE} -> 7
    [] op \in {DELEGATECALL, STATICCALL} -> 6
    [] OTHER -> 0

(* evmc_instruction_metrics: required + stack_height_change. *)
Pushed(op) ==
  CASE op \in DupOps -> Required(op) + 1
    [] op \in SwapOps -> Required(op)
    [] op \in UnaryOps \cup LoadOps \cup BinaryOps \cup TernaryOps \cup EnvOps
              \cup PushOps \cup CallOps \cup CreateOps \cup {KECCAK256} -> 1
    [] OTHER -> 0

Bytes == 0..255
Byte(code, pc) == code[pc + 1]
PCs(code) == 0..(Len(code) - 1)

ImmediateSize(op) == IF op \in PUSH1..PUSH32 THEN op - PUSH0 ELSE 0
opcodeLen(op) == 1 + ImmediateSize(op)

(* The starts of instructions: the counters a left-to-right scan visits. *)
InstrStarts(code) ==
  LET scan[n \in 0..Len(code)] ==
        IF n = 0 THEN [next |-> 0, starts |-> {}]
        ELSE LET w == scan[n - 1]
             IN  IF w.next # n - 1 THEN w
                 ELSE [next |-> n - 1 + opcodeLen(Byte(code, n - 1)),
                       starts |-> w.starts \cup {n - 1}]
  IN  scan[Len(code)].starts

isControlFlowTerminator(op) ==
  op \in {STOP, RETURN, REVERT, SELFDESTRUCT, INVALID, JUMP}

isGasSensitiveTerminator(op) == op \in {GAS} \cup CreateOps \cup CallOps

isGasChunkTerminator(op) ==
  \/ isControlFlowTerminator(op)
  \/ isGasSensitiveTerminator(op)
  \/ op \in {JUMPI, SSTORE}

(* The base gas of the instructions from pc up to end. *)
BaseCost(code, rev, pc, end) ==
  LET Next(q) == q + opcodeLen(Byte(code, q))
      rest[q \in 0..end] ==
        IF q = end \/ q >= Len(code) THEN 0
        ELSE GasCostOf(Byte(code, q), rev) + rest[IF Next(q) < end THEN Next(q) ELSE end]
  IN  IF pc < end THEN rest[pc] ELSE 0

(* loadPushValue: big-endian immediate, zero padded past the end of code. *)
loadPushValue(code, pc) ==
  LET n == ImmediateSize(Byte(code, pc))
      At(i) == IF pc + i < Len(code) THEN Byte(code, pc + i) ELSE 0
      value[i \in 0..n] == IF i = 0 THEN 0
                           ELSE (value[i - 1] * 256 + At(i)) % WordMod
  IN  value[n]

(* JumpDestMap: the JUMPDEST bytes that are instructions, not push data. *)
JumpDests(code) == {pc \in InstrStarts(code) : Byte(code, pc) = JUMPDEST}

isBlockTerminator(op) == op \in {JUMP, STOP, RETURN, INVALID, REVERT, SELFDESTRUCT}

(* An opcode after which the compiler skips dead code up to a JUMPDEST. *)
EndsInDeadCode(op, rev) == isBlockTerminator(op) \/ ~Defined(op, rev)

(* Counters the block walk visits, dead code left out; the end of the code
   is one when the walk falls off it. *)
LiveStarts(code, rev) ==
  LET dests == JumpDests(code)
      End(q) == q + opcodeLen(Byte(code, q))
      walk[n \in 0..Len(code)] ==
        LET before == IF n = 0 THEN {} ELSE walk[n - 1]
        IN  IF \/ n = 0
               \/ n \in dests
               \/ \E q \in before : End(q) = n /\ ~EndsInDeadCode(Byte(code, q), rev)
            THEN before \cup {n} ELSE before
  IN  walk[Len(code)]

(* The memory prechecks a block may start with, and that of one without. *)
Plans == [kind : {"none", "const", "linear"}, size : Nat, ops : Nat, paid : BOOLEAN]
NoPlan == [kind |-> "none", size |-> 0, ops |-> 0, paid |-> FALSE]
=============================================================================

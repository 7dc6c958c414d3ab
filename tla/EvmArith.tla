------------------------------ MODULE EvmArith ------------------------------
(***************************************************************************)
(* A chain of arithmetic opcodes on one stack word, compiled and           *)
(* interpreted side by side.                                               *)
(*                                                                         *)
(* acc is the operand the compiler tracks for the word, with the limbs its *)
(* code computes; num is the number the interpreter holds for it.  A step  *)
(* is one opcode with further operands from Inputs(depth).  EXP is the one *)
(* opcode whose code loops: ex holds the loop's variables, one step is one *)
(* iteration of its fast (64-bit exponent) or slow loop.                   *)
(***************************************************************************)
EXTENDS EvmLowering

CONSTANTS Inputs(_),     \* the operands available at a depth
          Moduli,        \* the moduli of ADDMOD and MULMOD
          MaxDepth,      \* the length of the chain
          Subtargets     \* does the CPU have BMI2 and ADX?

(* What the builder may assume of a stack word: a claimed range is true,    *)
(* and no division that faults was executed for it.                         *)
Sound(o) == /\ o \in Operands
            /\ RangeOf(extractU256Operand(o)) <= o.range
            /\ o.trap = FALSE

ASSUME ArithAssumption == /\ MaxDepth \in Nat
                          /\ \A d \in 0 .. MaxDepth : \A o \in Inputs(d) : Sound(o)
                          /\ \A m \in Moduli : Sound(m)

VARIABLES acc, num, depth, ex

vars == <<acc, num, depth, ex>>

Number(o) == Val(extractU256Operand(o))

Idle == [pc |-> "idle", base |-> ZeroWord, exp |-> ZeroWord, result |-> ZeroWord,
         b0 |-> 0, e0 |-> 0, bytes |-> 0, adx |-> FALSE]

Init == /\ acc \in Inputs(0)
        /\ num = Number(acc)
        /\ depth = 0
        /\ ex = Idle

\* A new operand inherits a fault of the code that computed its inputs.
Becomes(o, n) == /\ acc' = [o EXCEPT !.trap = o.trap \/ acc.trap]
                 /\ num' = n
                 /\ depth' = depth + 1

Ready == ex.pc = "idle" /\ depth < MaxDepth

BinaryOpcode ==
    \E o \in Inputs(depth), op \in BinaryOps :
      \E adx \in IF op = "MUL" THEN Subtargets ELSE {FALSE} :
        /\ Ready
        /\ \/ Becomes(Lower(op, adx, acc, o), Interpret(op, num, Number(o)))
           \/ Becomes(Lower(op, adx, o, acc), Interpret(op, Number(o), num))
        /\ UNCHANGED ex

NotOpcode == /\ Ready
             /\ Becomes(handleNot(acc), WordBase - 1 - num)
             /\ UNCHANGED ex

IsZeroOpcode == /\ Ready
                /\ Becomes(handleIsZero(acc), BoolNum(num = 0))
                /\ UNCHANGED ex

ClzOpcode == /\ Ready
             /\ Becomes(handleClz(acc), WordBits - (CHOOSE k \in 0 .. WordBits :
                            num < 2^k /\ (k > 0 => num >= 2^(k - 1))))
             /\ UNCHANGED ex

ModularOpcode ==
    \E o \in Inputs(depth), m \in Moduli :
        /\ Ready
        /\ \/ Becomes(handleAddMod(acc, o, m), evmGetAddMod(num, Number(o), Number(m)))
           \/ Becomes(handleMulMod(acc, o, m), evmGetMulMod(num, Number(o), Number(m)))
        /\ UNCHANGED ex

----------------------------------------------------------------------------
(* EXP: the exponent bytes are charged, then the loop runs.                *)

ExpBegin(b, e, adx) ==
    ex' = [pc |-> IF HasUpper(e) THEN "slow" ELSE "fast", base |-> b, exp |-> e,
           result |-> OneWord, b0 |-> Val(b), e0 |-> Val(e),
           bytes |-> computeExpByteSize(e), adx |-> adx]

ExpOpcode ==
    \E o \in Inputs(depth), adx \in Subtargets :
        /\ Ready
        /\ \/ ExpBegin(extractU256Operand(acc), extractU256Operand(o), adx)
           \/ ExpBegin(extractU256Operand(o), extractU256Operand(acc), adx)
        /\ UNCHANGED <<acc, num, depth>>

MulWords(x, y) == extractU256Operand(handleMul(ex.adx, Inst(x), Inst(y)))

\* The body of both loops: multiply when odd, and square the base only if
\* a shifted exponent remains.
Iteration(shifted) ==
    LET odd    == ex.exp[1] % 2 = 1
        result == IF odd THEN MulWords(ex.result, ex.base) ELSE ex.result
    IN  IF shifted = ZeroWord
        THEN ex' = [ex EXCEPT !.pc = "after", !.result = result]
        ELSE ex' = [ex EXCEPT !.result = result, !.exp = shifted,
                              !.base = MulWords(ex.base, ex.base)]

\* The fast loop holds the exponent's low limb; its other limbs are 0.
ExpFast == /\ ex.pc = "fast"
           /\ IF ex.exp[1] = 0 THEN ex' = [ex EXCEPT !.pc = "after"]
              ELSE Iteration(<<UShr(ex.exp[1], 1), 0, 0, 0>>)
           /\ UNCHANGED <<acc, num, depth>>

ExpSlow == /\ ex.pc = "slow"
           /\ IF ex.exp = ZeroWord THEN ex' = [ex EXCEPT !.pc = "after"]
              ELSE Iteration(extractU256Operand(
                       handleShift("SHR", createU256ConstOperand(1), Inst(ex.exp))))
           /\ UNCHANGED <<acc, num, depth>>

ExpAfter == /\ ex.pc = "after"
            /\ Becomes(Inst(ex.result), IntxExp(ex.b0, ex.e0))
            /\ ex' = Idle

ExpLoop == ExpFast \/ ExpSlow \/ ExpAfter

Next == \/ BinaryOpcode \/ NotOpcode \/ IsZeroOpcode \/ ClzOpcode
        \/ ModularOpcode \/ ExpOpcode \/ ExpLoop

Spec == Init /\ [][Next]_vars

(* The limbs the compiled code computes, on every fast path and whatever    *)
(* form the operands have, are the word the interpreter computes; and the   *)
(* byte length of an exponent it charges gas for is the interpreter's.      *)
LoweringExact ==
    /\ Number(acc) = num
    /\ ex.pc # "idle" => ex.bytes = IntxSignificantBytes(ex.e0)

(* A claimed range is true: later opcodes drop the upper limbs of an operand*)
(* claimed to fit 64 or 128 bits (bothFitU64, the narrow AND).              *)
RangeSound == RangeOf(extractU256Operand(acc)) <= acc.range

(* No opcode executes a hardware division that faults: a zero divisor is    *)
(* replaced before it reaches DIV, and in the 128-by-64 cascade the high    *)
(* half is always below the divisor (handleDivModGeneral).                  *)
DivideNeverTraps == ~acc.trap

=============================================================================

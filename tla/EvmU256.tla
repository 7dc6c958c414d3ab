------------------------------ MODULE EvmU256 ------------------------------
(***************************************************************************)
(* 256-bit arithmetic in the EVM JIT.                                      *)
(*                                                                         *)
(* The MIR builder (compiler/evm_frontend) has no 256-bit type: a stack    *)
(* word is an Operand, four 64-bit limbs that may be compile-time          *)
(* constants, emitted values with a proven range, or a deferred NOT or     *)
(* ISZERO, and every arithmetic opcode is expanded into limb operations,   *)
(* with many fast paths.  The operators below give the limbs each emitted  *)
(* sequence computes.  The limb has LimbBits bits and LimbBase = 2^LimbBits*)
(* values, a byte has ByteBits bits; the code has 64 and 8.  Limb I of the *)
(* code is element I + 1 of the tuple.                                     *)
(***************************************************************************)
EXTENDS Integers, Sequences

CONSTANTS LimbBits, ByteBits, LimbBase

ASSUME LimbAssumption == /\ LimbBits \in Nat
                         /\ ByteBits \in Nat
                         /\ LimbBase \in Nat
                         /\ LimbBase > 1

ASSUME ScaleAssumption == /\ LimbBase = 2^LimbBits
                          /\ LimbBits % ByteBits = 0
                          /\ LimbBase > 4 * LimbBits

Limb == 0 .. (LimbBase - 1)
Word == [1 .. 4 -> Limb]
LimbBytes == LimbBits \div ByteBits
WordBits == 4 * LimbBits
WordBytes == 4 * LimbBytes
WordBase == LimbBase * (LimbBase * (LimbBase * LimbBase))

\* The law of powers of two, up to the width of a word.
ASSUME PowerAssumption == /\ ByteBits > 0
                          /\ \A n \in 0 .. WordBits : 2^(n + 1) = 2 * 2^n

\* The number a word stands for, and the word of a number modulo 2^256.
Val(w) == w[1] + LimbBase * (w[2] + LimbBase * (w[3] + LimbBase * w[4]))
intxToU256Value(n) == << n % LimbBase,
                         (n \div LimbBase) % LimbBase,
                         (n \div (LimbBase * LimbBase)) % LimbBase,
                         (n \div (LimbBase * LimbBase * LimbBase)) % LimbBase >>

ZeroWord == <<0, 0, 0, 0>>
OneWord == <<1, 0, 0, 0>>
AllOnes == LimbBase - 1
Flag(b) == <<IF b THEN 1 ELSE 0, 0, 0, 0>>

----------------------------------------------------------------------------
(* The MIR limb instructions.  Shift counts are masked as the CPU does.    *)

Shl(x, n) == (x * 2^(n % LimbBits)) % LimbBase
UShr(x, n) == x \div 2^(n % LimbBits)
SShr(x, n) == IF x < LimbBase \div 2
              THEN UShr(x, n)
              ELSE LimbBase - 1 - UShr(LimbBase - 1 - x, n)
LimbNot(x) == AllOnes - x

Bit(x, i) == (x \div 2^i) % 2
Bitwise2(table, x, y) ==
    LET sum[n \in 0 .. LimbBits] ==
            IF n = 0 THEN 0
            ELSE sum[n - 1] + 2^(n - 1) * table[1 + 2 * Bit(x, n - 1) + Bit(y, n - 1)]
    IN  sum[LimbBits]
LimbOr(x, y) == Bitwise2(<<0, 1, 1, 1>>, x, y)
Limbwise(table, a, b) == << Bitwise2(table, a[1], b[1]), Bitwise2(table, a[2], b[2]),
                            Bitwise2(table, a[3], b[3]), Bitwise2(table, a[4], b[4]) >>
NotWord(w) == <<LimbNot(w[1]), LimbNot(w[2]), LimbNot(w[3]), LimbNot(w[4])>>
HasUpper(w) == w[2] # 0 \/ w[3] # 0 \/ w[4] # 0

\* ADD then ADC, SUB then SBB: the carry flag runs from limb to limb.
AddChain(a, b) ==
    LET s1 == a[1] + b[1]
        s2 == a[2] + b[2] + s1 \div LimbBase
        s3 == a[3] + b[3] + s2 \div LimbBase
        s4 == a[4] + b[4] + s3 \div LimbBase
    IN  <<s1 % LimbBase, s2 % LimbBase, s3 % LimbBase, s4 % LimbBase>>
Borrow(x, y) == IF x < y THEN 1 ELSE 0
SubChain(a, b) ==
    LET c1 == Borrow(a[1], b[1])
        c2 == Borrow(a[2], b[2] + c1)
        c3 == Borrow(a[3], b[3] + c2)
        c4 == Borrow(a[4], b[4] + c3)
    IN  << a[1] - b[1] + c1 * LimbBase, a[2] - b[2] - c1 + c2 * LimbBase,
           a[3] - b[3] - c2 + c3 * LimbBase, a[4] - b[4] - c3 + c4 * LimbBase >>

\* Comparison from the high limb down while the limbs above are equal.
UnsignedLT(a, b) ==
    IF a[4] # b[4] THEN a[4] < b[4]
    ELSE IF a[3] # b[3] THEN a[3] < b[3]
    ELSE IF a[2] # b[2] THEN a[2] < b[2]
    ELSE a[1] < b[1]
Signed(x) == IF x < LimbBase \div 2 THEN x ELSE x - LimbBase
SignedLT(a, b) == IF a[4] # b[4] THEN Signed(a[4]) < Signed(b[4])
                  ELSE UnsignedLT(a, b)

----------------------------------------------------------------------------
(* intx::uint256, the library the interpreter, the constant folder and the *)
(* runtime helpers compute with: arithmetic on numbers modulo 2^256.       *)

IntxMul(a, b) ==
    LET w == intxToU256Value(b)
        acc[i \in 0 .. 4] == IF i = 0 THEN 0
                             ELSE (acc[i - 1] * LimbBase + a * w[5 - i]) % WordBase
    IN  acc[4]
IntxMulMod(a, b, m) ==
    LET w == intxToU256Value(b)
        acc[i \in 0 .. 4] == IF i = 0 THEN 0
                             ELSE (acc[i - 1] * LimbBase + (a % m) * w[5 - i]) % m
    IN  acc[4]
IntxExp(b, e) ==
    LET pow[n \in 0 .. e] ==
            IF n = 0 THEN 1
            ELSE LET h == pow[n \div 2]
                 IN  IF h = 0 THEN 0
                     ELSE IntxMul(IntxMul(h, h), IF n % 2 = 1 THEN b ELSE 1)
    IN  pow[e]
IntxSigned(n) == IF n < WordBase \div 2 THEN n ELSE n - WordBase
IntxNeg(n) == (WordBase - n) % WordBase
IntxAbs(n) == IF n < WordBase \div 2 THEN n ELSE WordBase - n
IntxSDivRem(a, b) ==
    LET q == IntxAbs(a) \div IntxAbs(b)
        r == IntxAbs(a) % IntxAbs(b)
    IN  [quot |-> IF (IntxSigned(a) < 0) # (IntxSigned(b) < 0) THEN IntxNeg(q) ELSE q,
         rem  |-> IF IntxSigned(a) < 0 THEN IntxNeg(r) ELSE r]
IntxBitwise(table, a, b) ==
    Val(Limbwise(table, intxToU256Value(a), intxToU256Value(b)))
IntxSignificantBytes(n) ==
    CHOOSE k \in 0 .. WordBytes : /\ n < 2^(k * ByteBits)
                                  /\ k > 0 => n >= 2^((k - 1) * ByteBits)
=============================================================================

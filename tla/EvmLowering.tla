---------------------------- MODULE EvmLowering ----------------------------
(***************************************************************************)
(* What the code the MIR builder emits for each arithmetic opcode computes *)
(* (compiler/evm_frontend/evm_mir_compiler.{h,cpp}, and the x86 expansion  *)
(* of the 256-bit product), and what the interpreter's handler computes    *)
(* for the same opcode (evm/opcode_handlers.{h,cpp}).                      *)
(*                                                                         *)
(* An operand has its kind: "const" (known to the compiler), "lit"         *)
(* (emitted limbs that are literals), "inst" (emitted limbs), "not",       *)
(* "zeq" and "zne" (a deferred NOT, ISZERO or its negation over the base   *)
(* limbs); the range the compiler claims; and whether computing it         *)
(* executed a hardware division that faults.                               *)
(***************************************************************************)
EXTENDS EvmU256

U64 == 1
U128 == 2
U256 == 3

Deferred == {"not", "zeq", "zne"}
Operands == [kind : {"const", "lit", "inst"} \cup Deferred, range : {U64, U128, U256},
             limbs : Word, trap : BOOLEAN]

RangeOf(w) == IF ~HasUpper(w) THEN U64
              ELSE IF w[3] = 0 /\ w[4] = 0 THEN U128 ELSE U256
Const(w) == [kind |-> "const", range |-> RangeOf(w), limbs |-> w, trap |-> FALSE]
InstIn(w, range) == [kind |-> "inst", range |-> range, limbs |-> w, trap |-> FALSE]
Inst(w) == InstIn(w, U256)
createU256ConstOperand(n) == [Inst(intxToU256Value(n)) EXCEPT !.kind = "lit"]
createDeferred(kind, w) == [Inst(w) EXCEPT !.kind = kind]
Fold(n) == Const(intxToU256Value(n))

isConstant(o) == o.kind = "const"
isConstWord(o, w) == isConstant(o) /\ o.limbs = w
isConstU64(o) == isConstant(o) /\ ~HasUpper(o.limbs)
bothFitU64(a, b) == a.range = U64 /\ b.range = U64 /\ ~isConstant(a) /\ ~isConstant(b)
BothConst(a, b) == isConstant(a) /\ isConstant(b)

handleCompareEQZ(w, negated) == Flag((w = ZeroWord) # negated)

extractU256Operand(o) ==
    CASE o.kind = "not" -> NotWord(o.limbs)
      [] o.kind = "zeq" -> handleCompareEQZ(o.limbs, FALSE)
      [] o.kind = "zne" -> handleCompareEQZ(o.limbs, TRUE)
      [] OTHER          -> o.limbs

----------------------------------------------------------------------------
(* ADD and SUB.                                                            *)

handleAddU64Const(full, u64) == Inst(AddChain(extractU256Operand(full), u64.limbs))

\* The borrow is computed by comparisons, without SBB.
handleSubU64Const(l, u64) ==
    LET a  == extractU256Operand(l)
        c1 == Borrow(a[1], u64.limbs[1])
        c2 == Borrow(a[2], c1)
        c3 == Borrow(a[3], c2)
    IN  Inst(<< (a[1] - u64.limbs[1]) % LimbBase, (a[2] - c1) % LimbBase,
                (a[3] - c2) % LimbBase, (a[4] - c3) % LimbBase >>)

\* Mutation: the carry limb is forgotten in the claimed range.
AddFitsU64Narrow(l, r) ==
    LET a == extractU256Operand(l)
        b == extractU256Operand(r)
        s == (a[1] + b[1]) % LimbBase
    IN  InstIn(<<s, IF s < a[1] THEN 1 ELSE 0, 0, 0>>, U64)

AddFitsU64(l, r) ==
    LET a == extractU256Operand(l)
        b == extractU256Operand(r)
        s == (a[1] + b[1]) % LimbBase
    IN  InstIn(<<s, IF s < a[1] THEN 1 ELSE 0, 0, 0>>, U128)


handleAdd(l, r) ==
    IF BothConst(l, r) THEN Fold(Val(l.limbs) + Val(r.limbs))
    ELSE IF isConstWord(l, ZeroWord) THEN r
    ELSE IF isConstWord(r, ZeroWord) THEN l
    ELSE IF bothFitU64(l, r) THEN AddFitsU64(l, r)
    ELSE IF isConstU64(l) THEN handleAddU64Const(r, l)
    ELSE IF isConstU64(r) THEN handleAddU64Const(l, r)
    ELSE Inst(AddChain(extractU256Operand(l), extractU256Operand(r)))

handleSub(l, r) ==
    IF BothConst(l, r) THEN Fold((Val(l.limbs) - Val(r.limbs)) % WordBase)
    ELSE IF isConstWord(r, ZeroWord) THEN l
    ELSE IF isConstU64(r) THEN handleSubU64Const(l, r)
    ELSE Inst(SubChain(extractU256Operand(l), extractU256Operand(r)))

----------------------------------------------------------------------------
(* MUL.                                                                    *)

Lo(x, y) == (x * y) % LimbBase
Hi(x, y) == (x * y) \div LimbBase
\* A column of a product: its terms are added one by one, the carries of
\* the additions counted beside the sum.
Column(terms) ==
    LET acc[i \in 0 .. Len(terms)] ==
            IF i = 0 THEN <<0, 0>>
            ELSE LET p == acc[i - 1]
                 IN  <<(p[1] + terms[i]) % LimbBase,
                       p[2] + (p[1] + terms[i]) \div LimbBase>>
    IN  acc[Len(terms)]

MulU64Const(a, b) ==
    LET r2 == Column(<<Hi(a[1], b), Lo(a[2], b)>>)
        r3 == Column(<<Hi(a[2], b), Lo(a[3], b), r2[2]>>)
        r4 == Column(<<Hi(a[3], b), Lo(a[4], b), r3[2]>>)
    IN  <<Lo(a[1], b), r2[1], r3[1], r4[1]>>

lowerEvmU256MulExprLegacy(a, b) ==
    LET r2 == Column(<<Hi(a[1], b[1]), Lo(a[1], b[2]), Lo(a[2], b[1])>>)
        r3 == Column(<<Hi(a[1], b[2]), Hi(a[2], b[1]), Lo(a[1], b[3]),
                       Lo(a[2], b[2]), Lo(a[3], b[1]), r2[2]>>)
        r4 == Column(<<Hi(a[1], b[3]), Hi(a[2], b[2]), Hi(a[3], b[1]),
                       Lo(a[1], b[4]), Lo(a[2], b[3]), Lo(a[3], b[2]),
                       Lo(a[4], b[1]), r3[2]>>)
    IN  <<Lo(a[1], b[1]), r2[1], r3[1], r4[1]>>

\* One ADCX/ADOX row: lo and hi of A[I] * B[J] into columns I + J and
\* I + J + 1, each flag its own carry chain, both cleared before the row.
AdxRow(acc, ai, b, i, first) ==
    LET step[j \in (first - 1) .. (5 - i)] ==
            IF j = first - 1 THEN [acc |-> acc, cf |-> 0, of |-> 0]
            ELSE LET p  == step[j - 1]
                     c  == i + j - 1
                     lo == p.acc[c] + Lo(ai, b[j]) + p.cf
                     hi == p.acc[c + 1] + Hi(ai, b[j]) + p.of
                 IN  IF c < 4
                     THEN [acc |-> [p.acc EXCEPT ![c] = lo % LimbBase,
                                                 ![c + 1] = hi % LimbBase],
                           cf |-> lo \div LimbBase, of |-> hi \div LimbBase]
                     ELSE [acc |-> [p.acc EXCEPT ![c] = lo % LimbBase],
                           cf |-> lo \div LimbBase, of |-> p.of]
    IN  step[5 - i].acc

lowerEvmU256MulExprAdx(a, b) ==
    LET row1 == AdxRow(<<Lo(a[1], b[1]), Hi(a[1], b[1]), 0, 0>>, a[1], b, 1, 2)
        row2 == AdxRow(row1, a[2], b, 2, 1)
        row3 == AdxRow(row2, a[3], b, 3, 1)
    IN  AdxRow(row3, a[4], b, 4, 1)

lowerEvmU256MulExpr(adx, a, b) ==
    IF adx THEN lowerEvmU256MulExprAdx(a, b) ELSE lowerEvmU256MulExprLegacy(a, b)

handleMul(adx, l, r) ==
    LET a == extractU256Operand(l)
        b == extractU256Operand(r)
    IN  IF BothConst(l, r) THEN Fold(IntxMul(Val(a), Val(b)))
        ELSE IF isConstWord(l, ZeroWord) \/ isConstWord(r, ZeroWord) THEN Const(ZeroWord)
        ELSE IF isConstWord(l, OneWord) THEN r
        ELSE IF isConstWord(r, OneWord) THEN l
        ELSE IF bothFitU64(l, r)
             THEN InstIn(<<Lo(a[1], b[1]), Hi(a[1], b[1]), 0, 0>>, U128)
        ELSE IF isConstU64(l) THEN Inst(MulU64Const(b, a[1]))
        ELSE IF isConstU64(r) THEN Inst(MulU64Const(a, b[1]))
        ELSE Inst(lowerEvmU256MulExpr(adx, a, b))

----------------------------------------------------------------------------
(* Bitwise operations and comparisons.                                     *)

AndTable == <<0, 0, 0, 1>>
OrTable == <<0, 1, 1, 1>>
XorTable == <<0, 1, 1, 0>>

handleAnd(l, r) ==
    LET a      == extractU256Operand(l)
        b      == extractU256Operand(r)
        narrow == IF l.range < r.range THEN l.range ELSE r.range
        w      == Limbwise(AndTable, a, b)
    IN  IF BothConst(l, r) THEN Const(w)
        ELSE IF isConstWord(l, ZeroWord) \/ isConstWord(r, ZeroWord) THEN Const(ZeroWord)
        ELSE IF isConstWord(l, NotWord(ZeroWord)) THEN r
        ELSE IF isConstWord(r, NotWord(ZeroWord)) THEN l
        ELSE IF isConstU64(l) \/ isConstU64(r) THEN InstIn(<<w[1], 0, 0, 0>>, U64)
        ELSE IF narrow = U64 THEN InstIn(<<w[1], 0, 0, 0>>, U64)
        ELSE IF narrow = U128 THEN InstIn(<<w[1], w[2], 0, 0>>, U128)
        ELSE Inst(w)

\* OR and XOR: with a one-limb constant the upper limbs pass through.
handleOrXor(table, l, r) ==
    LET a == extractU256Operand(l)
        b == extractU256Operand(r)
        w == Limbwise(table, a, b)
    IN  IF BothConst(l, r) THEN Const(w)
        ELSE IF isConstWord(l, ZeroWord) THEN r
        ELSE IF isConstWord(r, ZeroWord) THEN l
        ELSE IF isConstU64(l) THEN Inst(<<w[1], b[2], b[3], b[4]>>)
        ELSE IF isConstU64(r) THEN Inst(<<w[1], a[2], a[3], a[4]>>)
        ELSE Inst(w)

handleNot(o) ==
    IF isConstant(o) THEN Const(NotWord(o.limbs))
    ELSE IF o.kind = "not" THEN Inst(o.limbs)
    ELSE createDeferred("not", extractU256Operand(o))

handleIsZero(o) ==
    IF isConstant(o) THEN Const(Flag(o.limbs = ZeroWord))
    ELSE IF o.kind = "zeq" THEN createDeferred("zne", o.limbs)
    ELSE IF o.kind = "zne" THEN createDeferred("zeq", o.limbs)
    ELSE createDeferred("zeq", extractU256Operand(o))

handleClz(o) == Inst(intxToU256Value(
    CHOOSE k \in 0 .. WordBits :
        LET n == Val(extractU256Operand(o))
        IN  n < 2^(WordBits - k) /\ (k < WordBits => n >= 2^(WordBits - k - 1))))

handleCompareEqU64(o, u) ==
    LET a == extractU256Operand(o) IN InstIn(Flag(a[1] = u /\ ~HasUpper(a)), U64)
handleCompareLtRhsU64(o, u) ==
    LET a == extractU256Operand(o) IN InstIn(Flag(~HasUpper(a) /\ a[1] < u), U64)
handleCompareGtRhsU64(o, u) ==
    LET a == extractU256Operand(o) IN InstIn(Flag(HasUpper(a) \/ a[1] > u), U64)

\* The top limb is compared signed for SLT and SGT, the others unsigned.
handleCompareGT_LT(op, a, b) ==
    CASE op = "LT"  -> Flag(UnsignedLT(a, b))
      [] op = "GT"  -> Flag(UnsignedLT(b, a))
      [] op = "SLT" -> Flag(SignedLT(a, b))
      [] op = "SGT" -> Flag(SignedLT(b, a))

handleCompareOp(op, l, r) ==
    LET a == extractU256Operand(l)
        b == extractU256Operand(r)
    IN  IF BothConst(l, r)
        THEN Const(Flag(CASE op = "EQ"  -> a = b
                          [] op = "LT"  -> Val(a) < Val(b)
                          [] op = "GT"  -> Val(a) > Val(b)
                          [] op = "SLT" -> IntxSigned(Val(a)) < IntxSigned(Val(b))
                          [] op = "SGT" -> IntxSigned(Val(a)) > IntxSigned(Val(b))))
        ELSE IF op = "EQ" /\ isConstU64(l) THEN handleCompareEqU64(r, a[1])
        ELSE IF op = "EQ" /\ isConstU64(r) THEN handleCompareEqU64(l, b[1])
        ELSE IF op = "LT" /\ isConstU64(r) THEN handleCompareLtRhsU64(l, b[1])
        ELSE IF op = "LT" /\ isConstU64(l) THEN handleCompareGtRhsU64(r, a[1])
        ELSE IF op = "GT" /\ isConstU64(r) THEN handleCompareGtRhsU64(l, b[1])
        ELSE IF op = "GT" /\ isConstU64(l) THEN handleCompareLtRhsU64(r, a[1])
        ELSE InstIn(IF op = "EQ" THEN Flag(a = b) ELSE handleCompareGT_LT(op, a, b), U64)

----------------------------------------------------------------------------
(* Shifts.  large is the test of the whole 256-bit amount; the limb code   *)
(* sees only the amount's low limb, a literal or a run-time value.         *)

isU256GreaterOrEqual(w, threshold) == HasUpper(w) \/ w[1] >= threshold

Limbs(f) == <<f[0], f[1], f[2], f[3]>>

LeftShiftConst(v, s) ==
    LET comp == s \div LimbBits
        m    == s % LimbBits
    IN  Limbs([i \in 0 .. 3 |->
            IF i < comp THEN 0
            ELSE IF m = 0 THEN v[i - comp + 1]
            ELSE IF i = comp THEN Shl(v[1], m)
            ELSE LimbOr(Shl(v[i - comp + 1], m), UShr(v[i - comp], LimbBits - m))])

\* The source index wraps around 2^64 when the amount skips the limb.
LeftShiftDynamic(v, s) ==
    LET comp == s \div LimbBits
        m    == s % LimbBits
    IN  Limbs([i \in 0 .. 3 |->
            LET src   == (i - comp) % LimbBase
                prev  == (src - 1) % LimbBase
                carry == IF prev < 4 /\ m # 0 THEN UShr(v[prev + 1], LimbBits - m) ELSE 0
            IN  IF src < 4 THEN LimbOr(Shl(v[src + 1], m), carry) ELSE 0])

\* Mutation: the bound is tested on the low limb of the amount only.
handleLeftShiftUnguarded(v, s, literal, large) ==
    IF s >= WordBits THEN ZeroWord
    ELSE IF literal THEN LeftShiftConst(v, s)
    ELSE LeftShiftDynamic(v, s)

handleLeftShift(v, s, literal, large) ==
    IF large \/ (literal /\ s >= WordBits) THEN ZeroWord
    ELSE IF literal THEN LeftShiftConst(v, s)
    ELSE LeftShiftDynamic(v, s)

\* fill: the limbs shifted in at the top, 0 or the sign.
RightShiftConst(v, s, fill) ==
    LET comp == s \div LimbBits
        m    == s % LimbBits
    IN  Limbs([i \in 0 .. 3 |->
            LET src == i + comp
            IN  IF src > 3 THEN fill
                ELSE IF m = 0 THEN v[src + 1]
                ELSE IF src = 3 THEN IF fill = 0 THEN UShr(v[4], m) ELSE SShr(v[4], m)
                ELSE LimbOr(UShr(v[src + 1], m), Shl(v[src + 2], LimbBits - m))])

RightShiftDynamic(v, s, fill) ==
    LET comp == s \div LimbBits
        m    == s % LimbBits
    IN  Limbs([i \in 0 .. 3 |->
            LET src   == (i + comp) % LimbBase
                next  == (src + 1) % LimbBase
                above == IF next < 4 THEN v[next + 1] ELSE fill
                carry == IF m # 0 THEN Shl(above, LimbBits - m) ELSE 0
            IN  IF src < 4 THEN LimbOr(UShr(v[src + 1], m), carry) ELSE fill])

handleLogicalRightShift(v, s, literal, large) ==
    IF large \/ (literal /\ s >= WordBits) THEN ZeroWord
    ELSE IF literal THEN RightShiftConst(v, s, 0)
    ELSE RightShiftDynamic(v, s, 0)

handleArithmeticRightShift(v, s, literal, large) ==
    LET fill == IF UShr(v[4], LimbBits - 1) = 1 THEN AllOnes ELSE 0
    IN  IF large \/ (literal /\ s >= WordBits) THEN <<fill, fill, fill, fill>>
        ELSE IF literal THEN RightShiftConst(v, s, fill)
        ELSE RightShiftDynamic(v, s, fill)

IntxShift(op, n, v) ==
    CASE op = "SHL" -> IF n >= WordBits THEN 0
                       ELSE (v % 2^(WordBits - n)) * 2^n
      [] op = "SHR" -> IF n >= WordBits THEN 0 ELSE v \div 2^n
      [] op = "SAR" -> IF n >= WordBits THEN (IF IntxSigned(v) < 0 THEN WordBase - 1 ELSE 0)
                       ELSE (IntxSigned(v) \div 2^n) % WordBase

handleShift(op, s, o) ==
    LET n       == extractU256Operand(s)
        v       == extractU256Operand(o)
        large   == isU256GreaterOrEqual(n, WordBits)
        literal == s.kind \in {"const", "lit"}
    IN  IF BothConst(s, o) THEN Fold(IntxShift(op, Val(n), Val(v)))
        ELSE Inst(CASE op = "SHL" -> handleLeftShift(v, n[1], literal, large)
                    [] op = "SHR" -> handleLogicalRightShift(v, n[1], literal, large)
                    [] op = "SAR" -> handleArithmeticRightShift(v, n[1], literal, large))

----------------------------------------------------------------------------
(* BYTE and SIGNEXTEND.                                                    *)

ByteAt(limb, offset) == UShr(limb, offset) % 2^ByteBits

handleByte(i, o) ==
    LET n      == extractU256Operand(i)
        v      == extractU256Operand(o)
        group  == n[1] \div LimbBytes
        offset == (LimbBytes - 1 - (n[1] % LimbBytes)) * ByteBits
        out    == isU256GreaterOrEqual(n, WordBytes)
        pair   == IF group >= 2 THEN <<v[2], v[1]>> ELSE <<v[4], v[3]>>
    IN  IF isConstant(i) /\ out THEN Const(ZeroWord)
        ELSE IF BothConst(i, o) THEN Const(<<ByteAt(v[4 - group], offset), 0, 0, 0>>)
        ELSE IF isConstant(i) THEN InstIn(<<ByteAt(v[4 - group], offset), 0, 0, 0>>, U64)
        ELSE InstIn(<<IF out THEN 0 ELSE ByteAt(pair[1 + (group % 2)], offset), 0, 0, 0>>, U64)

handleSignextend(i, o) ==
    LET n      == extractU256Operand(i)
        v      == extractU256Operand(o)
        word   == n[1] \div LimbBytes
        offset == (n[1] % LimbBytes) * ByteBits
        sel    == v[IF word \in 1 .. 3 THEN word + 1 ELSE 1]
        byte   == ByteAt(sel, offset)
        sext   == IF byte < 2^(ByteBits - 1) THEN byte ELSE LimbBase - 2^ByteBits + byte
        ext    == LimbOr(Shl(sext, offset), sel % 2^offset)
    IN  Inst(IF isU256GreaterOrEqual(n, WordBytes - 1) THEN v
             ELSE Limbs([k \in 0 .. 3 |-> IF k > word THEN SShr(sext, LimbBits - 1)
                                          ELSE IF k = word THEN ext ELSE v[k + 1]]))

----------------------------------------------------------------------------
(* DIV, MOD, SDIV, SMOD.  The CPU's DIV of hi:lo by d faults when d is 0   *)
(* or the quotient does not fit a limb, that is, unless hi < d.            *)

Udiv(hi, lo, d) ==
    IF hi < d THEN [q |-> (hi * LimbBase + lo) \div d, r |-> (hi * LimbBase + lo) % d,
                    trap |-> FALSE]
    ELSE [q |-> 0, r |-> 0, trap |-> TRUE]

\* The dividend's limbs from the top, each remainder the next high half.
DivCascade(a, d) ==
    LET d3 == Udiv(0, a[4], d)
        d2 == Udiv(d3.r, a[3], d)
        d1 == Udiv(d2.r, a[2], d)
        d0 == Udiv(d1.r, a[1], d)
    IN  [q |-> <<d0.q, d1.q, d2.q, d3.q>>, r |-> d0.r,
         trap |-> d3.trap \/ d2.trap \/ d1.trap \/ d0.trap]

\* Mutation: a zero divisor reaches the division.
UnsafeDivisor(b) == b

SafeDivisor(b) == IF b = 0 THEN 1 ELSE b
Trapping(o, d) == [o EXCEPT !.trap = d.trap]

handleDivU64Divisor(a, d) == LET c == DivCascade(a, d) IN Trapping(Inst(c.q), c)
handleModU64Divisor(a, d) == LET c == DivCascade(a, d) IN Trapping(Inst(<<c.r, 0, 0, 0>>), c)

handleDivU64Dividend(u, b) ==
    LET d == Udiv(0, u, SafeDivisor(b[1]))
    IN  Trapping(Inst(<<IF HasUpper(b) \/ b[1] = 0 THEN 0 ELSE d.q, 0, 0, 0>>), d)
handleModU64Dividend(u, b) ==
    LET d == Udiv(0, u, SafeDivisor(b[1]))
    IN  Trapping(Inst(<<IF HasUpper(b) THEN u ELSE IF b[1] = 0 THEN 0 ELSE d.r, 0, 0, 0>>), d)

evmGetDiv(a, b) == IF b = 0 THEN 0 ELSE a \div b
evmGetMod(a, b) == IF b = 0 THEN 0 ELSE a % b
evmGetSDiv(a, b) ==
    LET q == IntxAbs(a) \div IntxAbs(b)
    IN  IF b = 0 THEN 0
        ELSE IF (IntxSigned(a) < 0) # (IntxSigned(b) < 0) THEN IntxNeg(q) ELSE q
evmGetSMod(a, b) == IF b = 0 THEN 0 ELSE IntxSDivRem(a, b).rem
evmGetAddMod(a, b, m) == IF m = 0 THEN 0 ELSE (a + b) % m
evmGetMulMod(a, b, m) == IF m = 0 THEN 0 ELSE IntxMulMod(a, b, m)

handleDivModGeneral(a, b, wantQuotient) ==
    LET c == DivCascade(a, SafeDivisor(b[1]))
    IN  IF HasUpper(b)
        THEN Inst(intxToU256Value(IF wantQuotient THEN evmGetDiv(Val(a), Val(b))
                                  ELSE evmGetMod(Val(a), Val(b))))
        ELSE Trapping(Inst(IF b[1] = 0 THEN ZeroWord
                           ELSE IF wantQuotient THEN c.q ELSE <<c.r, 0, 0, 0>>), c)

IsPowerOfTwo(n) == \E k \in 0 .. (WordBits - 1) : n = 2^k
Log2(n) == CHOOSE k \in 0 .. (WordBits - 1) : n = 2^k

DivFitsU64(x, y) ==
    LET d == Udiv(0, x, SafeDivisor(y))
    IN  Trapping(InstIn(<<IF y = 0 THEN 0 ELSE d.q, 0, 0, 0>>, U64), d)
ModFitsU64(x, y) ==
    LET d == Udiv(0, x, SafeDivisor(y))
    IN  Trapping(InstIn(<<IF y = 0 THEN 0 ELSE d.r, 0, 0, 0>>, U64), d)

handleDiv(l, r) ==
    LET a  == extractU256Operand(l)
        b  == extractU256Operand(r)
        k  == Udiv(0, a[1], b[1])
    IN  IF BothConst(l, r) THEN Fold(evmGetDiv(Val(a), Val(b)))
        ELSE IF isConstant(r) /\ IsPowerOfTwo(Val(b))
             THEN handleShift("SHR", Fold(Log2(Val(b))), l)
        ELSE IF bothFitU64(l, r) THEN DivFitsU64(a[1], b[1])
        ELSE IF isConstU64(r) /\ b[1] # 0
             THEN IF HasUpper(a) THEN handleDivU64Divisor(a, b[1])
                  ELSE Trapping(Inst(<<k.q, 0, 0, 0>>), k)
        ELSE IF isConstU64(l) THEN handleDivU64Dividend(a[1], b)
        ELSE handleDivModGeneral(a, b, TRUE)

handleMod(l, r) ==
    LET a == extractU256Operand(l)
        b == extractU256Operand(r)
    IN  IF BothConst(l, r) THEN Fold(evmGetMod(Val(a), Val(b)))
        ELSE IF isConstant(r) /\ IsPowerOfTwo(Val(b)) THEN handleAnd(l, Fold(Val(b) - 1))
        ELSE IF bothFitU64(l, r) THEN ModFitsU64(a[1], b[1])
        ELSE IF isConstU64(r) /\ b[1] # 0 THEN handleModU64Divisor(a, b[1])
        ELSE IF isConstU64(l) THEN handleModU64Dividend(a[1], b)
        ELSE handleDivModGeneral(a, b, FALSE)

\* NOT and add one, as the code negates.
Negate(o) == extractU256Operand(handleAddU64Const(handleNot(o), Const(OneWord)))
SmallPositive(r) == isConstU64(r) /\ r.limbs[1] # 0 /\ r.limbs[1] < LimbBase \div 2

SignedByU64(l, d, wantQuotient) ==
    LET a   == extractU256Operand(l)
        neg == a[4] >= LimbBase \div 2
        abs == IF neg THEN Negate(l) ELSE a
        u   == IF wantQuotient THEN handleDivU64Divisor(abs, d) ELSE handleModU64Divisor(abs, d)
    IN  [Inst(IF neg THEN Negate(u) ELSE extractU256Operand(u)) EXCEPT !.trap = u.trap]

handleSDiv(l, r) ==
    LET a == Val(extractU256Operand(l))
        b == Val(extractU256Operand(r))
    IN  IF BothConst(l, r) THEN Fold(IF b = 0 THEN 0 ELSE IntxSDivRem(a, b).quot)
        ELSE IF SmallPositive(r) THEN SignedByU64(l, r.limbs[1], TRUE)
        ELSE Inst(intxToU256Value(evmGetSDiv(a, b)))
handleSMod(l, r) ==
    LET a == Val(extractU256Operand(l))
        b == Val(extractU256Operand(r))
    IN  IF BothConst(l, r) THEN Fold(IF b = 0 THEN 0 ELSE IntxSDivRem(a, b).rem)
        ELSE IF SmallPositive(r) THEN SignedByU64(l, r.limbs[1], FALSE)
        ELSE Inst(intxToU256Value(evmGetSMod(a, b)))

----------------------------------------------------------------------------
(* ADDMOD, MULMOD and the gas bytes of EXP.                                *)

FastEligible(x, y, m) == m[4] # 0 /\ x[4] <= m[4] /\ y[4] <= m[4]

Normalize(x, m) == IF UnsignedLT(x, m) THEN x ELSE SubChain(x, m)

AddModFast(x, y, m) ==
    LET nx  == Normalize(x, m)
        sum == AddChain(nx, Normalize(y, m))
    IN  IF UnsignedLT(sum, nx) \/ ~UnsignedLT(sum, m) THEN SubChain(sum, m) ELSE sum

handleAddMod(l, r, mo) ==
    LET x == extractU256Operand(l)
        y == extractU256Operand(r)
        m == extractU256Operand(mo)
    IN  IF BothConst(l, r) /\ isConstant(mo) THEN Fold(evmGetAddMod(Val(x), Val(y), Val(m)))
        ELSE Inst(IF FastEligible(x, y, m) THEN AddModFast(x, y, m)
                  ELSE intxToU256Value(evmGetAddMod(Val(x), Val(y), Val(m))))

handleMulMod(l, r, mo) ==
    LET n == evmGetMulMod(Val(extractU256Operand(l)), Val(extractU256Operand(r)),
                          Val(extractU256Operand(mo)))
    IN  IF BothConst(l, r) /\ isConstant(mo) THEN Fold(n) ELSE Inst(intxToU256Value(n))

Clz(x) == CHOOSE k \in 0 .. (LimbBits - 1) : x \in 2^(LimbBits - 1 - k) .. (2^(LimbBits - k) - 1)

computeExpByteSize(e) ==
    LET idx  == IF e[4] # 0 THEN 3 ELSE IF e[3] # 0 THEN 2 ELSE IF e[2] # 0 THEN 1 ELSE 0
        bytes == LimbBytes - Clz(LimbOr(e[idx + 1], 1)) \div ByteBits
    IN  IF e = ZeroWord THEN 0 ELSE bytes + idx * LimbBytes

----------------------------------------------------------------------------
(* The interpreter's handlers, on numbers.                                 *)

SignExtendHandler(i, v) ==
    IF i >= WordBytes - 1 THEN v
    ELSE LET mask == 2^(ByteBits * i + ByteBits - 1)
         IN  IF (v \div mask) % 2 = 1 THEN WordBase - mask + (v % mask) ELSE v % mask

ByteHandler(i, v) ==
    IF i < WordBytes THEN (v \div 2^(ByteBits * (WordBytes - 1 - i))) % 2^ByteBits ELSE 0

SarHandler(n, v) ==
    LET negative == v >= WordBase \div 2
    IN  IF n >= WordBits THEN (IF negative THEN WordBase - 1 ELSE 0)
        ELSE (v \div 2^n) + (IF negative THEN WordBase - 2^(WordBits - n) ELSE 0)

BinaryOps == {"ADD", "SUB", "MUL", "DIV", "MOD", "SDIV", "SMOD", "LT", "GT", "SLT",
              "SGT", "EQ", "AND", "OR", "XOR", "BYTE", "SIGNEXTEND", "SHL", "SHR", "SAR"}

BoolNum(b) == IF b THEN 1 ELSE 0

Interpret(op, a, b) ==
    CASE op = "ADD"  -> (a + b) % WordBase
      [] op = "SUB"  -> (a - b) % WordBase
      [] op = "MUL"  -> IntxMul(a, b)
      [] op = "DIV"  -> IF b = 0 THEN 0 ELSE a \div b
      [] op = "MOD"  -> IF b = 0 THEN 0 ELSE a % b
      [] op = "SDIV" -> IF b = 0 THEN 0 ELSE IntxSDivRem(a, b).quot
      [] op = "SMOD" -> IF b = 0 THEN 0 ELSE IntxSDivRem(a, b).rem
      [] op = "LT"   -> BoolNum(a < b)
      [] op = "GT"   -> BoolNum(a > b)
      [] op = "SLT"  -> BoolNum(IntxSigned(a) < IntxSigned(b))
      [] op = "SGT"  -> BoolNum(IntxSigned(b) < IntxSigned(a))
      [] op = "EQ"   -> BoolNum(a = b)
      [] op = "AND"  -> IntxBitwise(AndTable, a, b)
      [] op = "OR"   -> IntxBitwise(OrTable, a, b)
      [] op = "XOR"  -> IntxBitwise(XorTable, a, b)
      [] op = "SHL"  -> IntxShift("SHL", a, b)
      [] op = "SHR"  -> IntxShift("SHR", a, b)
      [] op = "SAR"  -> SarHandler(a, b)
      [] op = "BYTE" -> ByteHandler(a, b)
      [] op = "SIGNEXTEND" -> SignExtendHandler(a, b)

Lower(op, adx, l, r) ==
    CASE op = "ADD"  -> handleAdd(l, r)
      [] op = "SUB"  -> handleSub(l, r)
      [] op = "MUL"  -> handleMul(adx, l, r)
      [] op = "DIV"  -> handleDiv(l, r)
      [] op = "MOD"  -> handleMod(l, r)
      [] op = "SDIV" -> handleSDiv(l, r)
      [] op = "SMOD" -> handleSMod(l, r)
      [] op \in {"LT", "GT", "SLT", "SGT", "EQ"} -> handleCompareOp(op, l, r)
      [] op = "AND"  -> handleAnd(l, r)
      [] op = "OR"   -> handleOrXor(OrTable, l, r)
      [] op = "XOR"  -> handleOrXor(XorTable, l, r)
      [] op \in {"SHL", "SHR", "SAR"} -> handleShift(op, l, r)
      [] op = "BYTE" -> handleByte(l, r)
      [] op = "SIGNEXTEND" -> handleSignextend(l, r)
=============================================================================

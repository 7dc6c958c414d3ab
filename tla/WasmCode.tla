------------------------------ MODULE WasmCode ------------------------------
(***************************************************************************)
(* Values, types, instructions and the module around the function under    *)
(* test, shared by the loader, the interpreter and the JIT.                *)
(*                                                                         *)
(* Widths are scaled: a byte has 2 bits, i32 and f32 have 2 bytes (one     *)
(* stack cell), i64 and f64 have 4 bytes (two cells).  An instruction is a *)
(* record: op, the type t it is about, an immediate n, and for numeric     *)
(* instructions the operator f.                                            *)
(***************************************************************************)
EXTENDS Integers, Sequences, FiniteSets, SequencesExt, Bitwise

CONSTANTS
  Types,      \* declared function types: sequence of [params, rets]
  Funcs,      \* functions 1 .. N: [type, kind, locals]
  Bodies,     \* their bytecode, as parsed
  Globals,    \* sequence of [type, mutable, init]
  Table,      \* table 0: sequence of function numbers, NoFunc if not initialised
  MaxPages,   \* the memory's maximum
  InitPages   \* and initial number of pages

NoFunc == 0

PageSize == 4      \* scaled common::DefaultBytesNumPerPage

is64(t) == t \in {"I64", "F64"}

getWASMTypeCellNum(t) == IF t = "VOID" THEN 0 ELSE IF is64(t) THEN 2 ELSE 1

(* getWASMTypeSize counts bytes; cells are its unit here.  ANY is 4 bytes. *)
getWASMTypeSize(t) == getWASMTypeCellNum(t)

RECURSIVE Cells(_)
Cells(ts) == IF ts = <<>> THEN 0 ELSE getWASMTypeCellNum(Head(ts)) + Cells(Tail(ts))

ByteBits == 2
Bytes(t) == 2 * getWASMTypeCellNum(t)
Bits(t) == ByteBits * Bytes(t)
Mod(t) == 2 ^ Bits(t)
Half(t) == 2 ^ (Bits(t) - 1)
Signed(t, v) == IF v >= Half(t) THEN v - Mod(t) ELSE v
Wrap(t, v) == v % Mod(t)

(* The low w bytes of v, extended to t. *)
Extend(t, v, w, sext) ==
  LET m == 2 ^ (ByteBits * w)
      low == v % m
  IN IF sext /\ low >= m \div 2 THEN Wrap(t, low - m) ELSE low

FuncType(f) == Types[Funcs[f].type]
LocalTypes(f) == FuncType(f).params \o Funcs[f].locals
NumParamCells(f) == Cells(FuncType(f).params)
NumReturnCells(f) == Cells(FuncType(f).rets)
NumLocalCells(f) == Cells(Funcs[f].locals)

(* The first type equal to type i: what the module loader canonicalises to. *)
SmallestTypeIdx(i) == CHOOSE j \in 1 .. i : Types[j] = Types[i] /\ \A k \in 1 .. j - 1 : Types[k] # Types[i]

BlockOps == {"block", "loop", "if"}

Int32Max == Half("I32") - 1

(* The ELSE or END of the block that position p is in. *)
skipCurrentBlock(code, p) ==
  LET Nesting(q) == Cardinality({k \in p .. q - 1 : code[k].op \in BlockOps})
                    - Cardinality({k \in p .. q - 1 : code[k].op = "end"})
      Ends == {q \in p .. Len(code) : code[q].op \in {"else", "end"} /\ Nesting(q) = 0}
  IN CHOOSE q \in Ends : \A r \in Ends : q <= r

(***************************************************************************)
(* Signatures of the numeric instructions.                                 *)
(***************************************************************************)
Compares == {"eq", "ne", "lt_s", "lt_u", "gt_s", "gt_u", "le_s", "le_u", "ge_s", "ge_u"}
Counts == {"clz", "ctz", "popcnt"}
Divs == {"div_s", "div_u", "rem_s", "rem_u"}
Shifts == {"shl", "shr_s", "shr_u", "rotl", "rotr"}
Binaries == {"add", "sub", "mul", "and", "or", "xor"}
Extends == {"extend8_s", "extend_low_s"}
Conversions == {"wrap", "extend_s", "extend_u", "trunc_s", "trunc_u", "reinterpret"}

NumArgs(f) == CASE f = "eqz" -> 1
                [] f \in Counts \cup Extends \cup Conversions -> 1
                [] OTHER -> 2
ResultType(i) == IF i.f \in Compares \cup {"eqz"} THEN "I32" ELSE i.t
ArgType(i) == IF i.f \in Conversions THEN i.from ELSE i.t

(***************************************************************************)
(* The values a float pattern stands for, in halves: a finite set with     *)
(* fractions (f64), NaN, and values on, just beyond and far beyond the     *)
(* bounds of the scaled integer types.                                     *)
(***************************************************************************)
IsNaN(t, v) == v = Half(t)
FloatHalves(t, v) ==
  LET s == Signed(t, v)
      a == IF s < 0 THEN -s ELSE s
      m == IF t = "F32" THEN CASE a <= 4 -> 4 * a [] a = 5 -> 32 [] a = 6 -> 256 [] OTHER -> 512
           ELSE IF a <= 64 THEN a ELSE 64 + (a - 64) * 8
  IN IF s < 0 THEN -m ELSE m

(* Rounding towards zero, from halves. *)
TowardsZero(h) == IF h < 0 THEN -((-h) \div 2) ELSE h \div 2

(* C++ division and remainder truncate towards zero. *)
CDiv(a, b) == LET q == (IF a < 0 THEN -a ELSE a) \div (IF b < 0 THEN -b ELSE b)
              IN IF (a < 0) # (b < 0) THEN -q ELSE q
CRem(a, b) == a - b * CDiv(a, b)

BitAt(v, i) == (v \div 2 ^ i) % 2
CountBits(t, f, v) ==
  LET set == {i \in 0 .. Bits(t) - 1 : BitAt(v, i) = 1}
  IN CASE f = "popcnt" -> Cardinality(set)
       [] set = {} -> Bits(t)
       [] f = "clz" -> Bits(t) - 1 - (CHOOSE i \in set : \A j \in set : j <= i)
       [] OTHER -> CHOOSE i \in set : \A j \in set : j >= i

Bool(b) == IF b THEN 1 ELSE 0

(* Operators both engines delegate to one machine instruction. *)
PlainOp(f, t, a, b) ==
  CASE f = "add" -> Wrap(t, a + b)
    [] f = "sub" -> Wrap(t, a - b)
    [] f = "mul" -> Wrap(t, a * b)
    [] f = "and" -> a & b
    [] f = "or"  -> a | b
    [] f = "xor" -> a ^^ b
    [] f = "shl" -> Wrap(t, a * 2 ^ (b % Bits(t)))
    [] f = "shr_u" -> a \div 2 ^ (b % Bits(t))
    [] f = "shr_s" -> Wrap(t, Signed(t, a) \div 2 ^ (b % Bits(t)))

IntCompare(f, t, a, b) ==
  LET x == Signed(t, a)
      y == Signed(t, b)
  IN Bool(CASE f = "eq" -> a = b     [] f = "ne" -> a # b
            [] f = "lt_u" -> a < b   [] f = "gt_u" -> a > b
            [] f = "le_u" -> a <= b  [] f = "ge_u" -> a >= b
            [] f = "lt_s" -> x < y   [] f = "gt_s" -> x > y
            [] f = "le_s" -> x <= y  [] f = "ge_s" -> x >= y)

(***************************************************************************)
(* The instance both engines run on: globals, linear memory, gas.  gen     *)
(* counts the times the memory block moved.                                *)
(***************************************************************************)
NewInstance(gas) ==
  [glob |-> [g \in DOMAIN Globals |-> Globals[g].init], lin |-> [a \in 0 .. PageSize * MaxPages - 1 |-> 0],
   pages |-> InitPages, gen |-> 0, gas |-> gas, exc |-> "none"]

MemSize(inst) == PageSize * inst.pages

(* growLinearMemory: delta 0 succeeds and moves nothing. *)
growLinearMemory(inst, delta) ==
  LET new == Wrap("I32", inst.pages + delta)
  IN CASE delta = 0 -> [ok |-> TRUE, inst |-> inst]
       [] delta # 0 /\ (new < inst.pages \/ new > MaxPages \/ PageSize * new >= Mod("I32") - 1) ->
            [ok |-> FALSE, inst |-> inst]
       [] OTHER -> [ok |-> TRUE, inst |-> [inst EXCEPT !.pages = new, !.gen = @ + 1]]

RECURSIVE ReadBytes(_, _, _)
ReadBytes(lin, a, w) == IF w = 0 THEN 0 ELSE lin[a] + 2 ^ ByteBits * ReadBytes(lin, a + 1, w - 1)
WriteBytes(lin, a, w, v) ==
  [i \in DOMAIN lin |-> IF i \in a .. a + w - 1 THEN (v \div 2 ^ (ByteBits * (i - a))) % 2 ^ ByteBits ELSE lin[i]]

(* The imported host function: fails on 0, otherwise returns its argument plus one. *)
HostCall(args) == IF args[1] = 0 THEN [ok |-> FALSE, v |-> 0] ELSE [ok |-> TRUE, v |-> Wrap("I32", args[1] + 1)]
=============================================================================

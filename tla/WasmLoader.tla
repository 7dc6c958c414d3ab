----------------------------- MODULE WasmLoader -----------------------------
(***************************************************************************)
(* FunctionLoader::load: the one-pass validation of a function body.  It   *)
(* computes MaxStackSize and MaxBlockDepth, which size the interpreter's   *)
(* frames, and rewrites DROP and SELECT of 64-bit values in place.         *)
(*                                                                         *)
(* A loader L holds the type stack, its tracked size (in cells), the       *)
(* control blocks, the rewritten code so far and the error thrown.  lost   *)
(* and at are not in the code: lost is the number of cells by which the    *)
(* tracked size is too low because a type was popped at a larger size than *)
(* it was pushed with (an ANY, one cell, taken as a 64-bit value), at what *)
(* the loader knows in front of every opcode.                              *)
(***************************************************************************)
EXTENDS WasmCode

(* StackSize is a uint32_t; its subtraction in checkBranch wraps. *)
SizeMod == 64

\* Mutation: the function's own block is not counted.
pushBlockUncounted(L, label, rets) ==
  LET b == [label |-> label, rets |-> rets, poly |-> FALSE, hasElse |-> FALSE,
            init |-> L.size, initn |-> Len(L.types), lost |-> L.lost]
  IN [L EXCEPT !.blocks = Append(@, b), !.depth = IF Len(L.blocks) > @ THEN Len(L.blocks) ELSE @]

pushBlock(L, label, rets) ==
  LET b == [label |-> label, rets |-> rets, poly |-> FALSE, hasElse |-> FALSE,
            init |-> L.size, initn |-> Len(L.types), lost |-> L.lost]
      bs == Append(L.blocks, b)
  IN [L EXCEPT !.blocks = bs, !.depth = IF Len(bs) > @ THEN Len(bs) ELSE @]

NewLoader(f) ==
  pushBlock([f |-> f, size |-> 0, max |-> 0, depth |-> 0, blocks |-> <<>>, types |-> <<>>,
             code |-> <<>>, err |-> "none", popped |-> "VOID", mem |-> FALSE, lost |-> 0,
             at |-> <<>>],
            "FUNCTION", FuncType(f).rets)

Throw(L, e) == IF L.err = "none" THEN [L EXCEPT !.err = e] ELSE L

Block(L) == Last(L.blocks)

resetStack(L) ==
  [L EXCEPT !.size = Block(L).init, !.types = SubSeq(@, 1, Block(L).initn), !.lost = Block(L).lost]

setStackPolymorphic(L, p) == [L EXCEPT !.blocks[Len(L.blocks)].poly = p]

pushValueType(L, t) ==
  LET s == L.size + getWASMTypeSize(t)
  IN [L EXCEPT !.types = Append(@, t), !.size = s, !.max = IF s > @ THEN s ELSE @]

(* The popped type is left in L.popped. *)
popValueType(L, want) ==
  IF L.err # "none" THEN L
  ELSE IF Len(L.types) = Block(L).initn
  THEN IF Block(L).poly THEN [L EXCEPT !.popped = "ANY"] ELSE Throw(L, "TypeMismatchStackSize")
  ELSE LET top == Last(L.types)
           t == IF want = "ANY" THEN top ELSE want
           size == getWASMTypeSize(t)
       IN IF (top = "ANY" /\ want = "ANY") \/ (top # "ANY" /\ top # t) THEN Throw(L, "TypeMismatch")
          ELSE IF size > L.size THEN Throw(L, "TypeMismatchStackSize")
          ELSE [L EXCEPT !.size = @ - size, !.types = Front(@), !.popped = t,
                         !.lost = @ + size - getWASMTypeSize(top)]

RECURSIVE PopAll(_, _)
PopAll(L, ts) == IF ts = <<>> THEN L ELSE PopAll(popValueType(L, Last(ts)), Front(ts))
RECURSIVE PushAll(_, _)
PushAll(L, ts) == IF L.err # "none" \/ ts = <<>> THEN L ELSE PushAll(pushValueType(L, Head(ts)), Tail(ts))

checkTargetBlockStack(L, ts, avail) ==
  IF Cells(ts) > avail THEN Throw(L, "TypeMismatchExpectDataStackEmpty")
  ELSE IF Len(L.types) < Len(ts) \/ SubSeq(L.types, Len(L.types) - Len(ts) + 1, Len(L.types)) # ts
  THEN Throw(L, "TypeMismatch")
  ELSE L

(* checkTopTypes of the current block's results, at ELSE and END. *)
checkBlockStack(L) ==
  LET b == Block(L)
      ts == b.rets
      P == PushAll(PopAll(L, ts), ts)
  IN IF L.err # "none" THEN L
     ELSE IF L.size < b.init THEN Throw(L, "TypeMismatchStackSize")
     ELSE IF b.poly
     THEN IF P.err = "none" /\ Len(P.types) - b.initn # Len(ts) THEN Throw(P, "TypeMismatchStackSize") ELSE P
     ELSE IF L.size - b.init # Cells(ts) THEN Throw(L, "TypeMismatchStackSize")
     ELSE checkTargetBlockStack(L, ts, L.size - b.init)

Target(L, n) == L.blocks[Len(L.blocks) - n]
LabelTypes(b) == IF b.label = "loop" THEN <<>> ELSE b.rets

checkBranch(L, n) ==
  IF L.err # "none" THEN L
  ELSE IF Len(L.blocks) <= n THEN Throw(L, "UnknownLabel")
  ELSE LET ts == LabelTypes(Target(L, n))
       IN IF Block(L).poly THEN PushAll(PopAll(L, ts), ts)
          ELSE checkTargetBlockStack(L, ts, (L.size - Block(L).init) % SizeMod)

(* Code after an unconditional transfer sees a polymorphic stack. *)
Unreachable(L) == IF L.err # "none" THEN L ELSE setStackPolymorphic(resetStack(L), TRUE)

BrTable(L, tbl) ==
  LET R == FoldLeft(checkBranch, popValueType(L, "I32"), tbl)
  IN IF R.err # "none" THEN R
     ELSE IF \E k \in DOMAIN tbl : LabelTypes(Target(L, tbl[k])) # LabelTypes(Target(L, tbl[1]))
     THEN Throw(R, "TypeMismatchBrTableTargets")
     ELSE Unreachable(R)

Else(L) ==
  LET C == checkBlockStack(L)
  IN IF Block(L).label # "if" \/ Block(L).hasElse THEN Throw(L, "ElseMismatchIf")
     ELSE IF C.err # "none" THEN C
     ELSE LET R == resetStack(C)
          IN setStackPolymorphic([R EXCEPT !.blocks[Len(R.blocks)].hasElse = TRUE], FALSE)

End(L) ==
  LET C == checkBlockStack(L)
  IN IF C.err # "none" THEN C
     ELSE IF Block(C).label = "if" /\ ~Block(C).hasElse /\ Block(C).rets # <<>>
     THEN Throw(C, "TypeMismatchElseMissing")
     ELSE [C EXCEPT !.blocks = Front(@)]

Select(L) ==
  LET P1 == popValueType(popValueType(L, "I32"), "ANY")
      P2 == popValueType(P1, "ANY")
      t == IF P1.popped # "ANY" THEN P1.popped ELSE P2.popped
  IN IF P2.err # "none" THEN P2
     ELSE IF P1.popped # P2.popped /\ P1.popped # "ANY" /\ P2.popped # "ANY"
     THEN Throw(P2, "TypeMismatchSelectStackEmpty")
     ELSE [pushValueType(P2, t) EXCEPT !.popped = t]

CallTypes(L, ft) == PushAll(PopAll(L, ft.params), ft.rets)

LocalOp(L, i) ==
  LET t == LocalTypes(L.f)[i.n]
  IN CASE i.n \notin DOMAIN LocalTypes(L.f) -> Throw(L, "UnknownLocal")
       [] i.n \in DOMAIN LocalTypes(L.f) /\ i.op = "get_local" -> pushValueType(L, t)
       [] i.n \in DOMAIN LocalTypes(L.f) /\ i.op = "set_local" -> popValueType(L, t)
       [] i.n \in DOMAIN LocalTypes(L.f) /\ i.op = "tee_local" -> PushAll(popValueType(L, t), <<t>>)

UseMemory(L) == [L EXCEPT !.mem = TRUE]

(* The effect of one opcode on the type stack: the switch of load. *)
LoadOpcode(L, i) ==
  CASE i.op = "unreachable" -> Unreachable(L)
    [] i.op = "nop" -> L
    [] i.op \in {"block", "loop"} -> pushBlock(L, i.op, IF i.t = "VOID" THEN <<>> ELSE <<i.t>>)
    [] i.op = "if" -> LET P == popValueType(L, "I32")
                      IN IF P.err # "none" THEN P ELSE pushBlock(P, "if", IF i.t = "VOID" THEN <<>> ELSE <<i.t>>)
    [] i.op = "else" -> Else(L)
    [] i.op = "end" -> End(L)
    [] i.op = "br" -> Unreachable(checkBranch(L, i.n))
    [] i.op = "br_if" -> checkBranch(popValueType(L, "I32"), i.n)
    [] i.op = "br_table" -> BrTable(L, i.tbl)
    [] i.op = "return" -> Unreachable(PopAll(L, FuncType(L.f).rets))
    [] i.op = "call" -> CallTypes(L, FuncType(i.n))
    [] i.op = "call_indirect" -> CallTypes(popValueType(L, "I32"), Types[i.n])
    [] i.op = "drop" -> popValueType(L, "ANY")
    [] i.op = "select" -> Select(L)
    [] i.op \in {"get_local", "set_local", "tee_local"} -> LocalOp(L, i)
    [] i.op = "get_global" -> pushValueType(L, Globals[i.n].type)
    [] i.op = "set_global" -> IF ~Globals[i.n].mutable THEN Throw(L, "GlobalIsImmutable")
                              ELSE popValueType(L, Globals[i.n].type)
    [] i.op = "memory_size" -> UseMemory(pushValueType(L, "I32"))
    [] i.op = "memory_grow" -> UseMemory(PushAll(popValueType(L, "I32"), <<"I32">>))
    [] i.op = "load" -> UseMemory(PushAll(popValueType(L, "I32"), <<i.t>>))
    [] i.op = "store" -> UseMemory(popValueType(popValueType(L, i.t), "I32"))
    [] i.op = "const" -> pushValueType(L, i.t)
    [] i.op = "num" -> PushAll(PopAll(L, [k \in 1 .. NumArgs(i.f) |-> ArgType(i)]), <<ResultType(i)>>)

(* DROP and SELECT of a 64-bit value are overwritten in the bytecode. *)
Rewrite(i, t) ==
  IF i.op \in {"drop", "select"} /\ is64(t) THEN [i EXCEPT !.op = IF @ = "drop" THEN "drop_64" ELSE "select_64"]
  ELSE i

LoadStep(L, i) ==
  IF L.err # "none" THEN L
  ELSE IF L.blocks = <<>> THEN Throw(L, "OpcodesRemainAfterEndOfFunction")
  ELSE LET R == LoadOpcode([L EXCEPT !.popped = "VOID"], i)
       IN [R EXCEPT !.code = Append(@, Rewrite(i, R.popped)),
                    !.at = Append(@, [size |-> L.size, depth |-> Len(L.blocks), poly |-> Block(L).poly,
                                         lost |-> L.lost])]

(* Only a body whose blocks are all closed is accepted. *)
Finish(L) == IF L.blocks # <<>> THEN Throw(L, "BlockStackNotEmptyAtEndOfFunction") ELSE L

(* What load leaves in the CodeEntry. *)
CodeEntry(L) == [code |-> L.code, max |-> L.max, depth |-> L.depth, mem |-> L.mem]
=============================================================================

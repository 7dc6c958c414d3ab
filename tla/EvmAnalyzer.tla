----------------------------- MODULE EvmAnalyzer -----------------------------
(***************************************************************************)
(* What the JIT front end computes about a program before it emits code:   *)
(* runs of JUMPDESTs and their canonical counter, compiled blocks and      *)
(* their stack heights (evm_analyzer.h), and the block-local memory        *)
(* prechecks (evm_bytecode_visitor.h).                                     *)
(***************************************************************************)
EXTENDS EvmCode
LOCAL INSTANCE SequencesExt
LOCAL INSTANCE FiniteSetsExt

(* The last JUMPDEST of the run that pc is in. *)
getCanonicalJumpDestPC(code, pc) ==
  Max({e \in JumpDests(code) : e >= pc /\ (pc..e) \subseteq JumpDests(code)})

(* Entries of the compiled blocks: the start, the canonical JUMPDESTs, and
   the fallthrough of every JUMPI the walk visits. *)
BlockEntries(code, rev) ==
  LET dests == JumpDests(code)
      Entry(pc) == IF pc \in dests THEN getCanonicalJumpDestPC(code, pc) ELSE pc
      afterJumpI == {pc + 1 : pc \in {q \in LiveStarts(code, rev) \ {Len(code)} :
                                        Byte(code, q) = JUMPI}}
  IN  {Entry(pc) : pc \in {0} \cup dests \cup afterJumpI}

(* The instructions of the block entered at e, its terminator included. *)
BlockBody(code, rev, e) ==
  LET I == InstrStarts(code)
      s == IF e \in JumpDests(code) THEN e + 1 ELSE e
      Ends(q) == EndsInDeadCode(Byte(code, q), rev) \/ Byte(code, q) = JUMPI
      body == {q \in I : /\ q >= s
                         /\ ~\E d \in JumpDests(code) : s <= d /\ d <= q
                         /\ ~\E t \in I : s <= t /\ t < q /\ Ends(t)}
  IN  SelectSeq([i \in 1..Len(code) |-> i - 1], LAMBDA pc : pc \in body)

(* Stack depth the block needs on entry and the most it adds to it. *)
analyzeBlockBody(code, rev, e) ==
  LET Step(w, q) ==
        LET op == Byte(code, q)
            deficit == Required(op) - (w.depth + w.height)
            h == w.height + Pushed(op) - Required(op)
        IN  IF ~Defined(op, rev) THEN w
            ELSE [depth  |-> IF deficit > 0 THEN w.depth + deficit ELSE w.depth,
                  height |-> h,
                  max    |-> IF h > w.max THEN h ELSE w.max]
  IN  FoldLeft(Step, [depth |-> 0, height |-> 0, max |-> 0], BlockBody(code, rev, e))

PushIsComplete(code, q) == q + opcodeLen(Byte(code, q)) <= Len(code)

(* The prechecks scan by opcode alone, whatever the revision defines. *)
ScannedBody(code, e) == BlockBody(code, OSAKA, e)

(* The simulated stack holds known machine integers and -1 for unknown. *)
analyzeConstDirectMemoryBlockPrecheck(code, e) ==
  LET Known(v) == v >= 0
      Fits(v) == IF v <= U64Max THEN v ELSE -1
      Access(w, n, width) ==
        IF Len(w.sim) < n \/ ~Known(w.sim[1]) \/ w.sim[1] + width > U64Max
        THEN [w EXCEPT !.ok = FALSE]
        ELSE [w EXCEPT !.size = IF w.sim[1] + width > @ THEN w.sim[1] + width ELSE @,
                       !.ops = @ + 1, !.sim = SubSeq(@, n + 1, Len(@))]
      Sum(a, b) == IF Known(a) /\ Known(b) THEN Fits(a + b) ELSE -1
      Diff(a, b) == IF Known(a) /\ Known(b) /\ a >= b THEN a - b ELSE -1
      Step(w, q) ==
        LET op == Byte(code, q)
            short == Len(w.sim) < Required(op)
            rest == SubSeq(w.sim, Required(op) + 1, Len(w.sim))
            loaded == Access(w, 1, 32)
        IN  IF ~w.ok \/ isBlockTerminator(op) \/ op = JUMPI THEN w
            ELSE IF short THEN [w EXCEPT !.ok = FALSE]
            ELSE CASE op \in PUSH0..(PUSH0 + U64Bytes) /\ PushIsComplete(code, q) ->
                        [w EXCEPT !.sim = <<loadPushValue(code, q)>> \o @]
                   [] op \in (PUSH0 + U64Bytes + 1)..PUSH32
                        /\ ImmediateSize(op) <= Len(code) - q ->
                        [w EXCEPT !.sim = <<-1>> \o @]
                   [] op = MSIZE -> [w EXCEPT !.sim = <<-1>> \o @]
                   [] op \in DupOps -> [w EXCEPT !.sim = <<@[Required(op)]>> \o @]
                   [] op \in SwapOps ->
                        [w EXCEPT !.sim[1] = w.sim[Required(op)],
                                  !.sim[Required(op)] = w.sim[1]]
                   [] op = POP -> [w EXCEPT !.sim = rest]
                   [] op = ADD -> [w EXCEPT !.sim = <<Sum(@[1], @[2])>> \o rest]
                   [] op = SUB -> [w EXCEPT !.sim = <<Diff(@[1], @[2])>> \o rest]
                   [] op = MLOAD ->
                        IF loaded.ok THEN [loaded EXCEPT !.sim = <<-1>> \o @] ELSE loaded
                   [] op = MSTORE -> Access(w, 2, 32)
                   [] op = MSTORE8 -> Access(w, 2, 1)
                   [] OTHER -> [w EXCEPT !.ok = FALSE]
      scan == FoldLeft(Step, [ok |-> TRUE, sim |-> <<>>, size |-> 0, ops |-> 0],
                       ScannedBody(code, e))
  IN  IF scan.ok /\ scan.ops >= 2
      THEN [NoPlan EXCEPT !.kind = "const", !.size = scan.size, !.ops = scan.ops]
      ELSE NoPlan

(* body is PUSH 0, CALLDATALOAD, PUSH 0, then a repeated five-opcode motif
   that accesses memory and adds the loaded stride to the address. *)
LinearBody(code, body) ==
  LET Op(i) == Byte(code, body[i])
      ZeroPush(i) == /\ Op(i) \in PUSH0..(PUSH0 + U64Bytes)
                     /\ PushIsComplete(code, body[i])
                     /\ loadPushValue(code, body[i]) = 0
      Repeats(motif) == \A i \in 4..Len(body) : Op(i) = motif[((i - 4) % 5) + 1]
  IN  /\ Len(body) >= 13 /\ (Len(body) - 3) % 5 = 0
      /\ ZeroPush(1) /\ Op(2) = CALLDATALOAD /\ ZeroPush(3)
      /\ \/ Repeats(<<DUP1, MLOAD, POP, DUP2, ADD>>)
         \/ Repeats(<<DUP1, DUP1, MSTORE, DUP2, ADD>>)

analyzeLinearDirectMemoryBlockPrecheck(code, e) ==
  LET body == SelectSeq(ScannedBody(code, e), LAMBDA q :
                ~isBlockTerminator(Byte(code, q)) /\ Byte(code, q) # JUMPI)
  IN  IF LinearBody(code, body)
      THEN [NoPlan EXCEPT !.kind = "linear", !.size = 32, !.ops = (Len(body) - 3) \div 5]
      ELSE NoPlan

(* All the front end knows of a block. *)
BlockInfo(code, rev, e) ==
  LET heights == analyzeBlockBody(code, rev, e)
      const == analyzeConstDirectMemoryBlockPrecheck(code, e)
  IN  [need |-> heights.depth, max |-> heights.max,
       plan |-> IF const.kind # "none" THEN const
                ELSE analyzeLinearDirectMemoryBlockPrecheck(code, e)]

Analyze(code, rev) ==
  [blocks |-> [e \in BlockEntries(code, rev) |-> BlockInfo(code, rev, e)],
   canon  |-> [d \in JumpDests(code) |-> getCanonicalJumpDestPC(code, d)]]
=============================================================================

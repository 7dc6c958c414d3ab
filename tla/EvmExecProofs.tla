---------------------------- MODULE EvmExecProofs ----------------------------
(***************************************************************************)
(* Safety of message calls, for every program, message, host answer, word  *)
(* size and limit, given sound gas chunks and a sound block analysis       *)
(* (ExecAssumption): both engines stay inside the machine, and the         *)
(* interpreter's chunk metering agrees with paying opcode by opcode.       *)
(***************************************************************************)
EXTENDS EvmExec, EvmJitProofs, EvmMeterProofs

(* What any part of an emitted instruction may do to its frame. *)
Passes(f, g) ==
  /\ Sound(g) /\ g.gas <= f.gas
  /\ g.snap = f.snap /\ g.rev = f.rev /\ g.static = f.static /\ g.deep = f.deep
  /\ f.static => g.log = f.log
  /\ Running(g) => Running(f)
  /\ f.msz = f.mem /\ Running(g) => g.msz = g.mem

(* One step of compiled code.  If it does not end the frame, the instruction
   is defined and no terminator, and control goes to a jump destination,
   behind a run of JUMPDESTs, or to the next instruction; a new block begins
   only there or after a JUMPI. *)
LEMMA JitExecutePasses ==
  \A cache, front, in, f : \A code \in Seq(Bytes) :
    /\ Answer(in) /\ Sound(f) /\ Running(f) /\ cache.dests \in SUBSET Nat
    /\ cache.end \in [PCs(code) -> Nat] /\ cache.cost \in [PCs(code) -> Nat]
    /\ f.pc < Len(code) /\ Byte(code, f.pc) = JUMPDEST =>
         /\ front.canon[f.pc] \in PCs(code) /\ front.canon[f.pc] >= f.pc
         /\ front.blocks[front.canon[f.pc]].plan \in Plans
    /\ f.begin /\ ~(f.pc < Len(code) /\ Byte(code, f.pc) = JUMPDEST) =>
         front.blocks[f.pc].plan \in Plans
    => LET r == JitExecute(f, code, cache, front, in)
           op == Byte(code, f.pc)
           canon == front.canon[f.pc]
       IN  /\ Passes(f, r)
           /\ ~Running(r) =>
                r.pc = f.pc \/ (f.pc < Len(code) /\ op = JUMPDEST /\ r.pc = canon)
           /\ Running(r) =>
                /\ f.pc < Len(code) /\ Defined(op, f.rev) /\ op \notin EndOps
                /\ \/ r.pc \in cache.dests
                   \/ op = JUMPDEST /\ r.pc = canon + 1 /\ ~r.begin
                   \/ op \notin {JUMP, JUMPDEST} /\ r.pc = f.pc + opcodeLen(op)
                        /\ (r.begin => op = JUMPI)
(* The head of a block: one check of the stack, a fresh plan. *)
<1>BeginBlockKeeps.
      ASSUME NEW f, Sound(f), NEW info, info.plan \in Plans
      PROVE  LET g == handleBeginBlock(f, info)
             IN  /\ Sound(g) /\ g.gas <= f.gas /\ g.pc = f.pc /\ g.until = f.until
                 /\ g.snap = f.snap /\ g.rev = f.rev /\ g.static = f.static /\ g.deep = f.deep
                 /\ g.log = f.log /\ g.msz = f.msz /\ g.mem = f.mem
                 /\ (Running(g) => Running(f)) /\ ~g.begin
  <2>. USE <1>BeginBlockKeeps
  <2>. DEFINE h == [f EXCEPT !.plan = info.plan, !.begin = FALSE]
              g == createStackCheckBlock(h, info.need, info.max)
  <2>1. handleBeginBlock(f, info) = g
    BY DEF handleBeginBlock
  <2>2. f \in Frames /\ FALSE \in BOOLEAN /\ f.gas \in Nat
    BY FrameFields DEF Sound
  <2>3. h \in Frames
    BY <2>2, Zenon DEF Frames
  <2>4. /\ h.gas = f.gas /\ h.pc = f.pc /\ h.until = f.until /\ h.stack = f.stack
        /\ h.snap = f.snap /\ h.rev = f.rev /\ h.static = f.static /\ h.deep = f.deep
        /\ h.log = f.log /\ h.msz = f.msz /\ h.mem = f.mem /\ h.st = f.st /\ h.begin = FALSE
    BY <2>2 DEF Frames
  <2>. HIDE DEF h
  <2>5. Sound(h)
    BY <2>3, <2>4 DEF Sound
  <2>6. g \in {h, Fail(h, "STACK_UNDERFLOW"), Fail(h, "STACK_OVERFLOW")}
    BY DEF createStackCheckBlock
  <2>7. \A s \in Statuses : Calm(h, Fail(h, s)) /\ Fail(h, s).log = h.log
    <3>1. \A s \in Statuses : Calm(h, Fail(h, s))
      BY <2>5, FailCalm, Zenon
    <3>2. \A s : [h EXCEPT !.st = s, !.gas = 0, !.refund = h.snap, !.ret = 0].log = h.log
      BY <2>3 DEF Frames
    <3>. QED BY <3>1, <3>2, Zenon DEF Fail
  <2>8. Calm(h, g) /\ g.log = h.log
    BY <2>5, <2>6, <2>7, CalmReflexive, Zenon DEF Statuses
  <2>. HIDE DEF g
  <2>9. Running(h) => Running(f)
    BY <2>4 DEF Running
  <2>. QED BY <2>1, <2>4, <2>8, <2>9, CalmFacts, Zenon DEF Calm, Evolves
(* The charge for the chunk that starts at the counter. *)
<1>MeterKeeps.
      ASSUME NEW f, Sound(f), NEW cache, cache.end[f.pc] \in Nat, cache.cost[f.pc] \in Nat
      PROVE  LET g == meterOpcode(f, cache)
             IN  /\ Sound(g) /\ g.gas <= f.gas /\ g.pc = f.pc
                 /\ g.snap = f.snap /\ g.rev = f.rev /\ g.static = f.static /\ g.deep = f.deep
                 /\ (f.static => g.log = f.log) /\ g.msz = f.msz /\ g.mem = f.mem
                 /\ (Running(g) => Running(f)) /\ g.begin = f.begin
  <2>. USE <1>MeterKeeps
  <2>1. CASE cache.end[f.pc] > f.pc
    <3>. DEFINE c == chargeGas(f, cache.cost[f.pc])
                u == cache.end[f.pc]
                g == [c EXCEPT !.until = u]
    <3>1. meterOpcode(f, cache) = g
      BY <2>1 DEF meterOpcode
    <3>2. Calm(f, c) /\ Sound(c)
      BY ChargeCalm, CalmFacts, Zenon
    <3>. HIDE DEF c, u
    <3>3. c \in Frames /\ u \in Nat
      BY <3>2 DEF Sound, u
    <3>4. g \in Frames
      BY <3>3, Zenon DEF Frames
    <3>5. /\ g.gas = c.gas /\ g.pc = c.pc /\ g.stack = c.stack
          /\ g.snap = c.snap /\ g.rev = c.rev /\ g.static = c.static /\ g.deep = c.deep
          /\ g.log = c.log /\ g.msz = c.msz /\ g.mem = c.mem /\ g.st = c.st /\ g.begin = c.begin
      BY <3>3 DEF Frames
    <3>. HIDE DEF g
    <3>6. Sound(g)
      BY <3>2, <3>4, <3>5 DEF Sound
    <3>7. Running(g) => Running(c)
      BY <3>5 DEF Running
    <3>. QED BY <3>1, <3>2, <3>5, <3>6, <3>7, CalmFacts, Zenon DEF Calm, Evolves
  <2>2. CASE ~(cache.end[f.pc] > f.pc)
    <3>1. meterOpcode(f, cache) = f
      BY <2>2 DEF meterOpcode
    <3>2. f.gas <= f.gas
      BY FrameFields
    <3>. QED BY <3>1, <3>2, Zenon
  <2>. QED BY <2>1, <2>2, Zenon
(* Two stretches of compiled code in a row are one. *)
<1>PassesTransitive.
      ASSUME NEW f, NEW g, NEW h, Sound(f), Passes(f, g), Passes(g, h)
      PROVE  Passes(f, h)
  <2>. USE <1>PassesTransitive
  <2>1. f.gas \in Nat /\ g.gas \in Nat /\ h.gas \in Nat
    BY FrameFields, Zenon DEF Passes
  <2>2. h.gas <= f.gas
    BY <2>1 DEF Passes
  <2>. QED BY <2>2, Zenon DEF Passes
(* A step that keeps the cached size right is a stretch of compiled code. *)
<1>TracksPasses.
      ASSUME NEW f, NEW g, Tracks(f, g) PROVE Passes(f, g)
  <2>. USE <1>TracksPasses
  <2>1. Evolves(f, g) /\ (Running(g) => Running(f))
    BY TracksFacts, Zenon
  <2>. QED BY <2>1, Zenon DEF Passes, Tracks, Evolves
(* Moving the counter, by falling through or by a jump. *)
<1>RedirectPasses.
      ASSUME NEW f, Sound(f), NEW p \in Nat
      PROVE  LET x == [f EXCEPT !.pc = p]
                 y == [f EXCEPT !.pc = p, !.until = 0]
                 z == [f EXCEPT !.pc = p, !.begin = TRUE]
             IN  /\ Passes(f, x) /\ x.pc = p /\ x.begin = f.begin /\ x.until = f.until
                 /\ Passes(f, y) /\ y.pc = p /\ y.begin = f.begin
                 /\ Passes(f, z) /\ z.pc = p
  <2>. USE <1>RedirectPasses
  <2>. DEFINE x == [f EXCEPT !.pc = p]
              y == [f EXCEPT !.pc = p, !.until = 0]
              z == [f EXCEPT !.pc = p, !.begin = TRUE]
  <2>1. f \in Frames /\ f.gas \in Nat /\ 0 \in Nat /\ TRUE \in BOOLEAN
    BY FrameFields DEF Sound
  <2>2. x \in Frames /\ y \in Frames /\ z \in Frames
    BY <2>1, Zenon DEF Frames
  <2>3. /\ x.pc = p /\ x.gas = f.gas /\ x.stack = f.stack /\ x.mem = f.mem /\ x.msz = f.msz
        /\ x.snap = f.snap /\ x.rev = f.rev /\ x.static = f.static /\ x.deep = f.deep
        /\ x.log = f.log /\ x.st = f.st /\ x.begin = f.begin /\ x.until = f.until
    BY <2>1 DEF Frames
  <2>4. /\ y.pc = p /\ y.gas = f.gas /\ y.stack = f.stack /\ y.mem = f.mem /\ y.msz = f.msz
        /\ y.snap = f.snap /\ y.rev = f.rev /\ y.static = f.static /\ y.deep = f.deep
        /\ y.log = f.log /\ y.st = f.st /\ y.begin = f.begin
    BY <2>1 DEF Frames
  <2>5. /\ z.pc = p /\ z.gas = f.gas /\ z.stack = f.stack /\ z.mem = f.mem /\ z.msz = f.msz
        /\ z.snap = f.snap /\ z.rev = f.rev /\ z.static = f.static /\ z.deep = f.deep
        /\ z.log = f.log /\ z.st = f.st
    BY <2>1 DEF Frames
  <2>. HIDE DEF x, y, z
  <2>6. Sound(x) /\ Sound(y) /\ Sound(z) /\ f.gas <= f.gas
    BY <2>1, <2>2, <2>3, <2>4, <2>5 DEF Sound
  <2>7. /\ Passes(f, x) /\ x.pc = p /\ x.begin = f.begin /\ x.until = f.until
        /\ Passes(f, y) /\ y.pc = p /\ y.begin = f.begin
        /\ Passes(f, z) /\ z.pc = p
    BY <2>3, <2>4, <2>5, <2>6, Zenon DEF Passes, Running
  <2>. QED BY <2>7, Zenon DEF x, y, z
(* Falling through a JUMPI begins a block at the next instruction.          *)
<1>RedirectBegins.
      ASSUME NEW f, Sound(f), NEW p \in Nat
      PROVE  /\ Passes(f, [f EXCEPT !.pc = p, !.begin = TRUE])
             /\ [f EXCEPT !.pc = p, !.begin = TRUE].pc = p
  BY <1>RedirectBegins, <1>RedirectPasses, Zenon
(* The emitted move past an instruction changes the program counter only. *)
<1>AdvancePasses.
      ASSUME NEW f, Sound(f), NEW op \in Bytes
      PROVE  LET g == Advance(f, op)
             IN  /\ Passes(f, g) /\ g.begin = f.begin /\ (Running(g) <=> Running(f))
                 /\ g.pc = IF Running(f) THEN f.pc + opcodeLen(op) ELSE f.pc
  <2>. USE <1>AdvancePasses
  <2>1. f.pc \in Nat /\ f.gas \in Nat
    BY FrameFields
  <2>2. f.pc + opcodeLen(op) \in Nat
    <3>1. opcodeLen(op) \in 1..33
      BY OpcodeLenType, Zenon
    <3>2. \A x \in 1..33 : f.pc + x \in Nat
      BY <2>1
    <3>. QED BY <3>1, <3>2, Zenon
  <2>. DEFINE p == f.pc + opcodeLen(op)
  <2>3. Advance(f, op) = IF Running(f) THEN [f EXCEPT !.pc = p] ELSE f
    BY DEF Advance
  <2>. HIDE DEF p
  <2>4. Passes(f, f)
    BY <2>1 DEF Passes
  <2>. DEFINE x == [f EXCEPT !.pc = p]
  <2>5. Passes(f, x) /\ x.pc = p /\ x.begin = f.begin
    BY <2>2, <1>RedirectPasses, Zenon DEF p
  <2>6. Running(x) <=> Running(f)
    BY DEF Running, Sound, Frames
  <2>. HIDE DEF x
  <2>7. LET g == Advance(f, op)
        IN  /\ Passes(f, g) /\ g.begin = f.begin /\ (Running(g) <=> Running(f))
            /\ g.pc = IF Running(f) THEN p ELSE f.pc
    <3>1. Advance(f, op) = IF Running(f) THEN x ELSE f
      BY <2>3, Zenon DEF x
    <3>. QED BY <2>4, <2>5, <2>6, <3>1, Zenon
  <2>. QED BY <2>7, Zenon DEF p
(* Compiled jumps. *)
<1>JumpPasses.
      ASSUME NEW f, Sound(f), NEW dest, NEW dests \in SUBSET Nat
      PROVE  LET g == JumpTo(f, dest, dests)
             IN  /\ Passes(f, g)
                 /\ Running(f) /\ Running(g) => g.pc \in dests
                 /\ Running(f) /\ ~Running(g) => g.pc = f.pc
  <2>. USE <1>JumpPasses
  <2>1. CASE dest <= U64Max /\ dest \in dests
    <3>1. dest \in Nat
      BY <2>1
    <3>. DEFINE h == [f EXCEPT !.pc = dest, !.until = 0]
    <3>2. JumpTo(f, dest, dests) = h
      BY <2>1 DEF JumpTo
    <3>3. Passes(f, h) /\ h.pc = dest
      BY <3>1, <1>RedirectPasses, Zenon
    <3>4. Running(f) => Running(h)
      BY DEF Running, Sound, Frames
    <3>. HIDE DEF h
    <3>. QED BY <2>1, <3>2, <3>3, <3>4, Zenon
  <2>2. CASE ~(dest <= U64Max /\ dest \in dests)
    <3>. DEFINE h == Fail(f, "BAD_JUMP_DESTINATION")
    <3>1. JumpTo(f, dest, dests) = h
      BY <2>2 DEF JumpTo
    <3>2. ~Running(h)
      BY DEF Fail, Running, Sound, Frames
    <3>3. Calm(f, h)
      BY FailCalm, Zenon DEF Statuses
    <3>. HIDE DEF h
    <3>4. Passes(f, h) /\ h.pc = f.pc
      BY <3>3, TracksFacts, <1>TracksPasses, Zenon DEF Calm, Evolves
    <3>. QED BY <3>1, <3>2, <3>4, Zenon
  <2>. QED BY <2>1, <2>2, Zenon
(* The entry of a run of JUMPDESTs charges a natural amount, checks the shared
   block and leaves the counter behind the canonical JUMPDEST. *)
<1>EnterRunPasses.
      ASSUME NEW code \in Seq(Bytes), NEW cache, NEW front, NEW f, Sound(f), Running(f),
             cache.end \in [PCs(code) -> Nat], cache.cost \in [PCs(code) -> Nat],
             front.canon[f.pc] \in PCs(code), front.canon[f.pc] >= f.pc,
             front.blocks[front.canon[f.pc]].plan \in Plans
      PROVE  LET r == EnterRun(f, cache, front)
             IN  /\ Passes(f, r)
                 /\ Running(r) => r.pc = front.canon[f.pc] + 1 /\ ~r.begin
                 /\ r.pc \in {f.pc, front.canon[f.pc], front.canon[f.pc] + 1}
                 /\ ~Running(r) => r.pc \in {f.pc, front.canon[f.pc]}
  <2>. USE <1>EnterRunPasses
  <2>. DEFINE canon == front.canon[f.pc]
              skip == RunCost(cache.cost, f.pc, canon)
              info == front.blocks[canon]
              g == chargeGas(f, skip)
              g2 == [g EXCEPT !.pc = canon]
              h == handleBeginBlock(g2, info)
              m == meterOpcode(h, cache)
              r == EnterRun(f, cache, front)
  <2>1. r = IF ~Running(g) THEN g ELSE IF ~Running(h) THEN h ELSE Advance(m, JUMPDEST)
    BY DEF EnterRun, RunCost
  <2>. HIDE DEF canon, r, info
  <2>2. f.pc \in Nat /\ Len(code) \in Nat
    BY FrameFields, LenProperties
  <2>3. canon \in PCs(code) /\ canon >= f.pc /\ info.plan \in Plans
    BY DEF canon, info
  <2>4. canon \in Nat /\ f.pc <= canon /\ \A q \in f.pc..canon : q \in PCs(code)
    BY <2>2, <2>3 DEF PCs
  <2>5. \A q \in f.pc..canon : cache.cost[q] \in Nat
    BY <2>4
  <2>6. skip \in Nat
    BY <2>2, <2>4, <2>5, RunCostType, Zenon
  <2>. HIDE DEF skip
  <2>7. Calm(f, g)
    BY <2>6, ChargeCalm, Zenon
  <2>. HIDE DEF g
  <2>8. Passes(f, g) /\ Sound(g) /\ g.pc = f.pc /\ g.begin = f.begin
    BY <2>7, TracksFacts, <1>TracksPasses, Zenon DEF Calm, Evolves
  <2>9. Passes(g, g2) /\ g2.pc = canon
    <3>1. canon \in Nat /\ Sound(g)
      BY <2>4, <2>8, Zenon
    <3>. QED BY <3>1, <1>RedirectPasses, Zenon
  <2>. HIDE DEF g2
  <2>10. Sound(g2)
    BY <2>9, Zenon DEF Passes
  <2>11. Passes(g2, h) /\ h.pc = canon /\ ~h.begin
    BY <2>3, <2>9, <2>10, <1>BeginBlockKeeps, Zenon DEF Passes
  <2>. HIDE DEF h
  <2>12. Sound(h) /\ cache.end[h.pc] \in Nat /\ cache.cost[h.pc] \in Nat
    BY <2>3, <2>11 DEF Passes
  <2>13. Passes(h, m) /\ m.pc = canon /\ ~m.begin
    <3>1. /\ Sound(m) /\ m.gas <= h.gas /\ m.pc = h.pc
          /\ m.snap = h.snap /\ m.rev = h.rev /\ m.static = h.static /\ m.deep = h.deep
          /\ (h.static => m.log = h.log) /\ m.msz = h.msz /\ m.mem = h.mem
          /\ (Running(m) => Running(h)) /\ m.begin = h.begin
      BY <2>12, <1>MeterKeeps, Zenon
    <3>. HIDE DEF m
    <3>. QED BY <2>11, <3>1, Zenon DEF Passes
  <2>. HIDE DEF m
  <2>14. Sound(m) /\ JUMPDEST \in Bytes /\ opcodeLen(JUMPDEST) = 1
    BY <2>13 DEF Passes, JUMPDEST, Bytes, opcodeLen, ImmediateSize, PUSH1, PUSH32
  <2>. DEFINE x == Advance(m, JUMPDEST)
  <2>15. /\ Passes(m, x) /\ x.begin = m.begin /\ (Running(x) <=> Running(m))
         /\ x.pc = IF Running(m) THEN canon + 1 ELSE canon
    BY <2>13, <2>14, <1>AdvancePasses, Zenon
  <2>. HIDE DEF x
  <2>16. Passes(f, h)
    BY <2>8, <2>9, <2>11, <1>PassesTransitive, Zenon
  <2>17. Passes(f, m)
    BY <2>13, <2>16, <1>PassesTransitive, Zenon
  <2>18. Passes(f, x)
    BY <2>15, <2>17, <1>PassesTransitive, Zenon
  <2>19. r = g \/ r = h \/ r = x
    BY <2>1 DEF x
  <2>20. Running(r) => r = x
    BY <2>1, Zenon DEF x
  <2>21. /\ Passes(f, r)
         /\ Running(r) => r.pc = canon + 1 /\ ~r.begin
         /\ r.pc \in {f.pc, canon, canon + 1}
         /\ ~Running(r) => r.pc \in {f.pc, canon}
    BY <2>8, <2>11, <2>13, <2>15, <2>16, <2>18, <2>19, <2>20, Zenon
  <2>. QED BY <2>21, Zenon DEF r, canon
(* Moving a Passes along a Calm or a Tracks part. *)
<1>PassesOn.
      ASSUME NEW f, NEW g, NEW h, Sound(f), Passes(f, g), Tracks(g, h)
      PROVE  Passes(f, h) /\ h.pc = g.pc /\ h.begin = g.begin
  <2>. USE <1>PassesOn
  <2>1. Passes(g, h)
    BY <1>TracksPasses, Zenon
  <2>2. Passes(f, h)
    BY <2>1, <1>PassesTransitive, Zenon
  <2>. QED BY <2>2, Zenon DEF Tracks, Grows, Evolves
(* The head of an instruction of compiled code: the block's check where a
   block begins, then the charge of the chunk that starts there. *)
<1>HeadPasses.
      ASSUME NEW code \in Seq(Bytes), NEW cache, NEW front, NEW f, Sound(f),
             f.begin => front.blocks[f.pc].plan \in Plans
      PROVE  LET b == IF f.begin THEN handleBeginBlock(f, front.blocks[f.pc]) ELSE f
                 m == meterOpcode(b, cache)
             IN  /\ Passes(f, b) /\ b.pc = f.pc /\ ~b.begin
                 /\ cache.end[f.pc] \in Nat /\ cache.cost[f.pc] \in Nat =>
                      Passes(f, m) /\ m.pc = f.pc /\ ~m.begin
  <2>. USE <1>HeadPasses
  <2>. DEFINE b == IF f.begin THEN handleBeginBlock(f, front.blocks[f.pc]) ELSE f
              m == meterOpcode(b, cache)
  <2>1. Passes(f, b) /\ b.pc = f.pc /\ ~b.begin
    <3>1. CASE f.begin
      <4>1. b = handleBeginBlock(f, front.blocks[f.pc])
        BY <3>1
      <4>. HIDE DEF b
      <4>2. front.blocks[f.pc].plan \in Plans
        BY <3>1
      <4>. QED BY <4>1, <4>2, <1>BeginBlockKeeps, Zenon DEF Passes
    <3>2. CASE ~f.begin
      <4>1. b = f /\ f.gas <= f.gas
        BY <3>2, FrameFields
      <4>. HIDE DEF b
      <4>. QED BY <3>2, <4>1, Zenon DEF Passes
    <3>. QED BY <3>1, <3>2, Zenon
  <2>. HIDE DEF b
  <2>2. ASSUME cache.end[f.pc] \in Nat, cache.cost[f.pc] \in Nat
        PROVE  Passes(f, m) /\ m.pc = f.pc /\ ~m.begin
    <3>1. Sound(b) /\ cache.end[b.pc] \in Nat /\ cache.cost[b.pc] \in Nat
      BY <2>1, <2>2, Zenon DEF Passes
    <3>2. /\ Sound(m) /\ m.gas <= b.gas /\ m.pc = b.pc
          /\ m.snap = b.snap /\ m.rev = b.rev /\ m.static = b.static /\ m.deep = b.deep
          /\ (b.static => m.log = b.log) /\ m.msz = b.msz /\ m.mem = b.mem
          /\ (Running(m) => Running(b)) /\ m.begin = b.begin
      BY <3>1, <1>MeterKeeps, Zenon
    <3>. HIDE DEF m
    <3>3. Passes(b, m)
      BY <3>2, Zenon DEF Passes
    <3>4. Passes(f, m)
      BY <2>1, <3>3, <1>PassesTransitive, Zenon
    <3>. QED BY <2>1, <3>2, <3>4, Zenon
  <2>3. /\ Passes(f, b) /\ b.pc = f.pc /\ ~b.begin
        /\ cache.end[f.pc] \in Nat /\ cache.cost[f.pc] \in Nat =>
             Passes(f, m) /\ m.pc = f.pc /\ ~m.begin
    BY <2>1, <2>2, Zenon
  <2>. QED BY <2>3, Zenon DEF b
<1>. DEFINE Premises(cache, front, in, f, code) ==
              /\ Answer(in) /\ Sound(f) /\ Running(f) /\ cache.dests \in SUBSET Nat
              /\ cache.end \in [PCs(code) -> Nat] /\ cache.cost \in [PCs(code) -> Nat]
              /\ f.pc < Len(code) /\ Byte(code, f.pc) = JUMPDEST =>
                   /\ front.canon[f.pc] \in PCs(code) /\ front.canon[f.pc] >= f.pc
                   /\ front.blocks[front.canon[f.pc]].plan \in Plans
              /\ f.begin /\ ~(f.pc < Len(code) /\ Byte(code, f.pc) = JUMPDEST) =>
                   front.blocks[f.pc].plan \in Plans
            Promise(cache, front, in, f, code) ==
              LET r == JitExecute(f, code, cache, front, in)
                  op == Byte(code, f.pc)
                  canon == front.canon[f.pc]
              IN  /\ Passes(f, r)
                  /\ ~Running(r) =>
                       r.pc = f.pc \/ (f.pc < Len(code) /\ op = JUMPDEST /\ r.pc = canon)
                  /\ Running(r) =>
                       /\ f.pc < Len(code) /\ Defined(op, f.rev) /\ op \notin EndOps
                       /\ \/ r.pc \in cache.dests
                          \/ op = JUMPDEST /\ r.pc = canon + 1 /\ ~r.begin
                          \/ op \notin {JUMP, JUMPDEST} /\ r.pc = f.pc + opcodeLen(op)
                               /\ (r.begin => op = JUMPI)
<1>Main. ASSUME NEW cache, NEW front, NEW in, NEW f, NEW code \in Seq(Bytes),
                Premises(cache, front, in, f, code)
         PROVE  Promise(cache, front, in, f, code)
  <2>. USE <1>Main
  <2>. DEFINE op == Byte(code, f.pc)
              canon == front.canon[f.pc]
              b == IF f.begin THEN handleBeginBlock(f, front.blocks[f.pc]) ELSE f
              m == meterOpcode(b, cache)
              p == StackPop(m, Required(op))
              a == SubSeq(m.stack, 1, Required(op))
              value == loadPushValue(code, f.pc)
              r == JitExecute(f, code, cache, front, in)
              Goal(x) ==
                /\ Passes(f, x)
                /\ ~Running(x) =>
                     x.pc = f.pc \/ (f.pc < Len(code) /\ op = JUMPDEST /\ x.pc = canon)
                /\ Running(x) =>
                     /\ f.pc < Len(code) /\ Defined(op, f.rev) /\ op \notin EndOps
                     /\ \/ x.pc \in cache.dests
                        \/ op = JUMPDEST /\ x.pc = canon + 1 /\ ~x.begin
                        \/ op \notin {JUMP, JUMPDEST} /\ x.pc = f.pc + opcodeLen(op)
                             /\ (x.begin => op = JUMPI)
  <2>1. r = IF f.pc >= Len(code) THEN Stop(b)
            ELSE IF op = JUMPDEST THEN EnterRun(f, cache, front)
            ELSE IF ~Running(b) THEN b
            ELSE IF ~Defined(op, f.rev) THEN Fail(b, "UNDEFINED_INSTRUCTION")
            ELSE IF ~Running(p) THEN p
            ELSE IF op = JUMP THEN handleJump(p, a[1], cache.dests)
            ELSE IF op = JUMPI THEN handleJumpI(p, a, cache.dests)
            ELSE Advance(handleOpcode(p, op, a, value, in), op)
    BY Zenon DEF JitExecute
  <2>2. /\ f.pc \in Nat /\ Len(code) \in Nat
        /\ f.pc < Len(code) <=> ~(f.pc >= Len(code))
    BY FrameFields, LenProperties
  <2>. SUFFICES Goal(r)
    BY Zenon
  <2>. HIDE DEF r, b, m, p, a, value
  <2>3. CASE f.pc < Len(code) /\ op = JUMPDEST
    <3>1. r = EnterRun(f, cache, front)
      BY <2>1, <2>2, <2>3, Zenon
    <3>2. /\ front.canon[f.pc] \in PCs(code) /\ front.canon[f.pc] >= f.pc
          /\ front.blocks[front.canon[f.pc]].plan \in Plans
      BY <2>3
    <3>3. Defined(op, f.rev) /\ op \notin EndOps
      BY <2>3 DEF Defined, EndOps, JUMPDEST, STOP, INVALID, RETURN, REVERT, SELFDESTRUCT,
                  BASEFEE, PUSH0, TLOAD, TSTORE, MCOPY, BLOBHASH, BLOBBASEFEE, CLZ
    <3>. HIDE DEF op, Goal
    <3>4. /\ Passes(f, r)
          /\ Running(r) => r.pc = front.canon[f.pc] + 1 /\ ~r.begin
          /\ ~Running(r) => r.pc \in {f.pc, front.canon[f.pc]}
      <4>. DEFINE x == EnterRun(f, cache, front)
      <4>1. /\ Passes(f, x)
            /\ Running(x) => x.pc = front.canon[f.pc] + 1 /\ ~x.begin
            /\ ~Running(x) => x.pc \in {f.pc, front.canon[f.pc]}
        BY <3>2, <1>EnterRunPasses, Zenon
      <4>. HIDE DEF x
      <4>. QED BY <3>1, <4>1, Zenon DEF x
    <3>. QED BY <2>3, <3>3, <3>4, Zenon DEF Goal
  <2>4. CASE ~(f.pc < Len(code) /\ op = JUMPDEST)
    <3>1. f.begin => front.blocks[f.pc].plan \in Plans
      BY <2>4
    <3>2. /\ Passes(f, b) /\ b.pc = f.pc /\ ~b.begin
          /\ cache.end[f.pc] \in Nat /\ cache.cost[f.pc] \in Nat =>
               Passes(f, m) /\ m.pc = f.pc /\ ~m.begin
      BY <3>1, <1>HeadPasses, Zenon DEF b, m
    <3>3. Sound(b)
      BY <3>2, Zenon DEF Passes
    <3>4. CASE f.pc >= Len(code)
      <4>1. r = Stop(b)
        BY <2>1, <3>4, Zenon
      <4>2. ~Running(r)
        BY <3>3, <4>1 DEF Stop, Running, Sound, Frames
      <4>3. Tracks(b, r)
        BY <3>3, <4>1, StopCalm, TracksFacts, Zenon
      <4>4. Passes(f, r) /\ r.pc = f.pc
        BY <3>2, <4>3, <1>PassesOn, Zenon
      <4>. QED BY <4>2, <4>4, Zenon
    <3>5. CASE f.pc < Len(code) /\ (~Running(b) \/ ~Defined(op, f.rev))
      <4>1. r = b \/ r = Fail(b, "UNDEFINED_INSTRUCTION")
        BY <2>1, <2>2, <2>4, <3>5, Zenon
      <4>2. ~Running(r)
        <5>1. ~Running(Fail(b, "UNDEFINED_INSTRUCTION"))
          BY <3>3 DEF Fail, Running, Sound, Frames
        <5>. QED BY <2>1, <2>2, <2>4, <3>5, <5>1, Zenon
      <4>3. Tracks(b, r)
        BY <3>3, <4>1, FailCalm, CalmReflexive, TracksFacts, Zenon DEF Statuses
      <4>4. Passes(f, r) /\ r.pc = f.pc
        BY <3>2, <4>3, <1>PassesOn, Zenon
      <4>. QED BY <4>2, <4>4, Zenon
    <3>6. CASE f.pc < Len(code) /\ Running(b) /\ Defined(op, f.rev)
      <4>1. f.pc \in PCs(code)
        BY <2>2, <3>6 DEF PCs
      <4>2. op \in Bytes /\ opcodeLen(op) \in 1..33 /\ Required(op) \in 0..17
        BY <4>1, ByteType, MetricsType, Zenon
      <4>3. value \in Nat
        <5>1. value \in 0..(WordMod - 1) /\ WordMod \in Nat
          BY <4>1, PushValueType, CodeAssumption, Zenon DEF value
        <5>. QED BY <5>1
      <4>4. Required(op) \in Nat /\ cache.end[f.pc] \in Nat /\ cache.cost[f.pc] \in Nat
        <5>1. \A x \in 0..17 : x \in Nat
          OBVIOUS
        <5>2. Required(op) \in Nat
          BY <4>2, <5>1, Zenon
        <5>3. cache.end[f.pc] \in Nat /\ cache.cost[f.pc] \in Nat
          BY <4>1, Zenon
        <5>. QED BY <5>2, <5>3, Zenon
      <4>5. Passes(f, m) /\ m.pc = f.pc /\ ~m.begin /\ Sound(m)
        BY <3>2, <4>4, Zenon DEF Passes
      <4>6. CASE ~Running(m)
        <5>1. p = m
          BY <4>6 DEF p, StackPop, Corrupt, Drop
        <5>2. r = m
          BY <2>1, <2>2, <2>4, <3>6, <4>6, <5>1, Zenon
        <5>. QED BY <4>5, <4>6, <5>2, Zenon
      <4>7. CASE Running(m)
        <5>1. /\ Calm(m, p)
              /\ Running(p) => /\ a \in Seq(Nat) /\ Len(a) = Required(op)
                               /\ Len(a) + Len(p.stack) <= MaxStack
          BY <4>4, <4>5, <4>7, StackPopCalm, Zenon DEF p, a
        <5>2. r = IF ~Running(p) THEN p
                  ELSE IF op = JUMP THEN handleJump(p, a[1], cache.dests)
                  ELSE IF op = JUMPI THEN handleJumpI(p, a, cache.dests)
                  ELSE Advance(handleOpcode(p, op, a, value, in), op)
          BY <2>1, <2>2, <2>4, <3>6, Zenon
        <5>3. Passes(f, p) /\ p.pc = f.pc /\ ~p.begin /\ Sound(p)
          <6>1. Tracks(m, p)
            BY <5>1, TracksFacts, Zenon
          <6>2. Passes(f, p) /\ p.pc = m.pc /\ p.begin = m.begin
            BY <4>5, <6>1, <1>PassesOn, Zenon
          <6>. QED BY <4>5, <6>2, Zenon DEF Passes
        <5>4. CASE ~Running(p)
          BY <5>2, <5>3, <5>4, Zenon
        <5>5. CASE Running(p) /\ (op = JUMP \/ (op = JUMPI /\ a[2] # 0))
          <6>1. r = JumpTo(p, a[1], cache.dests)
            BY <5>2, <5>5 DEF handleJump, handleJumpI
          <6>2. op \notin EndOps
            BY <5>5 DEF JUMP, JUMPI, EndOps, STOP, INVALID, RETURN, REVERT, SELFDESTRUCT
          <6>3. /\ Passes(p, r)
                /\ Running(r) => r.pc \in cache.dests
                /\ ~Running(r) => r.pc = p.pc
            BY <5>3, <5>5, <6>1, <1>JumpPasses, Zenon
          <6>4. Passes(f, r)
            BY <5>3, <6>3, <1>PassesTransitive, Zenon
          <6>. QED BY <3>6, <5>3, <6>2, <6>3, <6>4, Zenon
        <5>6. CASE Running(p) /\ op = JUMPI /\ a[2] = 0
          <6>1. op # JUMP /\ op # JUMPDEST /\ op \notin EndOps /\ opcodeLen(op) = 1
            BY <5>6 DEF JUMP, JUMPI, JUMPDEST, EndOps, STOP, INVALID, RETURN, REVERT,
                        SELFDESTRUCT, opcodeLen, ImmediateSize, PUSH1, PUSH32
          <6>. DEFINE q == f.pc + 1
                      z == [p EXCEPT !.pc = q, !.begin = TRUE]
          <6>2. r = z
            <7>1. r = handleJumpI(p, a, cache.dests)
              BY <5>2, <5>6, <6>1, Zenon
            <7>2. handleJumpI(p, a, cache.dests)
                    = [p EXCEPT !.pc = p.pc + 1, !.begin = TRUE]
              BY <5>6, Zenon DEF handleJumpI
            <7>. QED BY <5>3, <7>1, <7>2, Zenon
          <6>3. q \in Nat
            BY <2>2
          <6>. HIDE DEF q
          <6>4. Passes(p, z) /\ z.pc = q
            BY <5>3, <6>3, <1>RedirectBegins, Zenon
          <6>5. Running(z)
            BY <5>3, <5>6 DEF Running, Sound, Frames
          <6>. HIDE DEF z
          <6>6. Passes(f, z)
            BY <5>3, <6>4, <1>PassesTransitive, Zenon
          <6>. QED BY <3>6, <5>6, <6>1, <6>2, <6>4, <6>5, <6>6, Zenon DEF q
        <5>7. CASE Running(p) /\ op \notin {JUMP, JUMPI}
          <6>. DEFINE h == handleOpcode(p, op, a, value, in)
          <6>1. r = Advance(h, op)
            BY <5>2, <5>7
          <6>2. Tracks(p, h) /\ (op \in EndOps => ~Running(h))
            BY <4>2, <4>3, <5>1, <5>3, <5>7, EmittedTracks, Zenon
          <6>. HIDE DEF h
          <6>3. Passes(f, h) /\ h.pc = f.pc /\ ~h.begin /\ Sound(h)
            <7>1. Passes(f, h) /\ h.pc = p.pc /\ h.begin = p.begin
              BY <5>3, <6>2, <1>PassesOn, Zenon
            <7>. QED BY <5>3, <7>1, Zenon DEF Passes
          <6>4. /\ Passes(h, r) /\ r.begin = h.begin /\ (Running(r) <=> Running(h))
                /\ r.pc = IF Running(h) THEN f.pc + opcodeLen(op) ELSE f.pc
            BY <4>2, <6>1, <6>3, <1>AdvancePasses, Zenon
          <6>5. Passes(f, r)
            BY <6>3, <6>4, <1>PassesTransitive, Zenon
          <6>6. op \notin {JUMP, JUMPDEST}
            BY <2>4, <3>6, <5>7, Zenon
          <6>. QED BY <3>6, <6>2, <6>3, <6>4, <6>5, <6>6, Zenon
        <5>. QED BY <5>4, <5>5, <5>6, <5>7, Zenon
      <4>. QED BY <4>6, <4>7, Zenon
    <3>. QED BY <2>2, <3>4, <3>5, <3>6, Zenon
  <2>. QED BY <2>3, <2>4, Zenon
<1>. HIDE DEF Premises, Promise
<1>All. \A cache, front, in, f : \A code \in Seq(Bytes) :
         Premises(cache, front, in, f, code) => Promise(cache, front, in, f, code)
  BY <1>Main, Zenon
<1>. QED BY <1>All, Zenon DEF Premises, Promise
-----------------------------------------------------------------------------
(* Whatever the host answers is an answer the handlers understand. *)
LEMMA AnswersType ==
  ASSUME NEW op, NEW in \in Answers(op)
  PROVE  Answer(in)
<1>. DEFINE Ok(S) == \A i \in S : Answer(i)
            QA(w, c) == [Quiet EXCEPT !.word = w, !.cold = c]
            QB(s, c) == [Quiet EXCEPT !.status = s, !.cold = c]
            QE(c, p, m, k) == [Quiet EXCEPT !.cold = c, !.poor = p, !.missing = m, !.ok = k]
<1>1. Words \subseteq Nat
  BY ExecAssumption
<1>2. Answer(Quiet)
  BY DEF Quiet, Answer
<1>3. ASSUME NEW w \in Words, NEW c \in BOOLEAN PROVE Answer(QA(w, c))
  BY <1>1 DEF Quiet, Answer
<1>4. ASSUME NEW s \in SStatuses, NEW c \in BOOLEAN PROVE Answer(QB(s, c))
  BY DEF Quiet, Answer
<1>5. ASSUME NEW c \in BOOLEAN, NEW p \in BOOLEAN, NEW m \in BOOLEAN, NEW k \in BOOLEAN
      PROVE  Answer(QE(c, p, m, k))
  BY DEF Quiet, Answer
<1>6. Ok(CallAnswers) /\ Ok(CreateAnswers)
  BY ExecAssumption, Zenon DEF Answer, CallAnswers, CreateAnswers
<1>7. /\ QueryAnswers = {QA(w, c) : w \in Words, c \in BOOLEAN}
      /\ StoreAnswers = {QB(s, c) : s \in SStatuses, c \in BOOLEAN}
      /\ DestructAnswers = {QE(c, p, m, k) : c, p, m, k \in BOOLEAN}
  BY DEF QueryAnswers, StoreAnswers, DestructAnswers
<1>. HIDE DEF QA, QB, QE
<1>8. Ok({Quiet}) /\ Ok(QueryAnswers) /\ Ok(StoreAnswers) /\ Ok(DestructAnswers)
  BY <1>2, <1>3, <1>4, <1>5, <1>7
<1>. HIDE DEF Ok
<1>9. Ok(Answers(op))
  BY <1>6, <1>8 DEF Answers
<1>. QED BY <1>9 DEF Ok
-----------------------------------------------------------------------------
(* Where control may be. *)
AtInstruction(f) == f.pc < Len(prog.code) => f.pc \in InstrStarts(prog.code)

AfterJumpI ==
  {q + 1 : q \in {r \in LiveStarts(prog.code, prog.rev) :
                    r < Len(prog.code) /\ Byte(prog.code, r) = JUMPI}}

(* A frame of this call. *)
InCall(f) ==
  /\ Sound(f) /\ f.rev = prog.rev /\ f.static = call.static
  /\ f.static => f.log = <<>>
  /\ AtInstruction(f)

(* Compiled code: the cached size is the instance's, control is at code that
   was compiled, and a block begins only where the analysis has one. *)
InCompiledCode(f) ==
  /\ f.msz = f.mem
  /\ f.pc <= Len(prog.code) => f.pc \in LiveStarts(prog.code, prog.rev)
  /\ f.begin => f.pc \in {0} \cup AfterJumpI \cup JumpDests(prog.code)

Inv ==
  /\ \E m \in Messages : prog = m[1] /\ call = m[2]
  /\ engine \in {"interp", "jit"}
  /\ InCall(eng) /\ InCall(ref)
  /\ engine = "jit" /\ Running(eng) => InCompiledCode(eng)

(* What the assumption says of the program that is running. *)
LEMMA ProgramFacts ==
  ASSUME Inv
  PROVE  /\ prog.code \in Seq(Bytes) /\ prog.rev \in Nat /\ Len(prog.code) \in Nat
         /\ ChunksSound(prog) /\ FrontSound(prog)
         /\ prog.cache.dests = JumpDests(prog.code)
         /\ prog.cache.dests \in SUBSET Nat
         /\ prog.cache.end \in [PCs(prog.code) -> Nat]
         /\ prog.cache.cost \in [PCs(prog.code) -> Nat]
         /\ JumpDests(prog.code) \subseteq InstrStarts(prog.code)
         /\ InstrStarts(prog.code) \subseteq PCs(prog.code)
<1>1. prog \in {m[1] : m \in Messages}
  BY Zenon DEF Inv
<1>2. prog.code \in Seq(Bytes) /\ prog.rev \in Nat /\ ChunksSound(prog) /\ FrontSound(prog)
  BY <1>1, ExecAssumption, Zenon
<1>3. Len(prog.code) \in Nat
  BY <1>2, LenProperties
<1>4. /\ prog.cache.dests = JumpDests(prog.code)
      /\ prog.cache.end \in [PCs(prog.code) -> Nat]
      /\ prog.cache.cost \in [PCs(prog.code) -> Nat]
  BY <1>2, Zenon DEF ChunksSound
<1>5. JumpDests(prog.code) \subseteq InstrStarts(prog.code)
  BY Zenon DEF JumpDests
<1>6. InstrStarts(prog.code) \subseteq PCs(prog.code)
  BY <1>2, InstrStartsClosed, Zenon
<1>7. PCs(prog.code) \subseteq Nat
  BY <1>3 DEF PCs
<1>8. JumpDests(prog.code) \in SUBSET Nat
  BY <1>5, <1>6, <1>7, Zenon
<1>. QED BY <1>2, <1>3, <1>4, <1>5, <1>6, <1>8, Zenon

(* Every call of the runtime starts within the invariant. *)
LEMMA InitInv == Init => Inv
<1>. SUFFICES ASSUME Init PROVE Inv
  OBVIOUS
<1>1. PICK m \in Messages : prog = m[1] /\ call = m[2]
  BY DEF Init
<1>2. /\ prog.code \in Seq(Bytes) /\ prog.rev \in Nat
      /\ call.gas \in Nat /\ call.refund \in Int /\ call.static \in BOOLEAN
      /\ call.deep \in BOOLEAN
  BY <1>1, ExecAssumption
<1>. DEFINE s == StartFrame(prog, call)
<1>3. eng = s /\ ref = s /\ engine \in {"interp", "jit"}
  BY DEF Init
<1>4. NoPlan \in Plans /\ "running" \in Statuses /\ <<>> \in Seq(Nat)
  BY DEF NoPlan, Plans, Statuses
<1>5. s \in Frames
  BY <1>2, <1>4 DEF StartFrame, Frames
<1>6. /\ s.pc = 0 /\ s.stack = <<>> /\ s.mem = 0 /\ s.msz = 0 /\ s.rev = prog.rev
      /\ s.static = call.static /\ s.log = <<>> /\ s.begin = TRUE
  BY DEF StartFrame
<1>. HIDE DEF s
<1>7. Sound(s)
  BY <1>5, <1>6, CodeAssumption DEF Sound
<1>8. Len(prog.code) \in Nat
  BY <1>2, LenProperties
<1>9. AtInstruction(s)
  <2>1. Len(prog.code) > 0 => 0 \in InstrStarts(prog.code)
    BY <1>2, InstrStartsClosed, Zenon
  <2>2. s.pc < Len(prog.code) => Len(prog.code) > 0
    BY <1>6, <1>8
  <2>. QED BY <1>6, <2>1, <2>2, Zenon DEF AtInstruction
<1>10. InCompiledCode(s)
  <2>1. 0 \in LiveStarts(prog.code, prog.rev)
    BY <1>2, LiveStartsClosed, Zenon
  <2>. QED BY <1>6, <2>1, Zenon DEF InCompiledCode
<1>. QED BY <1>1, <1>3, <1>6, <1>7, <1>9, <1>10, Zenon DEF Inv, InCall

(* Control that falls to the next instruction or jumps to a JUMPDEST stays
   on instructions. *)
LEMMA StaysAtInstruction ==
  ASSUME Inv, NEW f, f.pc \in Nat, AtInstruction(f), NEW p,
         \/ p = f.pc
         \/ p \in JumpDests(prog.code)
         \/ f.pc \in PCs(prog.code) /\ p = f.pc + opcodeLen(Byte(prog.code, f.pc))
  PROVE  p < Len(prog.code) => p \in InstrStarts(prog.code)
<1>1. prog.code \in Seq(Bytes) /\ JumpDests(prog.code) \subseteq InstrStarts(prog.code)
      /\ Len(prog.code) \in Nat
  BY ProgramFacts, Zenon
<1>2. CASE f.pc \in PCs(prog.code) /\ p = f.pc + opcodeLen(Byte(prog.code, f.pc))
  <2>1. f.pc < Len(prog.code)
    BY <1>1, <1>2 DEF PCs
  <2>2. f.pc \in InstrStarts(prog.code)
    BY <2>1, Zenon DEF AtInstruction
  <2>. QED BY <1>1, <1>2, <2>2, InstrStartsClosed, Zenon
<1>. QED BY <1>1, <1>2, Zenon DEF AtInstruction

(* A step of the reference. *)
LEMMA RefStep ==
  ASSUME Inv, Running(ref), NEW in, Answer(in)
  PROVE  LET g == SlowPath(ref, prog.code, prog.cache.dests, in)
         IN  /\ InCall(g) /\ g.gas <= ref.gas
             /\ Running(g) => g.gas < ref.gas \/ g.pc > ref.pc
<1>. DEFINE g == SlowPath(ref, prog.code, prog.cache.dests, in)
            op == Byte(prog.code, ref.pc)
<1>1. Sound(ref) /\ ref.pc \in Nat /\ AtInstruction(ref)
  BY FrameFields, Zenon DEF Inv, InCall
<1>2. /\ Moves(ref, g, op, prog.cache.dests)
      /\ Running(g) => ref.pc \in PCs(prog.code) /\ (g.gas < ref.gas \/ g.pc > ref.pc)
  BY <1>1, ProgramFacts, SlowPathMoves, Zenon
<1>. HIDE DEF g
<1>3. \/ g.pc = ref.pc
      \/ g.pc \in JumpDests(prog.code)
      \/ ref.pc \in PCs(prog.code) /\ g.pc = ref.pc + opcodeLen(op)
  BY <1>2, ProgramFacts, Zenon DEF Moves
<1>4. AtInstruction(g)
  BY <1>1, <1>3, StaysAtInstruction, Zenon DEF AtInstruction
<1>5. InCall(g)
  BY <1>2, <1>4, Zenon DEF Moves, InCall, Inv
<1>6. /\ InCall(g) /\ g.gas <= ref.gas
      /\ Running(g) => g.gas < ref.gas \/ g.pc > ref.pc
  BY <1>2, <1>5, Zenon DEF Moves
<1>. QED BY <1>6, Zenon DEF g

(* A step of the interpreter. *)
LEMMA InterpStep ==
  ASSUME Inv, Running(eng), NEW in, Answer(in)
  PROVE  LET g == interpret(eng, prog.code, prog.cache, in)
         IN  InCall(g) /\ g.gas <= eng.gas
<1>. DEFINE g == interpret(eng, prog.code, prog.cache, in)
            op == Byte(prog.code, eng.pc)
<1>1. Sound(eng) /\ eng.pc \in Nat /\ AtInstruction(eng)
  BY FrameFields, Zenon DEF Inv, InCall
<1>2. /\ Steps(eng, g, op, prog.cache.dests)
      /\ Running(g) => eng.pc \in PCs(prog.code)
  BY <1>1, ProgramFacts, InterpretSteps, Zenon
<1>. HIDE DEF g
<1>3. \/ g.pc = eng.pc
      \/ g.pc \in JumpDests(prog.code)
      \/ eng.pc \in PCs(prog.code) /\ g.pc = eng.pc + opcodeLen(op)
  BY <1>2, ProgramFacts, Zenon DEF Steps
<1>4. AtInstruction(g)
  BY <1>1, <1>3, StaysAtInstruction, Zenon DEF AtInstruction
<1>5. InCall(g)
  BY <1>2, <1>4, Zenon DEF Steps, InCall, Inv
<1>6. InCall(g) /\ g.gas <= eng.gas
  BY <1>2, <1>5, Zenon DEF Steps
<1>. QED BY <1>6, Zenon DEF g

(* What compiled code finds at its counter: the block's information where a
   block begins, the canonical JUMPDEST where a run is entered; the stack
   heights of the block cover its instructions. *)
LEMMA FrontFacts ==
  ASSUME Inv, Running(eng), engine = "jit"
  PROVE  LET code == prog.code
             canon == prog.front.canon[eng.pc]
             AtDest == eng.pc < Len(code) /\ Byte(code, eng.pc) = JUMPDEST
         IN  /\ AtDest => /\ canon \in JumpDests(code) /\ canon >= eng.pc
                          /\ prog.front.blocks[canon].plan \in Plans
                          /\ CoversBlock(code, prog.rev, prog.front.blocks[canon], canon + 1)
             /\ eng.begin /\ ~AtDest =>
                  /\ prog.front.blocks[eng.pc].plan \in Plans
                  /\ CoversBlock(code, prog.rev, prog.front.blocks[eng.pc], eng.pc)
<1>. DEFINE code == prog.code
            dests == JumpDests(code)
            AtDest == eng.pc < Len(code) /\ Byte(code, eng.pc) = JUMPDEST
<1>1. AtDest => eng.pc \in dests
  BY Zenon DEF Inv, InCall, AtInstruction, JumpDests
<1>2. eng.pc \in dests => AtDest
  <2>1. \A q \in PCs(code) : q < Len(code)
    BY ProgramFacts DEF PCs
  <2>. QED BY <2>1, ProgramFacts, Zenon DEF JumpDests
<1>. DEFINE Good(info, pc) == info.plan \in Plans /\ CoversBlock(code, prog.rev, info, pc)
<1>3. /\ \A d \in dests :
           /\ prog.front.canon[d] \in dests /\ prog.front.canon[d] >= d
           /\ Good(prog.front.blocks[prog.front.canon[d]], prog.front.canon[d] + 1)
      /\ \A e \in ({0} \cup AfterJumpI) \ dests : Good(prog.front.blocks[e], e)
  BY ProgramFacts, Zenon DEF FrontSound, AfterJumpI, CoversBlock
<1>4. eng.begin => eng.pc \in {0} \cup AfterJumpI \cup dests
  BY Zenon DEF Inv, InCompiledCode
<1>. HIDE DEF dests, AtDest, Good
<1>5. eng.begin /\ ~AtDest => Good(prog.front.blocks[eng.pc], eng.pc)
  BY <1>2, <1>3, <1>4, Zenon
<1>6. AtDest => /\ prog.front.canon[eng.pc] \in dests /\ prog.front.canon[eng.pc] >= eng.pc
                /\ Good(prog.front.blocks[prog.front.canon[eng.pc]], prog.front.canon[eng.pc] + 1)
  BY <1>1, <1>3, Zenon
<1>. QED BY <1>5, <1>6, Zenon DEF AtDest, dests, Good

(* Where a step of compiled code leads. *)
LEMMA JitStepPasses ==
  ASSUME Inv, Running(eng), engine = "jit", NEW in, Answer(in)
  PROVE  LET g == JitExecute(eng, prog.code, prog.cache, prog.front, in)
             code == prog.code
             op == Byte(code, eng.pc)
             canon == prog.front.canon[eng.pc]
         IN  /\ Passes(eng, g)
             /\ ~Running(g) => \/ g.pc = eng.pc
                               \/ eng.pc < Len(code) /\ op = JUMPDEST /\ g.pc = canon
             /\ Running(g) =>
                  /\ eng.pc < Len(code) /\ Defined(op, eng.rev) /\ op \notin EndOps
                  /\ \/ g.pc \in JumpDests(code)
                     \/ op = JUMPDEST /\ g.pc = canon + 1 /\ ~g.begin
                     \/ op \notin {JUMP, JUMPDEST} /\ g.pc = eng.pc + opcodeLen(op)
                          /\ (g.begin => op = JUMPI)
<1>. DEFINE code == prog.code
            op == Byte(code, eng.pc)
            canon == prog.front.canon[eng.pc]
            AtDest == eng.pc < Len(code) /\ op = JUMPDEST
<1>1. Sound(eng)
  BY Zenon DEF Inv, InCall
<1>2. /\ code \in Seq(Bytes) /\ prog.cache.dests = JumpDests(code)
      /\ JumpDests(code) \subseteq PCs(code) /\ prog.cache.dests \in SUBSET Nat
      /\ prog.cache.end \in [PCs(code) -> Nat] /\ prog.cache.cost \in [PCs(code) -> Nat]
  BY ProgramFacts, Zenon
<1>3. /\ AtDest => /\ canon \in PCs(code) /\ canon >= eng.pc
                   /\ prog.front.blocks[canon].plan \in Plans
      /\ eng.begin /\ ~AtDest => prog.front.blocks[eng.pc].plan \in Plans
  BY <1>2, FrontFacts, Zenon
<1>. DEFINE g == JitExecute(eng, code, prog.cache, prog.front, in)
            Leads(dests) ==
              /\ Passes(eng, g)
              /\ ~Running(g) => g.pc = eng.pc \/ (AtDest /\ g.pc = canon)
              /\ Running(g) =>
                   /\ eng.pc < Len(code) /\ Defined(op, eng.rev) /\ op \notin EndOps
                   /\ \/ g.pc \in dests
                      \/ op = JUMPDEST /\ g.pc = canon + 1 /\ ~g.begin
                      \/ op \notin {JUMP, JUMPDEST} /\ g.pc = eng.pc + opcodeLen(op)
                           /\ (g.begin => op = JUMPI)
<1>4. Leads(prog.cache.dests)
  BY <1>1, <1>2, <1>3, JitExecutePasses, Zenon
<1>. HIDE DEF Leads
<1>5. Leads(JumpDests(code))
  BY <1>2, <1>4, Zenon
<1>. QED BY <1>5, Zenon DEF Leads

(* A step of compiled code. *)
LEMMA JitStep ==
  ASSUME Inv, Running(eng), engine = "jit", NEW in, Answer(in)
  PROVE  LET g == JitExecute(eng, prog.code, prog.cache, prog.front, in)
         IN  InCall(g) /\ g.gas <= eng.gas /\ (Running(g) => InCompiledCode(g))
<1>. DEFINE g == JitExecute(eng, prog.code, prog.cache, prog.front, in)
            code == prog.code
            op == Byte(code, eng.pc)
            canon == prog.front.canon[eng.pc]
            dests == JumpDests(code)
            live == LiveStarts(code, prog.rev)
            AtDest == eng.pc < Len(code) /\ op = JUMPDEST
<1>1. Sound(eng) /\ eng.pc \in Nat /\ AtInstruction(eng) /\ eng.rev = prog.rev
  BY FrameFields, Zenon DEF Inv, InCall
<1>2. AtDest => canon \in dests /\ canon >= eng.pc
  BY FrontFacts, Zenon
<1>3. dests \subseteq PCs(code) /\ code \in Seq(Bytes) /\ Len(code) \in Nat
  BY ProgramFacts, Zenon
<1>4. /\ Passes(eng, g)
      /\ ~Running(g) => g.pc = eng.pc \/ (AtDest /\ g.pc = canon)
      /\ Running(g) =>
           /\ eng.pc < Len(code) /\ Defined(op, eng.rev) /\ op \notin EndOps
           /\ \/ g.pc \in dests
              \/ op = JUMPDEST /\ g.pc = canon + 1 /\ ~g.begin
              \/ op \notin {JUMP, JUMPDEST} /\ g.pc = eng.pc + opcodeLen(op)
                   /\ (g.begin => op = JUMPI)
  BY JitStepPasses, Zenon
<1>. HIDE DEF g
<1>5. eng.static = call.static /\ (eng.static => eng.log = <<>>)
  BY Zenon DEF Inv, InCall
<1>6. eng.msz = eng.mem /\ (eng.pc < Len(code) => eng.pc \in live)
  BY <1>1, <1>3 DEF Inv, InCompiledCode
<1>7. Running(g) => g.msz = g.mem
  BY <1>4, <1>6, Zenon DEF Passes
<1>. DEFINE Fine(p) == /\ p < Len(code) => p \in InstrStarts(code)
                       /\ Running(g) => /\ p <= Len(code) => p \in live
                                        /\ g.begin => p \in {0} \cup AfterJumpI \cup dests
<1>8. ASSUME NEW p \in dests PROVE Fine(p)
  BY <1>3, ProgramFacts, LiveStartsClosed, Zenon
<1>9. Fine(g.pc)
  <2>1. CASE ~Running(g)
    <3>1. CASE g.pc = eng.pc
      BY <1>1, <2>1, <3>1, Zenon DEF AtInstruction
    <3>2. CASE AtDest /\ g.pc = canon
      BY <1>2, <1>8, <3>2, Zenon
    <3>. QED BY <1>4, <2>1, <3>1, <3>2, Zenon
  <2>2. CASE g.pc \in dests
    BY <1>8, <2>2, Zenon
  <2>3. CASE Running(g) /\ op = JUMPDEST /\ g.pc = canon + 1 /\ ~g.begin
    <3>1. AtDest /\ canon \in dests
      BY <1>2, <1>4, <2>3, Zenon
    <3>2. Byte(code, canon) = JUMPDEST /\ canon \in PCs(code) /\ canon \in InstrStarts(code)
      BY <1>3, <3>1, Zenon DEF JumpDests
    <3>3. opcodeLen(JUMPDEST) = 1 /\ ~EndsInDeadCode(JUMPDEST, prog.rev)
      BY DEF opcodeLen, ImmediateSize, EndsInDeadCode, isBlockTerminator, Defined, JUMPDEST,
             PUSH1, PUSH32, JUMP, STOP, RETURN, INVALID, REVERT, SELFDESTRUCT, BASEFEE,
             PUSH0, TLOAD, TSTORE, MCOPY, BLOBHASH, BLOBBASEFEE, CLZ
    <3>4. canon < Len(code)
      BY <1>3, <3>2 DEF PCs
    <3>. DEFINE q == canon + opcodeLen(Byte(code, canon))
    <3>5. q < Len(code) => q \in InstrStarts(code)
      BY <1>3, <3>2, InstrStartsClosed, Zenon
    <3>6. canon \in live
      BY <1>3, <3>1, LiveStartsClosed, Zenon
    <3>7. ~EndsInDeadCode(Byte(code, canon), prog.rev)
      BY <3>2, <3>3, Zenon
    <3>8. q <= Len(code) => q \in live
      BY <1>3, <3>4, <3>6, <3>7, LiveStartsClosed, Zenon
    <3>9. g.pc = q
      BY <2>3, <3>2, <3>3, Zenon
    <3>. QED BY <2>3, <3>5, <3>8, <3>9, Zenon
  <2>4. CASE Running(g) /\ op \notin {JUMP, JUMPDEST} /\ g.pc = eng.pc + opcodeLen(op)
               /\ (g.begin => op = JUMPI)
    <3>1. eng.pc < Len(code) /\ Defined(op, prog.rev) /\ op \notin EndOps
      BY <1>1, <1>4, <2>4, Zenon
    <3>2. eng.pc \in live /\ eng.pc \in InstrStarts(code)
      BY <1>1, <1>6, <3>1, Zenon DEF AtInstruction
    <3>3. ~EndsInDeadCode(op, prog.rev)
      BY <2>4, <3>1, Zenon DEF EndsInDeadCode, isBlockTerminator, EndOps
    <3>4. g.pc < Len(code) => g.pc \in InstrStarts(code)
      BY <1>3, <2>4, <3>2, InstrStartsClosed, Zenon
    <3>5. g.pc <= Len(code) => g.pc \in live
      BY <1>3, <2>4, <3>1, <3>2, <3>3, LiveStartsClosed, Zenon
    <3>6. opcodeLen(JUMPI) = 1
      BY DEF opcodeLen, ImmediateSize, JUMPI, PUSH1, PUSH32
    <3>7. op = JUMPI => g.pc = eng.pc + 1
      BY <2>4, <3>6, Zenon
    <3>8. g.begin => g.pc \in AfterJumpI
      BY <2>4, <3>1, <3>2, <3>7, Zenon DEF AfterJumpI
    <3>. QED BY <3>4, <3>5, <3>8, Zenon
  <2>. QED BY <1>4, <2>1, <2>2, <2>3, <2>4, Zenon
<1>10. InCall(g)
  BY <1>1, <1>4, <1>5, <1>9, Zenon DEF Passes, InCall, AtInstruction
<1>11. Running(g) => InCompiledCode(g)
  BY <1>7, <1>9, Zenon DEF InCompiledCode
<1>12. InCall(g) /\ g.gas <= eng.gas /\ (Running(g) => InCompiledCode(g))
  BY <1>4, <1>10, <1>11, Zenon DEF Passes
<1>. QED BY <1>12, Zenon DEF g

(* The invariant speaks of the new frames as of the old ones: the program,
   the message and the engine of a call never change. *)
LEMMA InvNext ==
  ASSUME Inv, UNCHANGED <<prog, call, engine>>, InCall(eng)', InCall(ref)',
         engine = "jit" /\ Running(eng') => InCompiledCode(eng)'
  PROVE  Inv'
BY Zenon DEF Inv

(* The part of the invariant about one frame holds after a step that
   gives the frame a value satisfying it in the same call. *)
LEMMA InCallNext ==
  ASSUME NEW g, UNCHANGED <<prog, call, engine>>
  PROVE  /\ InCall(g) /\ eng' = g => InCall(eng)'
         /\ InCall(g) /\ ref' = g => InCall(ref)'
         /\ InCompiledCode(g) /\ eng' = g => InCompiledCode(eng)'
BY DEF InCall, InCompiledCode, AtInstruction, AfterJumpI

(* One step of the pair. *)
LEMMA NextInv ==
  ASSUME Inv, [Next]_vars
  PROVE  /\ Inv'
         /\ eng'.gas <= eng.gas /\ ref'.gas <= ref.gas
         /\ ~UNCHANGED vars /\ Running(ref') => ref'.gas < ref.gas \/ ref'.pc > ref.pc
<1>0. /\ Sound(eng) /\ Sound(ref) /\ eng.gas \in Nat /\ ref.gas \in Nat
  BY FrameFields, Zenon DEF Inv, InCall
<1>1. CASE UNCHANGED vars
  <2>1. prog' = prog /\ call' = call /\ engine' = engine /\ eng' = eng /\ ref' = ref
    BY <1>1 DEF vars
  <2>2. Inv'
    BY <2>1 DEF Inv, InCall, InCompiledCode, AtInstruction, AfterJumpI
  <2>3. eng'.gas <= eng.gas /\ ref'.gas <= ref.gas
    BY <1>0, <2>1
  <2>. QED BY <1>1, <2>2, <2>3, Zenon
<1>2. CASE Next
  <2>1. PICK in \in Answers(NextOpcode) : Lockstep(in)
    BY <1>2 DEF Next
  <2>2. Answer(in) /\ Running(ref)
    BY <1>2, AnswersType, Zenon DEF Next
  <2>3. UNCHANGED <<prog, call, engine>>
    BY <2>1 DEF Lockstep
  <2>4. /\ InCall(ref') /\ ref'.gas <= ref.gas
        /\ Running(ref') => ref'.gas < ref.gas \/ ref'.pc > ref.pc
    BY <2>1, <2>2, RefStep, Zenon DEF Lockstep
  <2>5. /\ InCall(eng') /\ eng'.gas <= eng.gas
        /\ engine = "jit" /\ Running(eng') => InCompiledCode(eng')
    <3>1. CASE ~Aligned
      <4>1. eng' = eng
        BY <2>1, <3>1 DEF Lockstep
      <4>2. eng'.gas <= eng.gas
        BY <1>0, <4>1
      <4>. QED BY <4>1, <4>2, Zenon DEF Inv
    <3>2. CASE Aligned /\ engine = "jit"
      <4>1. eng' = JitExecute(eng, prog.code, prog.cache, prog.front, in)
        BY <2>1, <3>2 DEF Lockstep, Execute
      <4>2. Running(eng)
        BY <3>2 DEF Aligned
      <4>. QED BY <2>2, <3>2, <4>1, <4>2, JitStep, Zenon
    <3>3. CASE Aligned /\ engine # "jit"
      <4>1. eng' = interpret(eng, prog.code, prog.cache, in)
        BY <2>1, <3>3 DEF Lockstep, Execute
      <4>2. Running(eng)
        BY <3>3 DEF Aligned
      <4>. QED BY <2>2, <3>3, <4>1, <4>2, InterpStep, Zenon
    <3>. QED BY <3>1, <3>2, <3>3, Zenon
  <2>6. Inv'
    <3>1. InCall(eng)' /\ InCall(ref)'
      BY <2>3, <2>4, <2>5, InCallNext, Zenon
    <3>2. engine = "jit" /\ Running(eng') => InCompiledCode(eng)'
      BY <2>3, <2>5, InCallNext, Zenon
    <3>. QED BY <2>3, <3>1, <3>2, InvNext, Zenon
  <2>. QED BY <2>4, <2>5, <2>6, Zenon
<1>. QED BY <1>1, <1>2, Zenon

(* The invariant holds of every execution. *)
THEOREM Invariance == Spec => []Inv
<1>1. Inv /\ [Next]_vars => Inv'
  BY NextInv, Zenon
<1>. QED BY InitInv, <1>1, PTL DEF Spec

(* Both engines keep their frames inside the machine, whatever the program
   and the host do: the memory is whole words below its limit, the stack
   below its own, and no charge makes the gas negative. *)
THEOREM TypeCorrect == Spec => []TypeOK
<1>1. Inv => TypeOK
  <2>1. ASSUME NEW f, Sound(f)
        PROVE  /\ f.pc \in Nat /\ f.gas \in Nat /\ f.mem \in Nat /\ f.ret \in Nat
               /\ f.mem % 32 = 0 /\ f.mem <= MaxMemory + 31
               /\ Len(f.stack) <= MaxStack
               /\ f.refund \in Int
    BY <2>1, FrameFields, Zenon DEF Sound
  <2>. QED BY <2>1, Zenon DEF Inv, InCall, TypeOK
<1>. QED BY <1>1, Invariance, PTL

(* Control never enters the data of a PUSH: the interpreter's jump table and
   the compiled jumps only lead to instructions, and so do runs of JUMPDESTs
   entered through their canonical one. *)
THEOREM OnlyInstructions == Spec => []NoPushDataExecuted
<1>1. Inv => NoPushDataExecuted
  BY Zenon DEF Inv, InCall, AtInstruction, NoPushDataExecuted
<1>. QED BY <1>1, Invariance, PTL

(* A static message call makes no host mutation in either engine, through
   SSTORE, TSTORE, LOG, CREATE, CALL with value or SELFDESTRUCT. *)
THEOREM StaticCalls == Spec => []StaticFrameWritesNothing
<1>1. Inv => StaticFrameWritesNothing
  BY Zenon DEF Inv, InCall, StaticFrameWritesNothing
<1>. QED BY <1>1, Invariance, PTL

(* The memory size that compiled code keeps in a register is the instance's
   whenever an instruction starts, however a helper grew the memory. *)
THEOREM CachedSize == Spec => []CachedMemorySize
<1>1. Inv => CachedMemorySize
  BY Zenon DEF Inv, InCompiledCode, CachedMemorySize
<1>. QED BY <1>1, Invariance, PTL

(* No step of either engine gives gas back, and every step of the reference
   that does not end the call burns gas or moves forward: no program runs
   for ever. *)
THEOREM Burns == Spec => EveryStepBurns
<1>. DEFINE A == /\ eng'.gas <= eng.gas /\ ref'.gas <= ref.gas
                 /\ Running(ref') => ref'.gas < ref.gas \/ ref'.pc > ref.pc
<1>1. Inv /\ [Next]_vars => [A]_vars
  BY NextInv, Zenon
<1>. QED BY <1>1, Invariance, PTL DEF Spec, EveryStepBurns

-----------------------------------------------------------------------------
(* Within a block, past the check at its head, the stack holds what the rest
   of the block pops and leaves room for what it pushes. *)
StackFits(f) ==
  f.pc < Len(prog.code) /\ f.pc \notin JumpDests(prog.code) /\ ~f.begin =>
    Fits(prog.code, prog.rev, f.pc, Len(f.stack))

StackInv ==
  engine = "jit" => /\ eng.st # "CORRUPT"
                    /\ Running(eng) => StackFits(eng)

(* A step of compiled code pops and pushes within what was checked. *)
LEMMA JitStepFits ==
  ASSUME Inv, Running(eng), engine = "jit", StackFits(eng), NEW in, Answer(in)
  PROVE  LET g == JitExecute(eng, prog.code, prog.cache, prog.front, in)
         IN  g.st # "CORRUPT" /\ (Running(g) => StackFits(g))
<1>. DEFINE g == JitExecute(eng, prog.code, prog.cache, prog.front, in)
            code == prog.code
            rev == prog.rev
            op == Byte(code, eng.pc)
            next == eng.pc + opcodeLen(op)
            canon == prog.front.canon[eng.pc]
            dests == JumpDests(code)
            AtDest == eng.pc < Len(code) /\ op = JUMPDEST
<1>1. Sound(eng) /\ eng.rev = rev
  BY Zenon DEF Inv, InCall
<1>2. code \in Seq(Bytes) /\ dests \subseteq PCs(code)
  BY ProgramFacts, Zenon
<1>3. AtDest => canon \in PCs(code) /\ CoversBlock(code, rev, prog.front.blocks[canon], canon + 1)
  BY <1>2, FrontFacts, Zenon
<1>4. eng.pc < Len(code) /\ op # JUMPDEST =>
        IF eng.begin THEN CoversBlock(code, rev, prog.front.blocks[eng.pc], eng.pc)
        ELSE Fits(code, rev, eng.pc, Len(eng.stack))
  <2>1. op # JUMPDEST => eng.pc \notin dests
    BY Zenon DEF JumpDests
  <2>. QED BY <2>1, FrontFacts, Zenon DEF StackFits
<1>5. /\ g.st # "CORRUPT"
      /\ Running(g) /\ op = JUMPDEST => Fits(code, rev, canon + 1, Len(g.stack))
      /\ Running(g) /\ op = JUMPI => g.pc \in prog.cache.dests \/ g.begin
      /\ Running(g) /\ op \notin {JUMPDEST, JUMP, JUMPI}
          /\ ~isBlockTerminator(op) /\ next < Len(code) =>
           Fits(code, rev, next, Len(g.stack))
  BY <1>1, <1>2, <1>3, <1>4, JitExecuteFits, Zenon
<1>6. Running(g) =>
        /\ op \notin EndOps
        /\ \/ g.pc \in dests
           \/ op = JUMPDEST /\ g.pc = canon + 1
           \/ op \notin {JUMP, JUMPDEST} /\ g.pc = next
  BY JitStepPasses, Zenon
<1>. HIDE DEF g
<1>7. prog.cache.dests = dests
  BY ProgramFacts, Zenon
<1>8. op \notin EndOps \cup {JUMP} => ~isBlockTerminator(op)
  BY Zenon DEF isBlockTerminator, EndOps
<1>9. ASSUME Running(g), g.pc < Len(code), g.pc \notin dests, ~g.begin
      PROVE  Fits(code, rev, g.pc, Len(g.stack))
  <2>1. CASE op = JUMPDEST /\ g.pc = canon + 1
    BY <1>5, <1>9, <2>1, Zenon
  <2>2. CASE op \notin {JUMP, JUMPDEST} /\ g.pc = next
    BY <1>5, <1>6, <1>7, <1>8, <1>9, <2>2, Zenon
  <2>. QED BY <1>6, <1>9, <2>1, <2>2, Zenon
<1>10. g.st # "CORRUPT" /\ (Running(g) => StackFits(g))
  BY <1>5, <1>9, Zenon DEF StackFits
<1>. QED BY <1>10, Zenon DEF g

(* The stack of a compiled frame stays within the checks of its blocks. *)
LEMMA NextStackInv ==
  ASSUME Inv, StackInv, [Next]_vars
  PROVE  StackInv'
<1>. SUFFICES ASSUME engine' = "jit"
              PROVE  eng'.st # "CORRUPT" /\ (Running(eng') => StackFits(eng)')
  BY DEF StackInv, Running
<1>1. ASSUME NEW g, eng' = g, prog' = prog, g.st # "CORRUPT", Running(g) => StackFits(g)
      PROVE  eng'.st # "CORRUPT" /\ (Running(eng') => StackFits(eng)')
  BY <1>1 DEF StackFits, Running
<1>2. CASE UNCHANGED vars
  <2>1. prog' = prog /\ engine' = engine /\ eng' = eng
    BY <1>2 DEF vars
  <2>. QED BY <1>1, <2>1, Zenon DEF StackInv
<1>3. CASE Next
  <2>1. PICK in \in Answers(NextOpcode) : Lockstep(in)
    BY <1>3 DEF Next
  <2>2. Answer(in)
    BY AnswersType, Zenon
  <2>3. prog' = prog /\ engine = "jit"
    BY <2>1 DEF Lockstep
  <2>4. CASE ~Aligned
    <3>1. eng' = eng
      BY <2>1, <2>4 DEF Lockstep
    <3>. QED BY <1>1, <2>3, <3>1, Zenon DEF StackInv
  <2>5. CASE Aligned
    <3>. DEFINE g == JitExecute(eng, prog.code, prog.cache, prog.front, in)
    <3>1. eng' = g /\ Running(eng)
      BY <2>1, <2>3, <2>5 DEF Lockstep, Execute, Aligned
    <3>2. g.st # "CORRUPT" /\ (Running(g) => StackFits(g))
      BY <2>2, <2>3, <3>1, JitStepFits, Zenon DEF StackInv
    <3>. HIDE DEF g
    <3>. QED BY <1>1, <2>3, <3>1, <3>2, Zenon
  <2>. QED BY <2>4, <2>5, Zenon
<1>. QED BY <1>2, <1>3, Zenon

(* The JIT checks the stack once at the head of a block and not at its
   instructions.  Where the block analysis counts the heights right, no
   instruction of compiled code pops a word that is absent or pushes past the
   limit, whatever path leads to it: through a run of JUMPDESTs, a branch not
   taken or the start of the code. *)
THEOREM StackChecks == Spec => [](engine = "jit" => StackCheckCoversBlock)
<1>1. Init => StackInv
  BY DEF Init, StartFrame, StackInv, StackFits
<1>2. Inv /\ StackInv /\ [Next]_vars => StackInv'
  BY NextStackInv, Zenon
<1>3. StackInv => (engine = "jit" => StackCheckCoversBlock)
  BY Zenon DEF StackInv, StackCheckCoversBlock
<1>. QED BY <1>1, <1>2, <1>3, Invariance, PTL DEF Spec

-----------------------------------------------------------------------------
(* What the interpreter and the reference keep between them. *)
InterpAgrees == engine = "interp" => Agree(prog, eng, ref)

(* The call's program and frames are what the metering works on. *)
LEMMA MeteredCall ==
  ASSUME Inv PROVE Program(prog) /\ OfProgram(prog, eng) /\ OfProgram(prog, ref)
BY ProgramFacts, Zenon DEF Program, OfProgram, OnInstruction, Inv, InCall, AtInstruction

(* A call begins with nothing paid for. *)
LEMMA InitAgree == Init => InterpAgrees
<1>. SUFFICES ASSUME Init PROVE Agree(prog, eng, ref)
  BY DEF InterpAgrees
<1>1. Inv
  BY InitInv, Zenon
<1>2. eng.st = "running" /\ eng.pc = 0 /\ eng.until = 0 /\ ref = eng
  BY DEF Init, StartFrame
<1>3. 0 \in Nat /\ 0 >= 0
  OBVIOUS
<1>4. Debt(prog, 0, 0) = 0 /\ InChunk(prog, 0, 0)
  BY <1>1, <1>3, OutsideChunk, MeteredCall, Zenon
<1>5. eng.gas \in Nat
  BY <1>1, FrameFields, Zenon DEF Inv, InCall
<1>6. ref.gas = eng.gas + 0
  BY <1>2, <1>5
<1>7. SameMessage(eng, ref) /\ Alike(eng, ref) /\ Running(eng)
  BY <1>2, Zenon DEF SameMessage, Alike, Running
<1>. QED BY <1>2, <1>4, <1>6, <1>7, Zenon DEF Agree

(* The program of a call never changes. *)
LEMMA AgreePrime ==
  ASSUME NEW p, NEW q, prog' = prog, eng' = p, ref' = q, Agree(prog, p, q)
  PROVE  Agree(prog, eng, ref)'
BY DEF Agree, SameMessage, Alike, SameEnd, Failed, Finished, Running, Debt, InChunk

(* A step of the pair. *)
LEMMA NextAgree ==
  ASSUME Inv, InterpAgrees, [Next]_vars
  PROVE  InterpAgrees'
<1>1. CASE UNCHANGED vars
  <2>1. prog' = prog /\ engine' = engine /\ eng' = eng /\ ref' = ref
    BY <1>1 DEF vars
  <2>. QED BY <2>1, AgreePrime, Zenon DEF InterpAgrees
<1>2. CASE Next
  <2>1. PICK in \in Answers(NextOpcode) : Lockstep(in)
    BY <1>2 DEF Next
  <2>2. Answer(in) /\ Running(ref)
    BY <1>2, AnswersType, Zenon DEF Next
  <2>3. prog' = prog /\ engine' = engine
    BY <2>1 DEF Lockstep
  <2>4. ref' = SlowPath(ref, prog.code, prog.cache.dests, in)
    BY <2>1 DEF Lockstep
  <2>. SUFFICES ASSUME engine = "interp" PROVE Agree(prog, eng, ref)'
    BY <2>3 DEF InterpAgrees
  <2>5. Agree(prog, eng, ref)
    BY DEF InterpAgrees
  <2>6. CASE Running(eng)
    <3>1. Aligned
      BY <2>2, <2>5, <2>6, Zenon DEF Aligned, Agree, Alike
    <3>2. eng' = interpret(eng, prog.code, prog.cache, in)
      BY <2>1, <3>1 DEF Lockstep, Execute
    <3>3. Agree(prog, interpret(eng, prog.code, prog.cache, in),
                SlowPath(ref, prog.code, prog.cache.dests, in))
      BY <2>2, <2>5, <2>6, InterpretAgree, MeteredCall, Zenon
    <3>. QED BY <2>3, <2>4, <3>2, <3>3, AgreePrime, Zenon
  <2>7. CASE ~Running(eng)
    <3>1. eng' = eng
      BY <2>1, <2>7 DEF Lockstep, Aligned
    <3>2. Agree(prog, eng, SlowPath(ref, prog.code, prog.cache.dests, in))
      BY <2>2, <2>5, <2>7, CatchUp, MeteredCall, Zenon
    <3>. QED BY <2>3, <2>4, <3>1, <3>2, AgreePrime, Zenon
  <2>. QED BY <2>6, <2>7, Zenon
<1>. QED BY <1>1, <1>2, Zenon

(* The relation holds throughout a call. *)
LEMMA MeteringInvariance == Spec => [](Inv /\ InterpAgrees)
<1>1. Inv /\ InterpAgrees /\ [Next]_vars => InterpAgrees'
  BY NextAgree, Zenon
<1>. QED BY <1>1, InitAgree, Invariance, PTL DEF Spec

(* The interpreter's chunk metering is invisible: for every program whose
   chunk table is sound, every message and every answer of the host, a call
   that interpret() executes ends as the opcode-by-opcode reading does. *)
THEOREM InterpreterAgrees == Spec => [](engine = "interp" => EnginesAgree)
<1>1. Inv /\ InterpAgrees => (engine = "interp" => EnginesAgree)
  BY Zenon DEF InterpAgrees, Agree, EnginesAgree, SameEnd
<1>. QED BY <1>1, MeteringInvariance, PTL

(* While both run, the interpreter's gas is behind the reference's by exactly
   the base cost of what it has paid for and not executed. *)
THEOREM InterpreterPays == Spec => [](engine = "interp" => GasLedger)
<1>1. Inv /\ InterpAgrees => (engine = "interp" => GasLedger)
  <2>. SUFFICES ASSUME Inv, Agree(prog, eng, ref), Aligned, Running(ref)
                PROVE  eng.gas + Prepaid(eng) + MemoryGas(eng.mem) = ref.gas + MemoryGas(ref.mem)
    BY Zenon DEF InterpAgrees, GasLedger
  <2>1. ref.gas = eng.gas + Debt(prog, eng.pc, eng.until) /\ ref.mem = eng.mem /\ eng.rev = prog.rev
    BY Zenon DEF Aligned, Agree, Alike, Inv, InCall
  <2>2. Debt(prog, eng.pc, eng.until) = Prepaid(eng)
    BY <2>1, Zenon DEF Debt, Prepaid
  <2>. QED BY <2>1, <2>2, Zenon
<1>. QED BY <1>1, MeteringInvariance, PTL
=============================================================================

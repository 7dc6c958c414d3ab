--------------------------- MODULE EvmMeterProofs ---------------------------
(***************************************************************************)
(* The chunk-metered interpreter against paying opcode by opcode, one      *)
(* instruction at a time: two frames that differ by what one has prepaid   *)
(* go on to differ by that, whatever handler runs, and if one of them runs *)
(* out of gas early the other is bound to.                                 *)
(***************************************************************************)
EXTENDS EvmMachineProofs

(* Two frames that execute the same instruction, the second with d more gas
   than the first: they stay alike, or the first has run out and the second
   can no longer get past the code that d pays for. *)
SameMessage(f, g) == g.snap = f.snap /\ g.rev = f.rev /\ g.static = f.static /\ g.deep = f.deep

Alike(f, g) ==
  /\ g.pc = f.pc /\ g.stack = f.stack /\ g.mem = f.mem /\ g.ret = f.ret
  /\ g.refund = f.refund /\ g.log = f.log

Apart(f, g, d) == Running(f) /\ Running(g) /\ Alike(f, g) /\ g.gas = f.gas + d
Doomed(f, g, d) == Failed(f) /\ ~Finished(g) /\ (Running(g) => g.gas < d)

Rel(f, g, d) ==
  /\ Sound(f) /\ Sound(g) /\ SameMessage(f, g)
  /\ Apart(f, g, d) \/ Doomed(f, g, d)

(* How a call that finished ended. *)
SameEnd(f, g) ==
  /\ Finished(f) /\ g.st = f.st /\ g.gas = f.gas /\ g.refund = f.refund
  /\ g.ret = f.ret /\ g.log = f.log

(* While the interpreter runs, so does the reference, in the same state
   but for the gas already paid. *)
LEMMA RelRunning ==
  ASSUME NEW f, NEW g, NEW d, Rel(f, g, d), Running(f)
  PROVE  Apart(f, g, d)
BY DEF Rel, Doomed, Failed

(* Without a debt the frames run and fail together. *)
LEMMA RelNoDebt ==
  ASSUME NEW f, NEW g, Rel(f, g, 0)
  PROVE  /\ Running(f) <=> Running(g)
         /\ Running(f) => g.gas = f.gas
<1>1. f.gas \in Nat /\ g.gas \in Nat
  BY FrameFields, Zenon DEF Rel
<1>2. Apart(f, g, 0) => g.gas = f.gas
  BY <1>1 DEF Apart
<1>3. Doomed(f, g, 0) => ~Running(f) /\ ~Running(g)
  BY <1>1 DEF Doomed, Failed
<1>. QED BY <1>2, <1>3, Zenon DEF Rel, Apart

(* Once the first has failed, what evolves without finishing stays doomed. *)
LEMMA RelStopped ==
  ASSUME NEW f, NEW g, NEW d \in Nat, Rel(f, g, d), ~Running(f),
         NEW p, NEW q, Evolves(f, p), Evolves(g, q), Finished(q) => Finished(g)
  PROVE  Rel(p, q, d)
<1>1. p = f /\ Doomed(f, g, d)
  BY Zenon DEF Rel, Apart, Evolves
<1>2. Sound(q) /\ q.gas <= g.gas /\ (Running(q) => Running(g)) /\ Sound(g)
  BY EvolvesFacts, Zenon DEF Rel, Evolves
<1>3. g.gas \in Nat /\ q.gas \in Nat
  BY <1>2, FrameFields
<1>4. Running(q) => q.gas < d
  BY <1>1, <1>2, <1>3 DEF Doomed
<1>5. SameMessage(f, q)
  BY Zenon DEF Rel, SameMessage, Evolves
<1>. QED BY <1>1, <1>2, <1>4, <1>5, Zenon DEF Rel, Doomed

Failures == Statuses \ {"running", "SUCCESS", "REVERT"}

(* Failing, whatever the two statuses. *)
LEMMA RelFail ==
  ASSUME NEW f, NEW g, NEW d \in Nat, Rel(f, g, d), NEW s \in Failures, NEW t \in Failures
  PROVE  Rel(Fail(f, s), Fail(g, t), d)
<1>. DEFINE p == Fail(f, s)
            q == Fail(g, t)
<1>. SUFFICES Rel(p, q, d)
  OBVIOUS
<1>1. Sound(f) /\ Sound(g) /\ SameMessage(f, g)
  BY Zenon DEF Rel
<1>2. Calm(f, p) /\ Calm(g, q)
  BY <1>1, FailCalm, Zenon DEF Failures
<1>3. Evolves(f, p) /\ Evolves(g, q)
  BY <1>2, CalmFacts, Zenon
<1>4. /\ Running(f) => Failed(p)
      /\ Running(g) => Failed(q)
      /\ ~Running(g) => q = g
  BY <1>1 DEF Fail, Failed, Finished, Running, Failures, Sound, Frames
<1>. HIDE DEF p, q
<1>5. CASE Running(f)
  <2>1. Failed(p) /\ Failed(q)
    BY <1>4, <1>5, RelRunning, Zenon DEF Apart
  <2>2. SameMessage(p, q) /\ Sound(p) /\ Sound(q)
    BY <1>1, <1>3, Zenon DEF SameMessage, Evolves
  <2>. QED BY <2>1, <2>2, Zenon DEF Rel, Doomed, Failed
<1>6. CASE ~Running(f)
  <2>1. Finished(q) => Finished(g)
    BY <1>4, Zenon DEF Failed
  <2>. QED BY <1>3, <1>6, <2>1, RelStopped, Zenon
<1>. QED BY <1>5, <1>6, Zenon

(* Charging: the one with less gas may fail alone. *)
LEMMA RelCharge ==
  ASSUME NEW f, NEW g, NEW d \in Nat, Rel(f, g, d), NEW c \in Nat
  PROVE  Rel(chargeGas(f, c), chargeGas(g, c), d)
<1>. DEFINE p == chargeGas(f, c)
            q == chargeGas(g, c)
<1>. SUFFICES Rel(p, q, d)
  OBVIOUS
<1>1. Sound(f) /\ Sound(g) /\ SameMessage(f, g) /\ f.gas \in Nat /\ g.gas \in Nat
  BY FrameFields, Zenon DEF Rel
<1>2. Evolves(f, p) /\ Evolves(g, q)
  BY <1>1, ChargeCalm, CalmFacts, Zenon
<1>3. SameMessage(p, q) /\ Sound(p) /\ Sound(q)
  BY <1>1, <1>2, Zenon DEF SameMessage, Evolves
<1>4. Finished(q) => Finished(g)
  BY <1>1 DEF chargeGas, Fail, Finished, Running, Sound, Frames
<1>5. CASE ~Running(f)
  <2>. HIDE DEF p, q
  <2>. QED BY <1>2, <1>4, <1>5, RelStopped, Zenon
<1>6. CASE Running(f)
  <2>1. Alike(f, g) /\ g.gas = f.gas + d /\ Running(g)
    BY <1>6, RelRunning, Zenon DEF Apart
  <2>2. CASE f.gas >= c
    <3>1. g.gas >= c
      BY <1>1, <2>1, <2>2
    <3>2. p = [f EXCEPT !.gas = @ - c] /\ q = [g EXCEPT !.gas = @ - c]
      BY <1>1, <1>6, <2>1, <2>2, <3>1 DEF chargeGas
    <3>3. /\ p.gas = f.gas - c /\ p.st = f.st /\ p.pc = f.pc /\ p.stack = f.stack
          /\ p.mem = f.mem /\ p.ret = f.ret /\ p.refund = f.refund /\ p.log = f.log
          /\ q.gas = g.gas - c /\ q.st = g.st /\ q.pc = g.pc /\ q.stack = g.stack
          /\ q.mem = g.mem /\ q.ret = g.ret /\ q.refund = g.refund /\ q.log = g.log
      BY <1>1, <3>2 DEF Sound, Frames
    <3>. HIDE DEF p, q
    <3>4. q.gas = p.gas + d
      BY <1>1, <2>1, <3>3
    <3>5. Apart(p, q, d)
      BY <1>6, <2>1, <3>3, <3>4, Zenon DEF Apart, Alike, Running
    <3>. QED BY <1>3, <3>5, Zenon DEF Rel
  <2>3. CASE f.gas < c
    <3>1. Failed(p)
      BY <1>1, <1>6, <2>3 DEF chargeGas, Fail, Failed, Finished, Running, Sound, Frames
    <3>2. ~Finished(g)
      BY <2>1 DEF Finished, Running
    <3>3. Running(q) => q.gas = g.gas - c
      BY <1>1, <2>1 DEF chargeGas, Fail, Running, Sound, Frames
    <3>4. g.gas - c < d
      BY <1>1, <2>1, <2>3
    <3>. HIDE DEF p, q
    <3>5. Running(q) => q.gas < d
      BY <3>3, <3>4, Zenon
    <3>. QED BY <1>3, <1>4, <3>1, <3>2, <3>5, Zenon DEF Rel, Doomed
  <2>. QED BY <1>1, <2>2, <2>3
<1>. QED BY <1>5, <1>6, Zenon

(* A change that costs nothing and is the same for both. *)
LEMMA RelChange ==
  ASSUME NEW f, NEW g, NEW d \in Nat, Rel(f, g, d), NEW p, NEW q,
         Evolves(f, p), Evolves(g, q), Finished(q) => Finished(g),
         Apart(f, g, d) =>
           Running(p) /\ Running(q) /\ Alike(p, q) /\ p.gas = f.gas /\ q.gas = g.gas
  PROVE  Rel(p, q, d)
<1>1. CASE Running(f)
  <2>1. Apart(f, g, d)
    BY <1>1, RelRunning, Zenon
  <2>2. q.gas = p.gas + d
    BY <2>1 DEF Apart
  <2>3. SameMessage(p, q) /\ Sound(p) /\ Sound(q)
    BY Zenon DEF Rel, SameMessage, Evolves
  <2>. QED BY <2>1, <2>2, <2>3, Zenon DEF Rel, Apart
<1>2. CASE ~Running(f)
  BY <1>2, RelStopped, Zenon
<1>. QED BY <1>1, <1>2, Zenon

-----------------------------------------------------------------------------
(* The handlers, on two such frames. *)

(* Related frames are sound and belong to the same message. *)
LEMMA RelSound ==
  ASSUME NEW f, NEW g, NEW d, Rel(f, g, d)
  PROVE  /\ Sound(f) /\ Sound(g) /\ g.rev = f.rev /\ g.static = f.static
         /\ g.deep = f.deep /\ g.snap = f.snap
BY Zenon DEF Rel, SameMessage

PutBack(f, a) == [f EXCEPT !.stack = a \o @]

(* Gas that a call adds for the callee. *)
Stipend(f, n) == [f EXCEPT !.gas = @ + n]

(* The instructions that end the call. *)
Ends(f, s, n, r) == [f EXCEPT !.st = s, !.ret = n, !.refund = r]

Succeeds(f, n) == [f EXCEPT !.st = "SUCCESS", !.ret = n]

(* Equal frames that succeed with the same data end alike. *)
LEMMA SameSuccess ==
  ASSUME NEW f, NEW g, Rel(f, g, 0), Running(f), NEW n
  PROVE  SameEnd(Succeeds(f, n), Succeeds(g, n))
<1>. DEFINE p == Succeeds(f, n)
            q == Succeeds(g, n)
<1>1. f \in Frames /\ g \in Frames /\ Alike(f, g) /\ g.gas = f.gas
  BY RelRunning, RelNoDebt, Zenon DEF Rel, Sound, Apart
<1>2. /\ p.st = "SUCCESS" /\ p.gas = f.gas /\ p.refund = f.refund /\ p.ret = n /\ p.log = f.log
      /\ q.st = "SUCCESS" /\ q.gas = g.gas /\ q.refund = g.refund /\ q.ret = n /\ q.log = g.log
  BY <1>1 DEF Succeeds, Frames
<1>. HIDE DEF p, q
<1>3. SameEnd(p, q)
  BY <1>1, <1>2, Zenon DEF SameEnd, Alike, Finished
<1>. QED BY <1>3, Zenon DEF p, q

(* An opcode that ends the frame with success does so in both. *)
LEMMA RelEnder ==
  ASSUME NEW f, NEW g, Rel(f, g, 0), NEW n, NEW p, NEW q,
         p = IF Running(f) THEN [f EXCEPT !.st = "SUCCESS", !.ret = n] ELSE f,
         q = IF Running(g) THEN [g EXCEPT !.st = "SUCCESS", !.ret = n] ELSE g
  PROVE  Rel(p, q, 0) \/ SameEnd(p, q)
<1>1. Running(f) <=> Running(g)
  BY RelNoDebt, Zenon
<1>2. /\ p = IF Running(f) THEN Succeeds(f, n) ELSE f
      /\ q = IF Running(g) THEN Succeeds(g, n) ELSE g
  BY Zenon DEF Succeeds
<1>3. CASE Running(f)
  <2>1. p = Succeeds(f, n) /\ q = Succeeds(g, n)
    BY <1>1, <1>2, <1>3, Zenon
  <2>2. SameEnd(Succeeds(f, n), Succeeds(g, n))
    BY <1>3, SameSuccess
  <2>. QED BY <2>1, <2>2
<1>4. CASE ~Running(f)
  <2>1. p = f /\ q = g
    BY <1>1, <1>2, <1>4, Zenon
  <2>. QED BY <2>1
<1>. QED BY <1>3, <1>4

(* STOP ends both frames alike. *)
LEMMA RelStop ==
  ASSUME NEW f, NEW g, Rel(f, g, 0)
  PROVE  Rel(Stop(f), Stop(g), 0) \/ SameEnd(Stop(f), Stop(g))
<1>1. /\ Stop(f) = IF Running(f) THEN [f EXCEPT !.st = "SUCCESS", !.ret = 0] ELSE f
      /\ Stop(g) = IF Running(g) THEN [g EXCEPT !.st = "SUCCESS", !.ret = 0] ELSE g
  BY DEF Stop
<1>. QED BY <1>1, RelEnder, Zenon

EnderOps == {STOP, RETURN, REVERT, SELFDESTRUCT}

(* Every handler keeps two such frames alike.  What it does may depend on the
   gas left only where a chunk ends, and only there may it end the call. *)
LEMMA HandlerRel ==
  \A f, g, d, op, a, value, in :
    /\ d \in Nat /\ Rel(f, g, d) /\ Running(f) /\ op \in Bytes /\ a \in Seq(Nat)
    /\ Len(a) = Required(op) /\ Len(a) + Len(f.stack) <= MaxStack /\ value \in Nat
    /\ Answer(in) /\ (op \in WriteOps => ~f.static) /\ (isGasChunkTerminator(op) => d = 0)
    => LET p == Handler(f, op, a, value, in)
           q == Handler(g, op, a, value, in)
       IN  Rel(p, q, d) \/ (op \in EnderOps /\ SameEnd(p, q))
(* A push of the same word preserves the relation, and overflows in both
   frames or in neither. *)
<1>RelPush.
      ASSUME NEW f, NEW g, NEW d \in Nat, Rel(f, g, d), NEW v \in Nat, NEW w \in Nat,
             Running(f) => w = v
      PROVE  Rel(Push(f, v), Push(g, w), d)
  <2>. USE <1>RelPush
  <2>. DEFINE p == Push(f, v)
              q == Push(g, w)
  <2>. SUFFICES Rel(p, q, d)
    OBVIOUS
  <2>1. Sound(f) /\ Sound(g)
    BY Zenon DEF Rel
  <2>2. Evolves(f, p) /\ Evolves(g, q)
    BY <2>1, PushCalm, CalmFacts, Zenon
  <2>3. Finished(q) => Finished(g)
    BY <2>1 DEF Push, Fail, Finished, Running, Sound, Frames
  <2>4. CASE Running(f) /\ Len(f.stack) >= MaxStack
    <3>1. Running(g) /\ g.stack = f.stack
      BY <2>4, RelRunning, Zenon DEF Apart, Alike
    <3>2. p = Fail(f, "STACK_OVERFLOW") /\ q = Fail(g, "STACK_OVERFLOW")
      BY <2>4, <3>1 DEF Push
    <3>3. "STACK_OVERFLOW" \in Failures
      BY DEF Failures, Statuses
    <3>. HIDE DEF p, q
    <3>. QED BY <3>2, <3>3, RelFail, Zenon
  <2>5. CASE ~(Running(f) /\ Len(f.stack) >= MaxStack)
    <3>1. ASSUME Apart(f, g, d)
          PROVE  Running(p) /\ Running(q) /\ Alike(p, q) /\ p.gas = f.gas /\ q.gas = g.gas
      <4>1. Running(f) /\ Running(g) /\ Alike(f, g) /\ w = v
        BY <3>1, Zenon DEF Apart
      <4>. DEFINE s == <<v>> \o f.stack
                  t == <<v>> \o g.stack
      <4>2. p = [f EXCEPT !.stack = s] /\ q = [g EXCEPT !.stack = t]
        BY <2>5, <4>1 DEF Push, Alike
      <4>. HIDE DEF s, t
      <4>3. /\ p.gas = f.gas /\ p.st = f.st /\ p.pc = f.pc /\ p.stack = s
            /\ p.mem = f.mem /\ p.ret = f.ret /\ p.refund = f.refund /\ p.log = f.log
            /\ q.gas = g.gas /\ q.st = g.st /\ q.pc = g.pc /\ q.stack = t
            /\ q.mem = g.mem /\ q.ret = g.ret /\ q.refund = g.refund /\ q.log = g.log
        BY <2>1, <4>2 DEF Sound, Frames
      <4>4. s = t
        BY <4>1 DEF s, t, Alike
      <4>. HIDE DEF p, q
      <4>. QED BY <4>1, <4>3, <4>4, Zenon DEF Alike, Running
    <3>. HIDE DEF p, q
    <3>. QED BY <2>2, <2>3, <3>1, RelChange, Zenon
  <2>. QED BY <2>4, <2>5, Zenon
(* setReturnData preserves the relation. *)
<1>RelSetRet.
      ASSUME NEW f, NEW g, NEW d \in Nat, Rel(f, g, d), NEW n \in Nat
      PROVE  Rel(SetRet(f, n), SetRet(g, n), d)
  <2>. USE <1>RelSetRet
  <2>. DEFINE p == SetRet(f, n)
              q == SetRet(g, n)
  <2>. SUFFICES Rel(p, q, d)
    OBVIOUS
  <2>1. Sound(f) /\ Sound(g)
    BY Zenon DEF Rel
  <2>2. Evolves(f, p) /\ Evolves(g, q)
    BY <2>1, SetRetCalm, CalmFacts, Zenon
  <2>3. Finished(q) => Finished(g)
    BY <2>1 DEF SetRet, Finished, Running, Sound, Frames
  <2>4. ASSUME Apart(f, g, d)
        PROVE  Running(p) /\ Running(q) /\ Alike(p, q) /\ p.gas = f.gas /\ q.gas = g.gas
    <3>1. Running(f) /\ Running(g) /\ Alike(f, g)
      BY <2>4, Zenon DEF Apart
    <3>2. p = [f EXCEPT !.ret = n] /\ q = [g EXCEPT !.ret = n]
      BY <3>1 DEF SetRet
    <3>3. /\ p.gas = f.gas /\ p.st = f.st /\ p.pc = f.pc /\ p.stack = f.stack
          /\ p.mem = f.mem /\ p.ret = n /\ p.refund = f.refund /\ p.log = f.log
          /\ q.gas = g.gas /\ q.st = g.st /\ q.pc = g.pc /\ q.stack = g.stack
          /\ q.mem = g.mem /\ q.ret = n /\ q.refund = g.refund /\ q.log = g.log
      BY <2>1, <3>2 DEF Sound, Frames
    <3>. HIDE DEF p, q
    <3>. QED BY <3>1, <3>3, Zenon DEF Alike, Running
  <2>. HIDE DEF p, q
  <2>. QED BY <2>2, <2>3, <2>4, RelChange, Zenon
(* addGasRefund preserves the relation. *)
<1>RelRefund.
      ASSUME NEW f, NEW g, NEW d \in Nat, Rel(f, g, d), NEW n \in Int
      PROVE  Rel(addGasRefund(f, n), addGasRefund(g, n), d)
  <2>. USE <1>RelRefund
  <2>. DEFINE p == addGasRefund(f, n)
              q == addGasRefund(g, n)
  <2>. SUFFICES Rel(p, q, d)
    OBVIOUS
  <2>1. Sound(f) /\ Sound(g)
    BY Zenon DEF Rel
  <2>2. Evolves(f, p) /\ Evolves(g, q)
    BY <2>1, RefundCalm, CalmFacts, Zenon
  <2>3. Finished(q) => Finished(g)
    BY <2>1 DEF addGasRefund, Finished, Running, Sound, Frames
  <2>4. ASSUME Apart(f, g, d)
        PROVE  Running(p) /\ Running(q) /\ Alike(p, q) /\ p.gas = f.gas /\ q.gas = g.gas
    <3>1. Running(f) /\ Running(g) /\ Alike(f, g)
      BY <2>4, Zenon DEF Apart
    <3>2. p = [f EXCEPT !.refund = @ + n] /\ q = [g EXCEPT !.refund = @ + n]
      BY <3>1 DEF addGasRefund
    <3>3. /\ p.gas = f.gas /\ p.st = f.st /\ p.pc = f.pc /\ p.stack = f.stack
          /\ p.mem = f.mem /\ p.ret = f.ret /\ p.refund = f.refund + n /\ p.log = f.log
          /\ q.gas = g.gas /\ q.st = g.st /\ q.pc = g.pc /\ q.stack = g.stack
          /\ q.mem = g.mem /\ q.ret = g.ret /\ q.refund = g.refund + n /\ q.log = g.log
      BY <2>1, <3>2 DEF Sound, Frames
    <3>. HIDE DEF p, q
    <3>. QED BY <3>1, <3>3, Zenon DEF Alike, Running
  <2>. HIDE DEF p, q
  <2>. QED BY <2>2, <2>3, <2>4, RelChange, Zenon
(* A write to the host preserves the relation. *)
<1>RelHostWrite.
      ASSUME NEW f, NEW g, NEW d \in Nat, Rel(f, g, d), NEW op \in Nat,
             Running(f) => ~f.static, Running(g) => ~g.static
      PROVE  Rel(HostWrite(f, op), HostWrite(g, op), d)
  <2>. USE <1>RelHostWrite
  <2>. DEFINE p == HostWrite(f, op)
              q == HostWrite(g, op)
  <2>. SUFFICES Rel(p, q, d)
    OBVIOUS
  <2>1. Sound(f) /\ Sound(g)
    BY Zenon DEF Rel
  <2>2. Evolves(f, p) /\ Evolves(g, q)
    BY <2>1, HostWriteCalm, CalmFacts, Zenon
  <2>3. Finished(q) => Finished(g)
    BY <2>1 DEF HostWrite, Finished, Running, Sound, Frames
  <2>4. ASSUME Apart(f, g, d)
        PROVE  Running(p) /\ Running(q) /\ Alike(p, q) /\ p.gas = f.gas /\ q.gas = g.gas
    <3>1. Running(f) /\ Running(g) /\ Alike(f, g)
      BY <2>4, Zenon DEF Apart
    <3>. DEFINE s == Append(f.log, op)
                t == Append(g.log, op)
    <3>2. p = [f EXCEPT !.log = s] /\ q = [g EXCEPT !.log = t]
      BY <3>1 DEF HostWrite
    <3>. HIDE DEF s, t
    <3>3. /\ p.gas = f.gas /\ p.st = f.st /\ p.pc = f.pc /\ p.stack = f.stack
          /\ p.mem = f.mem /\ p.ret = f.ret /\ p.refund = f.refund /\ p.log = s
          /\ q.gas = g.gas /\ q.st = g.st /\ q.pc = g.pc /\ q.stack = g.stack
          /\ q.mem = g.mem /\ q.ret = g.ret /\ q.refund = g.refund /\ q.log = t
      BY <2>1, <3>2 DEF Sound, Frames
    <3>4. s = t
      BY <3>1, Zenon DEF s, t, Alike
    <3>. HIDE DEF p, q
    <3>. QED BY <3>1, <3>3, <3>4, Zenon DEF Alike, Running
  <2>. HIDE DEF p, q
  <2>. QED BY <2>2, <2>3, <2>4, RelChange, Zenon
(* The static-mode test ends both frames or neither. *)
<1>RelStatic.
      ASSUME NEW f, NEW g, NEW d \in Nat, Rel(f, g, d)
      PROVE  Rel(RequireNotStatic(f), RequireNotStatic(g), d)
  <2>. USE <1>RelStatic
  <2>1. g.static = f.static
    BY Zenon DEF Rel, SameMessage
  <2>2. "STATIC_MODE_VIOLATION" \in Failures
    BY DEF Failures, Statuses
  <2>3. Rel(Fail(f, "STATIC_MODE_VIOLATION"), Fail(g, "STATIC_MODE_VIOLATION"), d)
    BY <2>2, RelFail, Zenon
  <2>. QED BY <2>1, <2>3, Zenon DEF RequireNotStatic
(* The surcharge of a cold account or slot preserves the relation: a
   frame that has paid ahead may only fail when the other cannot pay the
   rest of the chunk. *)
<1>RelCold.
      ASSUME NEW f, NEW g, NEW d \in Nat, Rel(f, g, d), NEW in, NEW c \in Nat
      PROVE  Rel(ChargeCold(f, in, c), ChargeCold(g, in, c), d)
  <2>. USE <1>RelCold
  <2>1. g.rev = f.rev
    BY Zenon DEF Rel, SameMessage
  <2>2. Rel(chargeGas(f, c), chargeGas(g, c), d)
    BY RelCharge, Zenon
  <2>. QED BY <2>1, <2>2, Zenon DEF ChargeCold
(* Growing memory to a size both can hold. *)
<1>RelSetMem.
      ASSUME NEW f, NEW g, NEW d \in Nat, Rel(f, g, d),
             NEW end \in Nat, end % 32 = 0, end <= MaxMemory + 31
      PROVE  Rel(IF Running(f) THEN [f EXCEPT !.mem = end] ELSE f,
                 IF Running(g) THEN [g EXCEPT !.mem = end] ELSE g, d)
  <2>. USE <1>RelSetMem
  <2>. DEFINE p == IF Running(f) THEN [f EXCEPT !.mem = end] ELSE f
              q == IF Running(g) THEN [g EXCEPT !.mem = end] ELSE g
  <2>. SUFFICES Rel(p, q, d)
    OBVIOUS
  <2>1. Sound(f) /\ Sound(g)
    BY Zenon DEF Rel
  <2>2. Evolves(f, p) /\ Evolves(g, q)
    <3>1. Evolves(f, f) /\ Evolves(g, g)
      BY <2>1, CalmReflexive, CalmFacts, Zenon
    <3>2. Running(f) => Evolves(f, [f EXCEPT !.mem = end])
      BY <2>1, SetMemEvolves, Zenon
    <3>3. Running(g) => Evolves(g, [g EXCEPT !.mem = end])
      BY <2>1, SetMemEvolves, Zenon
    <3>. QED BY <3>1, <3>2, <3>3, Zenon
  <2>3. Finished(q) => Finished(g)
    BY <2>1 DEF Finished, Running, Sound, Frames
  <2>4. ASSUME Apart(f, g, d)
        PROVE  Running(p) /\ Running(q) /\ Alike(p, q) /\ p.gas = f.gas /\ q.gas = g.gas
    <3>1. Running(f) /\ Running(g) /\ Alike(f, g)
      BY <2>4, Zenon DEF Apart
    <3>2. p = [f EXCEPT !.mem = end] /\ q = [g EXCEPT !.mem = end]
      BY <3>1
    <3>. HIDE DEF p, q
    <3>3. /\ p.gas = f.gas /\ p.st = f.st /\ p.pc = f.pc /\ p.stack = f.stack
          /\ p.mem = end /\ p.ret = f.ret /\ p.refund = f.refund /\ p.log = f.log
          /\ q.gas = g.gas /\ q.st = g.st /\ q.pc = g.pc /\ q.stack = g.stack
          /\ q.mem = end /\ q.ret = g.ret /\ q.refund = g.refund /\ q.log = g.log
      BY <2>1, <3>2 DEF Sound, Frames
    <3>. QED BY <3>1, <3>3, Zenon DEF Alike, Running
  <2>. HIDE DEF p, q
  <2>. QED BY <2>2, <2>3, <2>4, RelChange, Zenon
(* Memory expansion preserves the relation, its charge included. *)
<1>RelExpand.
      ASSUME NEW f, NEW g, NEW d \in Nat, Rel(f, g, d), NEW off \in Nat, NEW size \in Nat
      PROVE  Rel(checkMemoryExpandAndChargeGas(f, off, size),
                 checkMemoryExpandAndChargeGas(g, off, size), d)
  <2>. USE <1>RelExpand
  <2>. DEFINE end == 32 * numWords(off + size)
              c == MemoryGas(end) - MemoryGas(f.mem)
              x == chargeGas(f, c)
              y == chargeGas(g, c)
              p == checkMemoryExpandAndChargeGas(f, off, size)
              q == checkMemoryExpandAndChargeGas(g, off, size)
              big == size > U64Max \/ off > U64Max \/ off + size > MaxMemory
  <2>. SUFFICES Rel(p, q, d)
    OBVIOUS
  <2>1. Sound(f) /\ Sound(g) /\ f.mem \in Nat /\ g.mem \in Nat
    BY FrameFields, Zenon DEF Rel
  <2>2. Evolves(f, p) /\ Evolves(g, q)
    BY <2>1, MemoryExpandEvolves, Zenon
  <2>3. CASE ~Running(f)
    <3>1. Finished(q) => Finished(g)
      <4>. DEFINE e == MemoryGas(end) - MemoryGas(g.mem)
                  z == chargeGas(g, e)
      <4>1. \/ q = g \/ q = Fail(g, "OUT_OF_GAS") \/ q = z
            \/ (Running(z) /\ q = [z EXCEPT !.mem = end])
        BY DEF checkMemoryExpandAndChargeGas
      <4>2. Finished(Fail(g, "OUT_OF_GAS")) => Finished(g)
        BY <2>1 DEF Fail, Finished, Running, Sound, Frames
      <4>. HIDE DEF e, end
      <4>3. Finished(z) => Finished(g)
        BY <2>1 DEF chargeGas, Fail, Finished, Running, Sound, Frames
      <4>. HIDE DEF z, q
      <4>4. CASE Running(z) /\ q = [z EXCEPT !.mem = end]
        BY <4>4 DEF Finished, Running
      <4>. QED BY <4>1, <4>2, <4>3, <4>4, Zenon
    <3>. HIDE DEF p, q
    <3>. QED BY <2>2, <2>3, <3>1, RelStopped, Zenon
  <2>4. CASE Running(f)
    <3>1. Running(g) /\ g.mem = f.mem
      BY <2>4, RelRunning, Zenon DEF Apart, Alike
    <3>2. CASE size = 0
      <4>1. p = f /\ q = g
        BY <3>2 DEF checkMemoryExpandAndChargeGas
      <4>. QED BY <4>1, Zenon
    <3>3. CASE size # 0 /\ big
      <4>1. p = Fail(f, "OUT_OF_GAS") /\ q = Fail(g, "OUT_OF_GAS")
        BY <2>4, <3>1, <3>3 DEF checkMemoryExpandAndChargeGas
      <4>2. "OUT_OF_GAS" \in Failures
        BY DEF Failures, Statuses
      <4>. HIDE DEF p, q
      <4>. QED BY <4>1, <4>2, RelFail, Zenon
    <3>4. CASE size # 0 /\ ~big /\ end <= f.mem
      <4>1. p = f /\ q = g
        BY <2>4, <3>1, <3>4 DEF checkMemoryExpandAndChargeGas
      <4>. QED BY <4>1, Zenon
    <3>5. CASE size # 0 /\ ~big /\ ~(end <= f.mem)
      <4>1. /\ p = IF Running(x) THEN [x EXCEPT !.mem = end] ELSE x
            /\ q = IF Running(y) THEN [y EXCEPT !.mem = end] ELSE y
        BY <2>4, <3>1, <3>5 DEF checkMemoryExpandAndChargeGas
      <4>2. end \in Nat /\ end % 32 = 0 /\ end <= MaxMemory + 31
        BY <3>5, CodeAssumption DEF numWords
      <4>. HIDE DEF end, p, q
      <4>3. f.mem <= end
        BY <2>1, <3>5, <4>2
      <4>4. MemoryGas(f.mem) \in Nat /\ MemoryGas(end) \in Nat /\ MemoryGas(f.mem) <= MemoryGas(end)
        BY <2>1, <4>2, <4>3, MemoryGasGrows, Zenon
      <4>5. c \in Nat
        BY <4>4
      <4>. HIDE DEF c
      <4>6. Rel(x, y, d)
        BY <4>5, RelCharge, Zenon
      <4>. HIDE DEF x, y
      <4>. QED BY <4>1, <4>2, <4>6, <1>RelSetMem, Zenon
    <3>. QED BY <3>2, <3>3, <3>4, <3>5, Zenon
  <2>. QED BY <2>3, <2>4, Zenon
(* The words that DUP and SWAP have read put back. *)
<1>RelPutBack.
      ASSUME NEW f, NEW g, NEW d \in Nat, Rel(f, g, d), Running(f), NEW a \in Seq(Nat),
             Len(a) + Len(f.stack) <= MaxStack
      PROVE  Rel(PutBack(f, a), PutBack(g, a), d)
  <2>. USE <1>RelPutBack
  <2>. DEFINE s == a \o f.stack
              p == [f EXCEPT !.stack = s]
              q == [g EXCEPT !.stack = s]
  <2>1. Sound(f) /\ Sound(g) /\ Apart(f, g, d)
    BY RelRunning, Zenon DEF Rel
  <2>2. g.stack = f.stack /\ Running(g)
    BY <2>1, Zenon DEF Apart, Alike
  <2>3. p = [f EXCEPT !.stack = a \o @] /\ q = [g EXCEPT !.stack = a \o @]
    BY <2>2, Zenon
  <2>4. Calm(f, p) /\ Calm(g, q)
    <3>. HIDE DEF p, q
    <3>. QED BY <2>1, <2>2, <2>3, PutBackCalm, Zenon
  <2>5. Evolves(f, p) /\ Evolves(g, q)
    <3>. HIDE DEF p, q
    <3>. QED BY <2>4, CalmFacts, Zenon
  <2>. HIDE DEF s
  <2>6. /\ p.stack = s /\ p.gas = f.gas /\ p.st = f.st /\ p.pc = f.pc /\ p.mem = f.mem
        /\ p.ret = f.ret /\ p.refund = f.refund /\ p.log = f.log
        /\ q.stack = s /\ q.gas = g.gas /\ q.st = g.st /\ q.pc = g.pc /\ q.mem = g.mem
        /\ q.ret = g.ret /\ q.refund = g.refund /\ q.log = g.log
    BY <2>1 DEF Sound, Frames
  <2>. HIDE DEF p, q
  <2>7. /\ Finished(q) => Finished(g)
        /\ Running(p) /\ Running(q) /\ Alike(p, q)
    BY <2>1, <2>6, Zenon DEF Apart, Alike, Finished, Running
  <2>8. Rel(p, q, d)
    BY <2>5, <2>6, <2>7, RelChange, Zenon
  <2>. QED BY <2>3, <2>8, Zenon DEF PutBack
(* EXP pays for its exponent; the others only push their result. *)
<1>RelArithmetic.
      ASSUME NEW f, NEW g, NEW d \in Nat, Rel(f, g, d), NEW op, NEW a \in Seq(Nat), NEW in,
             in.word \in Nat, op \in {ADD, SUB, LT} => Len(a) >= 2
      PROVE  Rel(Arithmetic(f, op, a, in), Arithmetic(g, op, a, in), d)
  <2>. USE <1>RelArithmetic
  <2>. DEFINE x == IF op = EXP THEN chargeGas(f, 50 * ByteLength(a[2])) ELSE f
              y == IF op = EXP THEN chargeGas(g, 50 * ByteLength(a[2])) ELSE g
  <2>1. 50 * ByteLength(a[2]) \in Nat
    BY ByteLengthType
  <2>2. Rel(x, y, d)
    BY <2>1, RelCharge, Zenon
  <2>3. /\ Arithmetic(f, op, a, in) = Push(x, ResultOf(op, a, in))
        /\ Arithmetic(g, op, a, in) = Push(y, ResultOf(op, a, in))
    BY DEF Arithmetic
  <2>4. ResultOf(op, a, in) \in Nat
    BY ResultType, Zenon
  <2>. HIDE DEF x, y
  <2>. QED BY <2>2, <2>3, <2>4, <1>RelPush, Zenon
(* Reads of accounts, storage and memory. *)
<1>RelLoad.
      ASSUME NEW f, NEW g, NEW d \in Nat, Rel(f, g, d), NEW op, NEW a, a[1] \in Nat, NEW in,
             in.word \in Nat
      PROVE  Rel(Load(f, op, a, in), Load(g, op, a, in), d)
  <2>. USE <1>RelLoad
  <2>1. /\ ADDITIONAL_COLD_ACCOUNT_ACCESS_COST \in Nat /\ ADDITIONAL_COLD_SLOAD_COST \in Nat
        /\ 32 \in Nat
    BY DEF ADDITIONAL_COLD_ACCOUNT_ACCESS_COST, ADDITIONAL_COLD_SLOAD_COST,
           COLD_ACCOUNT_ACCESS_COST, COLD_SLOAD_COST, WARM_STORAGE_READ_COST
  <2>2. ASSUME NEW x, NEW y, Rel(x, y, d) PROVE Rel(Push(x, in.word), Push(y, in.word), d)
    BY <2>2, <1>RelPush, Zenon
  <2>3. CASE op \in {BALANCE, EXTCODESIZE, EXTCODEHASH}
    <3>1. ASSUME NEW h PROVE
            Load(h, op, a, in)
              = Push(ChargeCold(h, in, ADDITIONAL_COLD_ACCOUNT_ACCESS_COST), in.word)
      BY <2>3 DEF Load, BALANCE, EXTCODESIZE, EXTCODEHASH, SLOAD, MLOAD
    <3>. QED BY <2>1, <2>2, <3>1, <1>RelCold, Zenon
  <2>4. CASE op = SLOAD
    <3>1. ASSUME NEW h PROVE
            Load(h, op, a, in) = Push(ChargeCold(h, in, ADDITIONAL_COLD_SLOAD_COST), in.word)
      BY <2>4 DEF Load, BALANCE, EXTCODESIZE, EXTCODEHASH, SLOAD, MLOAD
    <3>. QED BY <2>1, <2>2, <3>1, <1>RelCold, Zenon
  <2>5. CASE op = MLOAD
    <3>1. ASSUME NEW h PROVE
            Load(h, op, a, in) = Push(checkMemoryExpandAndChargeGas(h, a[1], 32), in.word)
      BY <2>5 DEF Load, BALANCE, EXTCODESIZE, EXTCODEHASH, SLOAD, MLOAD
    <3>. QED BY <2>1, <2>2, <3>1, <1>RelExpand, Zenon
  <2>6. CASE op \notin {BALANCE, EXTCODESIZE, EXTCODEHASH, SLOAD, MLOAD}
    <3>1. ASSUME NEW h PROVE Load(h, op, a, in) = Push(h, in.word)
      BY <2>6 DEF Load
    <3>. QED BY <2>2, <3>1, Zenon
  <2>. QED BY <2>3, <2>4, <2>5, <2>6, Zenon
(* DUPn preserves the relation. *)
<1>RelDup.
      ASSUME NEW f, NEW g, NEW d \in Nat, Rel(f, g, d), Running(f), NEW a \in Seq(Nat),
             NEW n \in 1..Len(a), Len(a) + Len(f.stack) <= MaxStack
      PROVE  Rel(DupWord(f, a, n), DupWord(g, a, n), d)
  <2>. USE <1>RelDup
  <2>. DEFINE p == PutBack(f, a)
              q == PutBack(g, a)
  <2>1. Rel(p, q, d)
    BY <1>RelPutBack, Zenon
  <2>2. a[n] \in Nat
    BY ElementOfSeq, Zenon
  <2>3. DupWord(f, a, n) = Push(p, a[n]) /\ DupWord(g, a, n) = Push(q, a[n])
    BY DEF DupWord, PutBack
  <2>. HIDE DEF p, q
  <2>. QED BY <2>1, <2>2, <2>3, <1>RelPush, Zenon
(* SWAPn preserves the relation. *)
<1>RelSwap.
      ASSUME NEW f, NEW g, NEW d \in Nat, Rel(f, g, d), Running(f), NEW a \in Seq(Nat),
             NEW n \in 1..Len(a), Len(a) + Len(f.stack) <= MaxStack
      PROVE  Rel(SwapWords(f, a, n), SwapWords(g, a, n), d)
  <2>. USE <1>RelSwap
  <2>. DEFINE b == [a EXCEPT ![1] = a[n]]
              c == [b EXCEPT ![n] = a[1]]
  <2>1. 1 \in 1..Len(a)
    BY LenProperties
  <2>2. a[n] \in Nat /\ a[1] \in Nat
    BY <2>1, ElementOfSeq, Zenon
  <2>3. b \in Seq(Nat) /\ Len(b) = Len(a)
    BY <2>1, <2>2, ExceptSeq
  <2>. HIDE DEF b
  <2>4. c \in Seq(Nat) /\ Len(c) = Len(a)
    BY <2>2, <2>3, ExceptSeq
  <2>5. SwapWords(f, a, n) = PutBack(f, c) /\ SwapWords(g, a, n) = PutBack(g, c)
    BY DEF SwapWords, PutBack, b
  <2>. HIDE DEF c
  <2>6. Len(c) + Len(f.stack) <= MaxStack
    BY <2>4
  <2>. QED BY <2>4, <2>5, <2>6, <1>RelPutBack, Zenon
(* The charge for copied words preserves the relation. *)
<1>RelCopyCharge.
      ASSUME NEW f, NEW g, NEW d \in Nat, Rel(f, g, d), NEW size \in Nat
      PROVE  Rel(copyCodeAndChargeGas(f, size), copyCodeAndChargeGas(g, size), d)
  <2>. USE <1>RelCopyCharge
  <2>1. 3 * numWords(uint256ToUint64(size)) \in Nat
    <3>1. numWords(uint256ToUint64(size)) \in Nat
      BY U64Type, NumWords, Zenon
    <3>. QED BY <3>1
  <2>. QED BY <2>1, RelCharge, Zenon DEF copyCodeAndChargeGas
(* Copies into memory pay for its growth, then for the words copied. *)
<1>RelCopy.
      ASSUME NEW f, NEW g, NEW d \in Nat, Rel(f, g, d), NEW a, a[1] \in Nat, a[3] \in Nat
      PROVE  Rel(Copy(f, a), Copy(g, a), d)
  BY <1>RelCopy, <1>RelExpand, <1>RelCopyCharge, Zenon DEF Copy
(* EXTCODECOPY preserves the relation. *)
<1>RelExtCodeCopy.
      ASSUME NEW f, NEW g, NEW d \in Nat, Rel(f, g, d), NEW a \in Seq(Nat), Len(a) = 4, NEW in
      PROVE  Rel(ExtCodeCopy(f, a, in), ExtCodeCopy(g, a, in), d)
  <2>. USE <1>RelExtCodeCopy
  <2>. DEFINE b == Tail(a)
  <2>1. b \in Seq(Nat) /\ Len(b) = 3
    <3>1. a # <<>>
      <4>1. Len(<<>>) = 0
        BY EmptySeq
      <4>2. Len(a) # Len(<<>>)
        BY <4>1
      <4>. QED BY <4>2, Zenon
    <3>2. Tail(a) \in Seq(Nat) /\ Len(Tail(a)) = Len(a) - 1
      BY <3>1, HeadTailProperties, Zenon
    <3>. QED BY <3>2
  <2>2. /\ ExtCodeCopy(f, a, in) = ChargeCold(Copy(f, b), in, ADDITIONAL_COLD_ACCOUNT_ACCESS_COST)
        /\ ExtCodeCopy(g, a, in) = ChargeCold(Copy(g, b), in, ADDITIONAL_COLD_ACCOUNT_ACCESS_COST)
    BY Zenon DEF ExtCodeCopy
  <2>. HIDE DEF b
  <2>3. 1 \in 1..Len(b) /\ 3 \in 1..Len(b)
    BY <2>1
  <2>4. b[1] \in Nat /\ b[3] \in Nat
    BY <2>1, <2>3, ElementOfSeq, Zenon
  <2>5. ADDITIONAL_COLD_ACCOUNT_ACCESS_COST \in Nat
    BY DEF ADDITIONAL_COLD_ACCOUNT_ACCESS_COST, COLD_ACCOUNT_ACCESS_COST, WARM_STORAGE_READ_COST
  <2>6. Rel(Copy(f, b), Copy(g, b), d)
    BY <2>4, <1>RelCopy, Zenon
  <2>. QED BY <2>2, <2>5, <2>6, <1>RelCold, Zenon
(* Both frames hold the same return data. *)
<1>RelReturnDataCopy.
      ASSUME NEW f, NEW g, NEW d \in Nat, Rel(f, g, d), Running(f), NEW a, a[1] \in Nat,
             a[3] \in Nat
      PROVE  Rel(ReturnDataCopy(f, a), ReturnDataCopy(g, a), d)
  <2>. USE <1>RelReturnDataCopy
  <2>1. g.ret = f.ret
    BY RelRunning, Zenon DEF Apart, Alike
  <2>2. Rel(Copy(f, a), Copy(g, a), d)
    BY <1>RelCopy, Zenon
  <2>3. "INVALID_MEMORY_ACCESS" \in Failures
    BY DEF Failures, Statuses
  <2>4. Rel(Fail(f, "INVALID_MEMORY_ACCESS"), Fail(g, "INVALID_MEMORY_ACCESS"), d)
    BY <2>3, RelFail, Zenon
  <2>. QED BY <2>1, <2>2, <2>4, Zenon DEF ReturnDataCopy
(* MCOPY preserves the relation. *)
<1>RelMCopy.
      ASSUME NEW f, NEW g, NEW d \in Nat, Rel(f, g, d), NEW a, a[1] \in Nat, a[2] \in Nat,
             a[3] \in Nat
      PROVE  Rel(MCopy(f, a), MCopy(g, a), d)
  <2>. USE <1>RelMCopy
  <2>. DEFINE top == IF a[1] > a[2] THEN a[1] ELSE a[2]
  <2>1. top \in Nat
    OBVIOUS
  <2>. DEFINE M(h) == copyCodeAndChargeGas(checkMemoryExpandAndChargeGas(h, top, a[3]), a[3])
  <2>2. /\ MCopy(f, a) = IF a[3] = 0 THEN f ELSE M(f)
        /\ MCopy(g, a) = IF a[3] = 0 THEN g ELSE M(g)
    BY DEF MCopy
  <2>. HIDE DEF top
  <2>3. Rel(M(f), M(g), d)
    BY <2>1, <1>RelExpand, <1>RelCopyCharge, Zenon
  <2>. HIDE DEF M
  <2>. QED BY <2>2, <2>3, Zenon
(* KECCAK256 preserves the relation. *)
<1>RelKeccak256.
      ASSUME NEW f, NEW g, NEW d \in Nat, Rel(f, g, d), NEW a, a[1] \in Nat, a[2] \in Nat,
             NEW in, in.word \in Nat
      PROVE  Rel(Keccak256(f, a, in), Keccak256(g, a, in), d)
  <2>. USE <1>RelKeccak256
  <2>1. 6 * numWords(a[2]) \in Nat
    <3>1. numWords(a[2]) \in Nat
      BY NumWords, Zenon
    <3>. QED BY <3>1
  <2>2. Rel(chargeGas(checkMemoryExpandAndChargeGas(f, a[1], a[2]), 6 * numWords(a[2])),
            chargeGas(checkMemoryExpandAndChargeGas(g, a[1], a[2]), 6 * numWords(a[2])), d)
    BY <2>1, <1>RelExpand, RelCharge, Zenon
  <2>. QED BY <2>2, <1>RelPush, Zenon DEF Keccak256
(* MSTORE and MSTORE8 preserve the relation. *)
<1>RelMStore.
      ASSUME NEW f, NEW g, NEW d \in Nat, Rel(f, g, d), NEW op, NEW a, a[1] \in Nat
      PROVE  Rel(MStore(f, op, a), MStore(g, op, a), d)
  <2>. USE <1>RelMStore
  <2>1. (IF op = MSTORE8 THEN 1 ELSE 32) \in Nat
    OBVIOUS
  <2>. QED BY <2>1, <1>RelExpand, Zenon DEF MStore
(* What a storage write costs depends on the revision and the host only. *)
<1>RelSStore.
      ASSUME NEW f, NEW g, NEW d \in Nat, Rel(f, g, d), ~f.static, NEW in
      PROVE  Rel(SStore(f, in), SStore(g, in), d)
  <2>. USE <1>RelSStore
  <2>. DEFINE cost == SStoreCost(f.rev, in.status)
              cold == IF f.rev >= BERLIN /\ in.cold THEN COLD_SLOAD_COST ELSE 0
  <2>1. f.rev \in Nat /\ g.rev = f.rev /\ ~g.static
    BY RelSound, FrameFields, Zenon
  <2>2. cost[1] \in Nat /\ cost[2] \in Int
    BY <2>1, SStoreCostType
  <2>3. cold \in Nat
    BY DEF COLD_SLOAD_COST
  <2>4. SSTORE \in Nat
    BY DEF SSTORE
  <2>5. /\ SStore(f, in) = addGasRefund(chargeGas(HostWrite(f, SSTORE), cold + cost[1]), cost[2])
        /\ SStore(g, in) = addGasRefund(chargeGas(HostWrite(g, SSTORE), cold + cost[1]), cost[2])
    BY <2>1 DEF SStore
  <2>. HIDE DEF cost, cold
  <2>6. cold + cost[1] \in Nat
    BY <2>2, <2>3
  <2>7. Rel(HostWrite(f, SSTORE), HostWrite(g, SSTORE), d)
    BY <2>1, <2>4, <1>RelHostWrite, Zenon
  <2>. QED BY <2>2, <2>5, <2>6, <2>7, RelCharge, <1>RelRefund, Zenon
(* A log is written after it has been paid for. *)
<1>RelLog.
      ASSUME NEW f, NEW g, NEW d \in Nat, Rel(f, g, d), ~f.static, NEW op \in Nat, NEW a,
             a[1] \in Nat, a[2] \in Nat
      PROVE  Rel(Log(f, op, a), Log(g, op, a), d)
  <2>. USE <1>RelLog
  <2>. DEFINE x == checkMemoryExpandAndChargeGas(f, a[1], a[2])
              y == checkMemoryExpandAndChargeGas(g, a[1], a[2])
              p == chargeGas(x, 8 * a[2])
              q == chargeGas(y, 8 * a[2])
  <2>1. 8 * a[2] \in Nat
    OBVIOUS
  <2>2. Rel(x, y, d) /\ Evolves(f, x)
    BY <1>RelExpand, RelSound, MemoryExpandEvolves, Zenon
  <2>3. Log(f, op, a) = HostWrite(p, op) /\ Log(g, op, a) = HostWrite(q, op)
    BY Zenon DEF Log
  <2>. HIDE DEF x, y
  <2>4. Rel(p, q, d) /\ Evolves(x, p)
    BY <2>1, <2>2, RelCharge, RelSound, ChargeCalm, CalmFacts, Zenon
  <2>. HIDE DEF p, q
  <2>5. p.static = f.static /\ q.static = p.static
    BY <2>2, <2>4, RelSound, Zenon DEF Evolves
  <2>. QED BY <2>3, <2>4, <2>5, <1>RelHostWrite, Zenon
(* The charge for a nested call preserves the relation. *)
<1>RelChargeUsed.
      ASSUME NEW f, NEW g, NEW d \in Nat, Rel(f, g, d), NEW given \in Nat, NEW in, in.left \in Nat
      PROVE  Rel(ChargeUsed(f, given, in), ChargeUsed(g, given, in), d)
  <2>. USE <1>RelChargeUsed
  <2>. DEFINE left == (given * in.left) \div 2
              cost == IF given > left THEN given - left ELSE 0
  <2>1. given * in.left \in Nat
    OBVIOUS
  <2>2. left \in Nat
    BY <2>1
  <2>3. ChargeUsed(f, given, in) = chargeGas(f, cost) /\ ChargeUsed(g, given, in) = chargeGas(g, cost)
    BY DEF ChargeUsed
  <2>. HIDE DEF left
  <2>4. cost \in Nat
    BY <2>2
  <2>. HIDE DEF cost
  <2>. QED BY <2>3, <2>4, RelCharge, Zenon
(* CREATE and CREATE2 up to the nested message. *)
<1>RelCreate.
      ASSUME NEW f, NEW g, Rel(f, g, 0), NEW op \in Nat, NEW a,
             a[1] \in Nat, a[2] \in Nat, a[3] \in Nat, NEW in, Answer(in)
      PROVE  Rel(Create(f, op, a, in), Create(g, op, a, in), 0)
  <2>. USE <1>RelCreate
  <2>. DEFINE word == (IF op = CREATE2 THEN 6 ELSE 0) + (IF f.rev >= SHANGHAI THEN 2 ELSE 0)
              cost == word * uint256ToUint64(numWords(a[3]))
              R(x) == RequireNotStatic(SetRet(x, 0))
              G(x) == checkMemoryExpandAndChargeGas(R(x), a[2], a[3])
              H(x) == IF f.rev >= SHANGHAI /\ a[3] > MaxInitcode THEN Fail(G(x), "OUT_OF_GAS")
                      ELSE chargeGas(G(x), cost)
              D(h) == addGasRefund(ChargeUsed(HostWrite(h, op), AllButOne64th(h.gas), in), in.refund)
              C(h) == IF ~Running(h) THEN h
                      ELSE IF h.deep \/ (a[1] # 0 /\ in.poor) THEN Push(h, 0)
                      ELSE IF in.ok THEN Push(SetRet(D(h), 0), in.word)
                      ELSE Push(SetRet(D(h), in.size), 0)
  <2>1. 0 \in Nat /\ word \in Nat
    OBVIOUS
  <2>2. cost \in Nat
    <3>1. numWords(a[3]) \in Nat
      BY NumWords, Zenon
    <3>2. uint256ToUint64(numWords(a[3])) \in Nat
      BY <3>1, U64Type, Zenon
    <3>. HIDE DEF word
    <3>. QED BY <2>1, <3>2
  <2>3. Create(f, op, a, in) = C(H(f)) /\ Create(g, op, a, in) = C(H(g))
    <3>1. g.rev = f.rev
      BY RelSound, Zenon
    <3>2. Create(f, op, a, in) = C(H(f))
      BY Zenon DEF Create
    <3>3. Create(g, op, a, in) = C(H(g))
      BY <3>1, Zenon DEF Create
    <3>. QED BY <3>2, <3>3, Zenon
  <2>. HIDE DEF word, cost, C, D
  <2>4. Rel(SetRet(f, 0), SetRet(g, 0), 0)
    BY <2>1, <1>RelSetRet, Zenon
  <2>5. Rel(R(f), R(g), 0) /\ Sound(R(f)) /\ (Running(R(f)) => ~R(f).static)
    BY <2>4, <1>RelStatic, RelSound, RequireNotStaticCalm, Zenon
  <2>. HIDE DEF R
  <2>6. Rel(G(f), G(g), 0) /\ Evolves(R(f), G(f))
    BY <2>1, <2>5, <1>RelExpand, MemoryExpandEvolves, Zenon
  <2>. HIDE DEF G
  <2>7. Rel(H(f), H(g), 0)
    <3>1. "OUT_OF_GAS" \in Failures
      BY DEF Failures, Statuses
    <3>2. Rel(Fail(G(f), "OUT_OF_GAS"), Fail(G(g), "OUT_OF_GAS"), 0)
      BY <2>1, <2>6, <3>1, RelFail, Zenon
    <3>3. Rel(chargeGas(G(f), cost), chargeGas(G(g), cost), 0)
      BY <2>1, <2>2, <2>6, RelCharge, Zenon
    <3>. QED BY <3>2, <3>3, Zenon
  <2>8. Evolves(G(f), H(f))
    <3>1. Sound(G(f))
      BY <2>6, RelSound, Zenon
    <3>2. Evolves(G(f), Fail(G(f), "OUT_OF_GAS"))
      BY <3>1, FailCalm, CalmFacts, Zenon DEF Statuses
    <3>3. Evolves(G(f), chargeGas(G(f), cost))
      BY <2>2, <3>1, ChargeCalm, CalmFacts, Zenon
    <3>. QED BY <3>2, <3>3, Zenon
  <2>. DEFINE h == H(f)
              k == H(g)
  <2>9. Rel(h, k, 0) /\ (Running(h) => ~h.static)
    BY <2>5, <2>6, <2>7, <2>8, Zenon DEF Evolves
  <2>10. Create(f, op, a, in) = C(h) /\ Create(g, op, a, in) = C(k)
    BY <2>3, Zenon
  <2>. HIDE DEF h, k, H
  <2>11. (Running(h) <=> Running(k)) /\ k.deep = h.deep
    BY <2>9, RelNoDebt, RelSound, Zenon
  <2>12. CASE ~Running(h)
    BY <2>9, <2>10, <2>11, <2>12, Zenon DEF C
  <2>13. CASE Running(h)
    <3>1. k.gas = h.gas /\ ~h.static /\ ~k.static /\ AllButOne64th(h.gas) \in Nat
      BY <2>9, <2>13, RelNoDebt, RelSound, FrameFields, AllButOne64thType, Zenon
    <3>2. Rel(HostWrite(h, op), HostWrite(k, op), 0)
      BY <2>1, <2>9, <3>1, <1>RelHostWrite, Zenon
    <3>3. Rel(D(h), D(k), 0)
      BY <2>1, <3>1, <3>2, <1>RelChargeUsed, <1>RelRefund, Zenon DEF D, Answer
    <3>4. ASSUME NEW n \in Nat, NEW v \in Nat
          PROVE  Rel(Push(SetRet(D(h), n), v), Push(SetRet(D(k), n), v), 0)
      BY <2>1, <3>3, <1>RelSetRet, <1>RelPush, Zenon
    <3>5. Rel(Push(h, 0), Push(k, 0), 0)
      BY <2>1, <2>9, <1>RelPush, Zenon
    <3>6. /\ Rel(Push(SetRet(D(h), 0), in.word), Push(SetRet(D(k), 0), in.word), 0)
          /\ Rel(Push(SetRet(D(h), in.size), 0), Push(SetRet(D(k), in.size), 0), 0)
      BY <2>1, <3>4, Zenon DEF Answer
    <3>. QED BY <2>10, <2>11, <2>13, <3>5, <3>6, Zenon DEF C
  <2>. QED BY <2>12, <2>13, Zenon
(* Adding a call's stipend preserves equality of the two frames. *)
<1>RelStipend.
      ASSUME NEW f, NEW g, Rel(f, g, 0), Running(f), NEW n \in Nat
      PROVE  Rel(Stipend(f, n), Stipend(g, n), 0)
  <2>. USE <1>RelStipend
  <2>. DEFINE p == Stipend(f, n)
              q == Stipend(g, n)
  <2>. SUFFICES Rel(p, q, 0)
    OBVIOUS
  <2>1. Sound(f) /\ Sound(g) /\ SameMessage(f, g) /\ Apart(f, g, 0)
    BY RelRunning, Zenon DEF Rel
  <2>2. f \in Frames /\ g \in Frames /\ f.gas + n \in Nat /\ g.gas + n \in Nat
    BY <2>1, FrameFields DEF Sound
  <2>3. p \in Frames /\ q \in Frames
    BY <2>2, Zenon DEF Frames, Stipend
  <2>4. /\ p.gas = f.gas + n /\ p.stack = f.stack /\ p.mem = f.mem /\ p.pc = f.pc
        /\ p.until = f.until /\ p.snap = f.snap /\ p.rev = f.rev /\ p.static = f.static
        /\ p.deep = f.deep /\ p.log = f.log /\ p.st = f.st /\ p.ret = f.ret
        /\ p.refund = f.refund
    BY <2>2 DEF Frames, Stipend
  <2>5. /\ q.gas = g.gas + n /\ q.stack = g.stack /\ q.mem = g.mem /\ q.pc = g.pc
        /\ q.until = g.until /\ q.snap = g.snap /\ q.rev = g.rev /\ q.static = g.static
        /\ q.deep = g.deep /\ q.log = g.log /\ q.st = g.st /\ q.ret = g.ret
        /\ q.refund = g.refund
    BY <2>2 DEF Frames, Stipend
  <2>. HIDE DEF p, q
  <2>6. Sound(p) /\ Sound(q)
    BY <2>1, <2>3, <2>4, <2>5 DEF Sound
  <2>7. q.gas = p.gas + 0
    BY <2>1, <2>2, <2>4, <2>5, FrameFields DEF Apart
  <2>8. Apart(p, q, 0)
    BY <2>1, <2>4, <2>5, <2>7, Zenon DEF Apart, Alike, Running
  <2>9. SameMessage(p, q)
    BY <2>1, <2>4, <2>5, Zenon DEF SameMessage
  <2>. QED BY <2>6, <2>8, <2>9, Zenon DEF Rel
(* Resolving a delegated code address preserves the relation. *)
<1>RelDelegated.
      ASSUME NEW f, NEW g, NEW d \in Nat, Rel(f, g, d), NEW in
      PROVE  Rel(resolveDelegatedCallCodeAddress(f, in), resolveDelegatedCallCodeAddress(g, in), d)
  <2>. USE <1>RelDelegated
  <2>. DEFINE c == IF in.delegate = "cold" THEN COLD_ACCOUNT_ACCESS_COST ELSE WARM_STORAGE_READ_COST
  <2>1. c \in Nat
    BY DEF COLD_ACCOUNT_ACCESS_COST, WARM_STORAGE_READ_COST
  <2>2. /\ resolveDelegatedCallCodeAddress(f, in)
             = IF f.rev < PRAGUE \/ in.delegate = "none" THEN f ELSE chargeGas(f, c)
        /\ resolveDelegatedCallCodeAddress(g, in)
             = IF g.rev < PRAGUE \/ in.delegate = "none" THEN g ELSE chargeGas(g, c)
    BY Zenon DEF resolveDelegatedCallCodeAddress
  <2>. HIDE DEF c
  <2>3. Rel(chargeGas(f, c), chargeGas(g, c), d) /\ g.rev = f.rev
    BY <2>1, RelCharge, RelSound, Zenon
  <2>. QED BY <2>2, <2>3, Zenon
(* The CALL family: the gas given to the nested message, and what it gives
   back, follow from the gas that is left. *)
<1>RelCall.
      ASSUME NEW f, NEW g, Rel(f, g, 0), NEW op \in CallOps, NEW a \in Seq(Nat),
             Len(a) = Required(op), NEW in, Answer(in)
      PROVE  Rel(Call(f, op, a, in), Call(g, op, a, in), 0)
  <2>. USE <1>RelCall
  <2>. DEFINE value == CallValueOf(op, a)
              r == RangesOf(op, a)
              stipend == IF value # 0 THEN CALL_GAS_STIPEND ELSE 0
              X(x) == resolveDelegatedCallCodeAddress(
                        ChargeCold(SetRet(x, 0), in, ADDITIONAL_COLD_ACCOUNT_ACCESS_COST), in)
              S(x) == IF op = CALL /\ value # 0 THEN RequireNotStatic(X(x)) ELSE X(x)
              M(x) == checkMemoryExpandAndChargeGas(
                        checkMemoryExpandAndChargeGas(S(x), r[1], r[2]), r[3], r[4])
              V(x) == chargeGas(M(x), ValueCost(op, value, in))
              give(h) == (IF uint256ToUint64(a[1]) < AllButOne64th(h.gas) THEN uint256ToUint64(a[1])
                          ELSE AllButOne64th(h.gas)) + stipend
              W(s) == IF op = STATICCALL \/ f.static THEN s ELSE HostWrite(s, op)
              E(h) == ChargeUsed(SetRet(Push(W(Stipend(h, stipend)), IF in.ok THEN 1 ELSE 0), in.size),
                                 give(h), in)
              C(h) == IF ~Running(h) THEN h
                      ELSE IF (value # 0 /\ in.poor) \/ f.deep THEN Push(Stipend(h, stipend), 0)
                      ELSE addGasRefund(E(h), in.refund)
              D(h, static, deep) ==
                LET w == IF op = STATICCALL \/ static THEN Stipend(h, stipend)
                         ELSE HostWrite(Stipend(h, stipend), op)
                IN  IF ~Running(h) THEN h
                    ELSE IF (value # 0 /\ in.poor) \/ deep THEN Push(Stipend(h, stipend), 0)
                    ELSE addGasRefund(ChargeUsed(SetRet(Push(w, IF in.ok THEN 1 ELSE 0), in.size),
                                                 give(h), in), in.refund)
  <2>1. /\ a[1] \in Nat /\ value \in Nat
        /\ r[1] \in Nat /\ r[2] \in Nat /\ r[3] \in Nat /\ r[4] \in Nat
    <3>1. 1 \in 1..4 /\ 2 \in 1..4 /\ 3 \in 1..4 /\ 4 \in 1..4
      OBVIOUS
    <3>. QED BY <3>1, RangesType, Zenon
  <2>2. /\ ADDITIONAL_COLD_ACCOUNT_ACCESS_COST \in Nat /\ CALL_GAS_STIPEND \in Nat /\ 0 \in Nat
        /\ (IF in.ok THEN 1 ELSE 0) \in Nat /\ op \in Nat
    BY DEF ADDITIONAL_COLD_ACCOUNT_ACCESS_COST, COLD_ACCOUNT_ACCESS_COST, WARM_STORAGE_READ_COST,
           CALL_GAS_STIPEND, CallOps, CALL, CALLCODE, DELEGATECALL, STATICCALL
  <2>3. Call(f, op, a, in) = C(V(f)) /\ Call(g, op, a, in) = C(V(g))
    <3>1. g.static = f.static /\ g.deep = f.deep
      BY RelSound, Zenon
    <3>2. Call(f, op, a, in) = C(V(f))
      BY Zenon DEF Call, Stipend
    <3>3. Call(g, op, a, in) = D(V(g), g.static, g.deep)
      BY Zenon DEF Call, Stipend
    <3>4. D(V(g), g.static, g.deep) = D(V(g), f.static, f.deep)
      <4>. HIDE DEF D, V
      <4>. QED BY <3>1, Zenon
    <3>5. D(V(g), f.static, f.deep) = C(V(g))
      <4>. HIDE DEF V, give
      <4>. QED BY Zenon
    <3>. HIDE DEF C, D, V
    <3>. QED BY <3>2, <3>3, <3>4, <3>5, Zenon
  <2>4. stipend \in Nat
    BY <2>2, Zenon
  <2>. HIDE DEF value, r, stipend, C, E, W, give
  <2>5. Rel(X(f), X(g), 0) /\ X(f).static = f.static
    <3>. DEFINE x == SetRet(f, 0)
                y == ChargeCold(x, in, ADDITIONAL_COLD_ACCOUNT_ACCESS_COST)
    <3>1. Rel(X(f), X(g), 0)
      BY <2>2, <1>RelSetRet, <1>RelCold, <1>RelDelegated, Zenon
    <3>2. Evolves(f, x) /\ Sound(x)
      BY <2>2, RelSound, SetRetCalm, CalmFacts, Zenon
    <3>3. X(f) = resolveDelegatedCallCodeAddress(y, in)
      OBVIOUS
    <3>. HIDE DEF x
    <3>4. Evolves(x, y) /\ Sound(y)
      BY <2>2, <3>2, ChargeColdCalm, CalmFacts, Zenon
    <3>. HIDE DEF y
    <3>5. Evolves(y, X(f))
      BY <3>3, <3>4, DelegatedCalm, CalmFacts, Zenon
    <3>. QED BY <3>1, <3>2, <3>4, <3>5, Zenon DEF Evolves
  <2>. HIDE DEF X
  <2>6. Rel(S(f), S(g), 0) /\ S(f).static = f.static
    <3>1. Evolves(X(f), RequireNotStatic(X(f)))
      BY <2>5, RelSound, RequireNotStaticCalm, CalmFacts, Zenon
    <3>. QED BY <2>2, <2>5, <3>1, <1>RelStatic, Zenon DEF Evolves
  <2>. HIDE DEF S
  <2>7. Rel(M(f), M(g), 0) /\ M(f).static = f.static
    <3>. DEFINE N(x) == checkMemoryExpandAndChargeGas(S(x), r[1], r[2])
    <3>1. Rel(N(f), N(g), 0) /\ Evolves(S(f), N(f))
      BY <2>1, <2>2, <2>6, <1>RelExpand, RelSound, MemoryExpandEvolves, Zenon
    <3>2. /\ M(f) = checkMemoryExpandAndChargeGas(N(f), r[3], r[4])
          /\ M(g) = checkMemoryExpandAndChargeGas(N(g), r[3], r[4])
      OBVIOUS
    <3>. HIDE DEF N, M
    <3>3. Rel(M(f), M(g), 0) /\ Evolves(N(f), M(f))
      BY <2>1, <2>2, <3>1, <3>2, <1>RelExpand, RelSound, MemoryExpandEvolves, Zenon
    <3>. QED BY <2>6, <3>1, <3>3, Zenon DEF Evolves
  <2>. HIDE DEF M
  <2>. DEFINE h == V(f)
              k == V(g)
  <2>8. Rel(h, k, 0) /\ h.static = f.static
    <3>1. Rel(h, k, 0)
      BY <2>1, <2>2, <2>7, ValueCostType, RelCharge, Zenon
    <3>2. Evolves(M(f), h)
      BY <2>1, <2>7, RelSound, ValueCostType, ChargeCalm, CalmFacts, Zenon
    <3>. HIDE DEF h
    <3>. QED BY <2>7, <3>1, <3>2, Zenon DEF Evolves
  <2>9. Call(f, op, a, in) = C(h) /\ Call(g, op, a, in) = C(k)
    BY <2>3, Zenon
  <2>. HIDE DEF h, k, V
  <2>10. Running(h) <=> Running(k)
    BY <2>8, RelNoDebt, Zenon
  <2>11. CASE ~Running(h)
    BY <2>8, <2>9, <2>10, <2>11, Zenon DEF C
  <2>12. CASE Running(h)
    <3>. DEFINE s == Stipend(h, stipend)
                t == Stipend(k, stipend)
    <3>1. k.gas = h.gas /\ h.gas \in Nat
      BY <2>8, <2>12, RelNoDebt, RelSound, FrameFields, Zenon
    <3>2. give(k) = give(h) /\ give(h) \in Nat
      <4>1. AllButOne64th(h.gas) \in Nat /\ uint256ToUint64(a[1]) \in Nat
        BY <2>1, <3>1, AllButOne64thType, U64Type, Zenon
      <4>. QED BY <2>4, <3>1, <4>1 DEF give
    <3>3. Rel(s, t, 0)
      BY <2>4, <2>8, <2>12, <1>RelStipend, Zenon
    <3>4. s.static = f.static /\ t.static = f.static
      <4>1. h \in Frames /\ k \in Frames /\ k.static = h.static
        BY <2>8, RelSound, Zenon DEF Sound
      <4>2. s.static = h.static /\ t.static = k.static
        BY <4>1 DEF Stipend, Frames
      <4>. QED BY <2>8, <4>1, <4>2, Zenon
    <3>5. C(h) = IF (value # 0 /\ in.poor) \/ f.deep THEN Push(s, 0) ELSE addGasRefund(E(h), in.refund)
      BY <2>12, Zenon DEF C
    <3>6. C(k) = IF (value # 0 /\ in.poor) \/ f.deep THEN Push(t, 0) ELSE addGasRefund(E(k), in.refund)
      BY <2>10, <2>12, Zenon DEF C
    <3>7. /\ E(h) = ChargeUsed(SetRet(Push(W(s), IF in.ok THEN 1 ELSE 0), in.size), give(h), in)
          /\ E(k) = ChargeUsed(SetRet(Push(W(t), IF in.ok THEN 1 ELSE 0), in.size), give(k), in)
      BY Zenon DEF E
    <3>. HIDE DEF s, t
    <3>8. Rel(W(s), W(t), 0)
      <4>1. CASE op = STATICCALL \/ f.static
        BY <3>3, <4>1, Zenon DEF W
      <4>2. CASE ~(op = STATICCALL \/ f.static)
        BY <2>2, <3>3, <3>4, <4>2, <1>RelHostWrite, Zenon DEF W
      <4>. QED BY <4>1, <4>2, Zenon
    <3>9. Rel(Push(W(s), IF in.ok THEN 1 ELSE 0), Push(W(t), IF in.ok THEN 1 ELSE 0), 0)
      BY <2>2, <3>8, <1>RelPush, Zenon
    <3>10. Rel(E(h), E(k), 0)
      BY <2>2, <3>2, <3>7, <3>9, <1>RelSetRet, <1>RelChargeUsed, Zenon DEF Answer
    <3>11. Rel(addGasRefund(E(h), in.refund), addGasRefund(E(k), in.refund), 0)
      BY <2>2, <3>10, <1>RelRefund, Zenon DEF Answer
    <3>12. Rel(Push(s, 0), Push(t, 0), 0)
      BY <2>2, <3>3, <1>RelPush, Zenon
    <3>. QED BY <2>9, <3>5, <3>6, <3>11, <3>12, Zenon
  <2>. QED BY <2>11, <2>12, Zenon
(* Equal frames that end with the same status and data end alike. *)
<1>SameEnding.
      ASSUME NEW f, NEW g, Rel(f, g, 0), Running(f), NEW s \in {"SUCCESS", "REVERT"}, NEW n, NEW r
      PROVE  SameEnd(Ends(f, s, n, r), Ends(g, s, n, r))
  <2>. USE <1>SameEnding
  <2>. DEFINE p == Ends(f, s, n, r)
              q == Ends(g, s, n, r)
  <2>1. f \in Frames /\ g \in Frames /\ Alike(f, g) /\ g.gas = f.gas
    BY RelRunning, RelNoDebt, Zenon DEF Rel, Sound, Apart
  <2>2. /\ p.st = s /\ p.gas = f.gas /\ p.refund = r /\ p.ret = n /\ p.log = f.log
        /\ q.st = s /\ q.gas = g.gas /\ q.refund = r /\ q.ret = n /\ q.log = g.log
    BY <2>1 DEF Ends, Frames
  <2>. HIDE DEF p, q
  <2>3. SameEnd(p, q)
    BY <2>1, <2>2, Zenon DEF SameEnd, Alike, Finished
  <2>. QED BY <2>3, Zenon DEF p, q
(* RETURN ends both frames alike. *)
<1>RelReturn.
      ASSUME NEW f, NEW g, Rel(f, g, 0), NEW a, a[1] \in Nat, a[2] \in Nat
      PROVE  Rel(Return(f, a), Return(g, a), 0) \/ SameEnd(Return(f, a), Return(g, a))
  <2>. USE <1>RelReturn
  <2>. DEFINE x == checkMemoryExpandAndChargeGas(f, a[1], a[2])
              y == checkMemoryExpandAndChargeGas(g, a[1], a[2])
  <2>1. 0 \in Nat
    OBVIOUS
  <2>2. Rel(x, y, 0)
    BY <2>1, <1>RelExpand, Zenon
  <2>3. /\ Return(f, a) = IF Running(x) THEN [x EXCEPT !.st = "SUCCESS", !.ret = a[2]] ELSE x
        /\ Return(g, a) = IF Running(y) THEN [y EXCEPT !.st = "SUCCESS", !.ret = a[2]] ELSE y
    BY DEF Return
  <2>. HIDE DEF x, y
  <2>. QED BY <2>2, <2>3, RelEnder, Zenon
(* REVERT sets the refund back to what it was when the call began. *)
<1>RelRevert.
      ASSUME NEW f, NEW g, Rel(f, g, 0), NEW a, a[1] \in Nat, a[2] \in Nat
      PROVE  Rel(Revert(f, a), Revert(g, a), 0) \/ SameEnd(Revert(f, a), Revert(g, a))
  <2>. USE <1>RelRevert
  <2>. DEFINE x == checkMemoryExpandAndChargeGas(f, a[1], a[2])
              y == checkMemoryExpandAndChargeGas(g, a[1], a[2])
  <2>1. 0 \in Nat /\ g.snap = f.snap
    BY RelSound, Zenon
  <2>2. Rel(x, y, 0)
    BY <2>1, <1>RelExpand, Zenon
  <2>3. /\ Revert(f, a) = IF Running(x) THEN Ends(x, "REVERT", a[2], f.snap) ELSE x
        /\ Revert(g, a) = IF Running(y) THEN Ends(y, "REVERT", a[2], g.snap) ELSE y
    BY DEF Revert, Ends
  <2>. HIDE DEF x, y
  <2>4. Running(x) <=> Running(y)
    BY <2>2, RelNoDebt, Zenon
  <2>. QED BY <2>1, <2>2, <2>3, <2>4, <1>SameEnding, Zenon
(* SELFDESTRUCT ends both frames alike. *)
<1>RelSelfDestruct.
      ASSUME NEW f, NEW g, Rel(f, g, 0), ~f.static, NEW in
      PROVE  Rel(SelfDestruct(f, in), SelfDestruct(g, in), 0)
               \/ SameEnd(SelfDestruct(f, in), SelfDestruct(g, in))
  <2>. USE <1>RelSelfDestruct
  <2>. DEFINE n == IF f.rev < LONDON /\ in.ok THEN EXTRA_REFUND_BEFORE_LONDON ELSE 0
              G(x) == ChargeCold(x, in, COLD_ACCOUNT_ACCESS_COST)
              H(x) == IF ~in.poor /\ in.missing THEN chargeGas(G(x), ACCOUNT_CREATION_COST) ELSE G(x)
              W(x) == addGasRefund(HostWrite(H(x), SELFDESTRUCT), n)
  <2>1. /\ 0 \in Nat /\ n \in Int /\ COLD_ACCOUNT_ACCESS_COST \in Nat /\ SELFDESTRUCT \in Nat
        /\ ACCOUNT_CREATION_COST \in Nat
    BY DEF EXTRA_REFUND_BEFORE_LONDON, COLD_ACCOUNT_ACCESS_COST, ACCOUNT_CREATION_COST, SELFDESTRUCT
  <2>2. /\ SelfDestruct(f, in)
             = IF Running(W(f)) THEN [W(f) EXCEPT !.st = "SUCCESS", !.ret = 0] ELSE W(f)
        /\ SelfDestruct(g, in)
             = IF Running(W(g)) THEN [W(g) EXCEPT !.st = "SUCCESS", !.ret = 0] ELSE W(g)
    <3>1. g.rev = f.rev
      BY RelSound, Zenon
    <3>2. SelfDestruct(f, in)
             = IF Running(W(f)) THEN [W(f) EXCEPT !.st = "SUCCESS", !.ret = 0] ELSE W(f)
      BY Zenon DEF SelfDestruct
    <3>3. SelfDestruct(g, in)
             = IF Running(W(g)) THEN [W(g) EXCEPT !.st = "SUCCESS", !.ret = 0] ELSE W(g)
      BY <3>1, Zenon DEF SelfDestruct
    <3>. QED BY <3>2, <3>3, Zenon
  <2>. HIDE DEF n
  <2>3. Rel(G(f), G(g), 0) /\ Sound(f) /\ Evolves(f, G(f))
    BY <2>1, <1>RelCold, RelSound, ChargeColdCalm, CalmFacts, Zenon
  <2>. HIDE DEF G
  <2>4. Rel(H(f), H(g), 0) /\ H(f).static = f.static
    <3>1. Evolves(G(f), chargeGas(G(f), ACCOUNT_CREATION_COST))
      BY <2>1, <2>3, RelSound, ChargeCalm, CalmFacts, Zenon
    <3>2. Rel(chargeGas(G(f), ACCOUNT_CREATION_COST), chargeGas(G(g), ACCOUNT_CREATION_COST), 0)
      BY <2>1, <2>3, RelCharge, Zenon
    <3>. QED BY <2>3, <3>1, <3>2, Zenon DEF Evolves
  <2>. HIDE DEF H
  <2>5. H(g).static = f.static
    BY <2>4, RelSound, Zenon
  <2>6. Rel(W(f), W(g), 0)
    BY <2>1, <2>4, <2>5, <1>RelHostWrite, <1>RelRefund, Zenon
  <2>. HIDE DEF W
  <2>. QED BY <2>2, <2>6, RelEnder, Zenon
(* The families of opcodes are disjoint, so the handler of each is the one
   its family has. *)
<1>. DEFINE Handled == {INVALID, STOP, RETURN, REVERT, SELFDESTRUCT, KECCAK256, MSTORE, MSTORE8, SSTORE, TSTORE,
                        CALLDATACOPY, CODECOPY, EXTCODECOPY, RETURNDATACOPY, MCOPY}
                         \cup PushOps \cup DupOps \cup SwapOps \cup EnvOps \cup LoadOps
                         \cup UnaryOps \cup BinaryOps \cup TernaryOps \cup LogOps \cup CreateOps \cup CallOps
            Arm(f, op, a, value, in, h) ==
              /\ op = INVALID => h = Fail(f, "INVALID_INSTRUCTION")
              /\ op = STOP => h = Stop(f)
              /\ op = RETURN => h = Return(f, a)
              /\ op = REVERT => h = Revert(f, a)
              /\ op = SELFDESTRUCT => h = SelfDestruct(f, in)
              /\ op \in PushOps => h = Push(f, value)
              /\ op \in DupOps => h = DupWord(f, a, op - DUP1 + 1)
              /\ op \in SwapOps => h = SwapWords(f, a, op - SWAP1 + 2)
              /\ op \in EnvOps => h = Push(f, EnvValue(f, op, in))
              /\ op \in LoadOps => h = Load(f, op, a, in)
              /\ op \in UnaryOps \cup BinaryOps \cup TernaryOps => h = Arithmetic(f, op, a, in)
              /\ op = KECCAK256 => h = Keccak256(f, a, in)
              /\ op \in {MSTORE, MSTORE8} => h = MStore(f, op, a)
              /\ op = SSTORE => h = SStore(f, in)
              /\ op = TSTORE => h = HostWrite(f, TSTORE)
              /\ op \in {CALLDATACOPY, CODECOPY} => h = Copy(f, a)
              /\ op = EXTCODECOPY => h = ExtCodeCopy(f, a, in)
              /\ op = RETURNDATACOPY => h = ReturnDataCopy(f, a)
              /\ op = MCOPY => h = MCopy(f, a)
              /\ op \in LogOps => h = Log(f, op, a)
              /\ op \in CreateOps => h = Create(f, op, a, in)
              /\ op \in CallOps => h = Call(f, op, a, in)
              /\ op \notin Handled => h = f
<1>. HIDE DEF Handled, Arm
(* The dispatch table: which handler an opcode has, with the opcodes of a
   kind told apart once for all the proofs below. *)
<1>HandlerTable.
      ASSUME NEW f, NEW op \in Bytes, NEW a, NEW value, NEW in
      PROVE  Arm(f, op, a, value, in, Handler(f, op, a, value, in))
  <2>. USE <1>HandlerTable
  <2>. USE DEF Handler, Bytes, INVALID, STOP, RETURN, REVERT, SELFDESTRUCT, PushOps, DupOps, SwapOps,
      LogOps, CallOps, CreateOps, EnvOps, UnaryOps, BinaryOps, TernaryOps, LoadOps, PUSH0, PUSH32,
      DUP1, DUP16, SWAP1, SWAP16, LOG0, LOG4, CALL, CALLCODE, DELEGATECALL, STATICCALL, CREATE,
      CREATE2, CALLER, CALLDATASIZE, RETURNDATASIZE, BLOBBASEFEE, PC, MSIZE, GAS, ISZERO, CLZ, ADD,
      EXP, BALANCE, CALLDATALOAD, EXTCODESIZE, EXTCODEHASH, BLOCKHASH, BLOBHASH, MLOAD, SLOAD,
      TLOAD, MSTORE, MSTORE8, MCOPY, SSTORE, TSTORE, KECCAK256, CALLDATACOPY, CODECOPY,
      EXTCODECOPY, RETURNDATACOPY
  <2>. DEFINE h == Handler(f, op, a, value, in)
  <2>1. op = INVALID => h = Fail(f, "INVALID_INSTRUCTION")
    OBVIOUS
  <2>2. op = STOP => h = Stop(f)
    OBVIOUS
  <2>3. op = RETURN => h = Return(f, a)
    OBVIOUS
  <2>4. op = REVERT => h = Revert(f, a)
    OBVIOUS
  <2>5. op = SELFDESTRUCT => h = SelfDestruct(f, in)
    OBVIOUS
  <2>6. op \in PushOps => h = Push(f, value)
    OBVIOUS
  <2>7. op \in DupOps => h = DupWord(f, a, op - DUP1 + 1)
    OBVIOUS
  <2>8. op \in SwapOps => h = SwapWords(f, a, op - SWAP1 + 2)
    OBVIOUS
  <2>9. op \in EnvOps => h = Push(f, EnvValue(f, op, in))
    OBVIOUS
  <2>10. op \in LoadOps => h = Load(f, op, a, in)
    OBVIOUS
  <2>11. op \in UnaryOps \cup BinaryOps \cup TernaryOps => h = Arithmetic(f, op, a, in)
    OBVIOUS
  <2>12. op = KECCAK256 => h = Keccak256(f, a, in)
    OBVIOUS
  <2>13. op \in {MSTORE, MSTORE8} => h = MStore(f, op, a)
    OBVIOUS
  <2>14. op = SSTORE => h = SStore(f, in)
    OBVIOUS
  <2>15. op = TSTORE => h = HostWrite(f, TSTORE)
    OBVIOUS
  <2>16. op \in {CALLDATACOPY, CODECOPY} => h = Copy(f, a)
    OBVIOUS
  <2>17. op = EXTCODECOPY => h = ExtCodeCopy(f, a, in)
    OBVIOUS
  <2>18. op = RETURNDATACOPY => h = ReturnDataCopy(f, a)
    OBVIOUS
  <2>19. op = MCOPY => h = MCopy(f, a)
    OBVIOUS
  <2>20. op \in LogOps => h = Log(f, op, a)
    OBVIOUS
  <2>21. op \in CreateOps => h = Create(f, op, a, in)
    OBVIOUS
  <2>22. op \in CallOps => h = Call(f, op, a, in)
    OBVIOUS
  <2>23. op \notin Handled => h = f
    BY DEF Handled
  <2>. HIDE DEF h
  <2>. QED BY <2>1, <2>2, <2>3, <2>4, <2>5, <2>6, <2>7, <2>8, <2>9, <2>10, <2>11, <2>12, <2>13,
              <2>14, <2>15, <2>16, <2>17, <2>18, <2>19, <2>20, <2>21, <2>22, <2>23, Zenon DEF h, Arm
<1>Handler.
      ASSUME NEW f, NEW g, NEW d \in Nat, Rel(f, g, d), Running(f), NEW op \in Bytes,
             NEW a \in Seq(Nat), Len(a) = Required(op), Len(a) + Len(f.stack) <= MaxStack,
             NEW value \in Nat, NEW in, Answer(in), op \in WriteOps => ~f.static,
             isGasChunkTerminator(op) => d = 0
      PROVE  LET p == Handler(f, op, a, value, in)
                 q == Handler(g, op, a, value, in)
             IN  Rel(p, q, d) \/ (op \in EnderOps /\ SameEnd(p, q))
  <2>. USE <1>Handler
  <2>. DEFINE p == Handler(f, op, a, value, in)
              q == Handler(g, op, a, value, in)
              Ok == Rel(p, q, d) \/ (op \in EnderOps /\ SameEnd(p, q))
  <2>. SUFFICES Ok
    OBVIOUS
  <2>0. Arm(f, op, a, value, in, p) /\ Arm(g, op, a, value, in, q)
    BY <1>HandlerTable, Zenon
  <2>. HIDE DEF p, q
  <2>1. op \in Nat /\ in.word \in Nat /\ "INVALID_INSTRUCTION" \in Failures
    BY DEF Bytes, Answer, Failures, Statuses
  <2>2. /\ op \in EnderOps \cup CreateOps \cup CallOps \cup {GAS} => d = 0
    BY DEF EnderOps, isGasChunkTerminator, isControlFlowTerminator, isGasSensitiveTerminator
  <2>3. CASE op = INVALID
    <3>1. p = Fail(f, "INVALID_INSTRUCTION") /\ q = Fail(g, "INVALID_INSTRUCTION")
      BY <2>0, <2>3, Zenon DEF Arm
    <3>. QED BY <2>1, <3>1, RelFail, Zenon
  <2>4. CASE op = STOP
    <3>1. p = Stop(f) /\ q = Stop(g) /\ op \in EnderOps
      BY <2>0, <2>4, Zenon DEF Arm, EnderOps
    <3>. QED BY <2>2, <3>1, RelStop, Zenon
  <2>5. CASE op = RETURN
    <3>1. p = Return(f, a) /\ q = Return(g, a) /\ op \in EnderOps
      BY <2>0, <2>5, Zenon DEF Arm, EnderOps
    <3>. QED BY <2>2, <2>5, <3>1, OperandTypes, <1>RelReturn, Zenon
  <2>6. CASE op = REVERT
    <3>1. p = Revert(f, a) /\ q = Revert(g, a) /\ op \in EnderOps
      BY <2>0, <2>6, Zenon DEF Arm, EnderOps
    <3>. QED BY <2>2, <2>6, <3>1, OperandTypes, <1>RelRevert, Zenon
  <2>7. CASE op = SELFDESTRUCT
    <3>1. p = SelfDestruct(f, in) /\ q = SelfDestruct(g, in) /\ op \in EnderOps
      BY <2>0, <2>7, Zenon DEF Arm, EnderOps
    <3>. QED BY <2>2, <2>7, <3>1, <1>RelSelfDestruct, Zenon DEF WriteOps
  <2>8. CASE op \in PushOps
    <3>1. p = Push(f, value) /\ q = Push(g, value)
      BY <2>0, <2>8, Zenon DEF Arm
    <3>. QED BY <3>1, <1>RelPush, Zenon
  <2>9. CASE op \in DupOps
    <3>1. p = DupWord(f, a, op - DUP1 + 1) /\ q = DupWord(g, a, op - DUP1 + 1)
      BY <2>0, <2>9, Zenon DEF Arm
    <3>. QED BY <2>9, <3>1, OperandTypes, <1>RelDup, Zenon
  <2>10. CASE op \in SwapOps
    <3>1. p = SwapWords(f, a, op - SWAP1 + 2) /\ q = SwapWords(g, a, op - SWAP1 + 2)
      BY <2>0, <2>10, Zenon DEF Arm
    <3>. QED BY <2>10, <3>1, OperandTypes, <1>RelSwap, Zenon
  <2>11. CASE op \in EnvOps
    <3>1. p = Push(f, EnvValue(f, op, in)) /\ q = Push(g, EnvValue(g, op, in))
      BY <2>0, <2>11, Zenon DEF Arm
    <3>2. EnvValue(f, op, in) \in Nat /\ EnvValue(g, op, in) \in Nat
      BY <2>1, RelSound, EnvValueType, Zenon
    <3>3. EnvValue(g, op, in) = EnvValue(f, op, in)
      <4>1. g.pc = f.pc /\ g.mem = f.mem /\ g.ret = f.ret
        BY RelRunning, Zenon DEF Apart, Alike
      <4>2. op = GAS => g.gas = f.gas
        BY <2>2, RelNoDebt, Zenon
      <4>. QED BY <4>1, <4>2 DEF EnvValue, GAS, PC, MSIZE, RETURNDATASIZE
    <3>. QED BY <3>1, <3>2, <3>3, <1>RelPush, Zenon
  <2>12. CASE op \in LoadOps
    <3>1. p = Load(f, op, a, in) /\ q = Load(g, op, a, in)
      BY <2>0, <2>12, Zenon DEF Arm
    <3>. QED BY <2>1, <2>12, <3>1, OperandTypes, <1>RelLoad, Zenon
  <2>13. CASE op \in UnaryOps \cup BinaryOps \cup TernaryOps
    <3>1. p = Arithmetic(f, op, a, in) /\ q = Arithmetic(g, op, a, in)
      BY <2>0, <2>13, Zenon DEF Arm
    <3>. QED BY <2>1, <3>1, OperandTypes, <1>RelArithmetic, Zenon
  <2>14. CASE op = KECCAK256
    <3>1. p = Keccak256(f, a, in) /\ q = Keccak256(g, a, in)
      BY <2>0, <2>14, Zenon DEF Arm
    <3>. QED BY <2>1, <2>14, <3>1, OperandTypes, <1>RelKeccak256, Zenon
  <2>15. CASE op \in {MSTORE, MSTORE8}
    <3>1. p = MStore(f, op, a) /\ q = MStore(g, op, a)
      BY <2>0, <2>15, Zenon DEF Arm
    <3>. QED BY <2>15, <3>1, OperandTypes, <1>RelMStore, Zenon
  <2>16. CASE op = SSTORE
    <3>1. p = SStore(f, in) /\ q = SStore(g, in)
      BY <2>0, <2>16, Zenon DEF Arm
    <3>. QED BY <2>16, <3>1, <1>RelSStore, Zenon DEF WriteOps
  <2>17. CASE op = TSTORE
    <3>1. p = HostWrite(f, op) /\ q = HostWrite(g, op)
      BY <2>0, <2>17, Zenon DEF Arm
    <3>2. ~f.static /\ ~g.static
      BY <2>17, RelSound, Zenon DEF WriteOps
    <3>. QED BY <2>1, <3>1, <3>2, <1>RelHostWrite, Zenon
  <2>18. CASE op \in {CALLDATACOPY, CODECOPY}
    <3>1. p = Copy(f, a) /\ q = Copy(g, a) /\ op \in CopyOps
      BY <2>0, <2>18, Zenon DEF Arm, CopyOps
    <3>. QED BY <3>1, OperandTypes, <1>RelCopy, Zenon
  <2>19. CASE op = EXTCODECOPY
    <3>1. p = ExtCodeCopy(f, a, in) /\ q = ExtCodeCopy(g, a, in)
      BY <2>0, <2>19, Zenon DEF Arm
    <3>. QED BY <2>19, <3>1, OperandTypes, <1>RelExtCodeCopy, Zenon
  <2>20. CASE op = RETURNDATACOPY
    <3>1. p = ReturnDataCopy(f, a) /\ q = ReturnDataCopy(g, a) /\ op \in CopyOps
      BY <2>0, <2>20, Zenon DEF Arm, CopyOps
    <3>. QED BY <3>1, OperandTypes, <1>RelReturnDataCopy, Zenon
  <2>21. CASE op = MCOPY
    <3>1. p = MCopy(f, a) /\ q = MCopy(g, a) /\ op \in CopyOps
      BY <2>0, <2>21, Zenon DEF Arm, CopyOps
    <3>. QED BY <3>1, OperandTypes, <1>RelMCopy, Zenon
  <2>22. CASE op \in LogOps
    <3>1. p = Log(f, op, a) /\ q = Log(g, op, a) /\ ~f.static
      BY <2>0, <2>22, Zenon DEF Arm, WriteOps
    <3>. QED BY <2>1, <2>22, <3>1, OperandTypes, <1>RelLog, Zenon
  <2>23. CASE op \in CreateOps
    <3>1. p = Create(f, op, a, in) /\ q = Create(g, op, a, in) /\ d = 0
      BY <2>0, <2>2, <2>23, Zenon DEF Arm
    <3>. QED BY <2>1, <2>23, <3>1, OperandTypes, <1>RelCreate, Zenon
  <2>24. CASE op \in CallOps
    <3>1. p = Call(f, op, a, in) /\ q = Call(g, op, a, in) /\ d = 0
      BY <2>0, <2>2, <2>24, Zenon DEF Arm
    <3>. QED BY <2>24, <3>1, <1>RelCall, Zenon
  <2>25. CASE op \notin Handled
    <3>1. p = f /\ q = g
      BY <2>0, <2>25, Zenon DEF Arm
    <3>. QED BY <3>1, Zenon
  <2>. QED
    BY <2>3, <2>4, <2>5, <2>6, <2>7, <2>8, <2>9, <2>10, <2>11, <2>12, <2>13, <2>14, <2>15, <2>16,
       <2>17, <2>18, <2>19, <2>20, <2>21, <2>22, <2>23, <2>24, <2>25, Zenon DEF Handled
<1>. TAKE f, g, d, op, a, value, in
<1>. HAVE /\ d \in Nat /\ Rel(f, g, d) /\ Running(f) /\ op \in Bytes /\ a \in Seq(Nat)
          /\ Len(a) = Required(op) /\ Len(a) + Len(f.stack) <= MaxStack /\ value \in Nat
          /\ Answer(in) /\ (op \in WriteOps => ~f.static) /\ (isGasChunkTerminator(op) => d = 0)
<1>. QED BY <1>Handler, Zenon

-----------------------------------------------------------------------------
(* A whole instruction. *)

(* A frame that differs only in where it goes on. *)
Elsewhere(f, p, x) ==
  /\ Sound(p) /\ p.pc = x /\ p.st = f.st /\ p.gas = f.gas /\ p.stack = f.stack
  /\ p.mem = f.mem /\ p.ret = f.ret /\ p.refund = f.refund /\ p.log = f.log
  /\ p.snap = f.snap /\ p.rev = f.rev /\ p.static = f.static /\ p.deep = f.deep

(* One instruction with its base gas paid, on both frames. *)
LEMMA ExecuteRel ==
  \A f, g, op, in : \A d, value \in Nat, dests \in SUBSET Nat :
    /\ Rel(f, g, d) /\ Running(f) /\ op \in Bytes /\ Answer(in)
    /\ isGasChunkTerminator(op) => d = 0
    => LET p == doExecute(f, op, value, dests, in)
           q == doExecute(g, op, value, dests, in)
       IN  Rel(p, q, d) \/ (op \in EnderOps /\ SameEnd(p, q))
(* The checks made before the operands are popped: both frames pass them or
   neither does. *)
<1>PrecheckSame.
      ASSUME NEW f, NEW g, NEW d \in Nat, Rel(f, g, d), Running(f), NEW op, op = SSTORE => d = 0,
             NEW n
      PROVE  LET p == EVM_STACK_CHECK(Precheck(f, op), n)
                 q == EVM_STACK_CHECK(Precheck(g, op), n)
             IN  (p = f /\ q = g) \/ (Rel(p, q, d) /\ ~Running(p) /\ ~Running(q))
  <2>. USE <1>PrecheckSame
  <2>. DEFINE Both(p, q) == (p = f /\ q = g) \/ (Rel(p, q, d) /\ ~Running(p) /\ ~Running(q))
              X(x) == IF op \in {SSTORE, TSTORE, SELFDESTRUCT} \cup LogOps
                      THEN RequireNotStatic(x) ELSE x
              Y(x) == IF op = SSTORE /\ f.rev >= ISTANBUL /\ X(x).gas <= SSTORE_REQUIRED_ISTANBUL
                      THEN Fail(X(x), "OUT_OF_GAS") ELSE X(x)
              Z(x) == IF Len(Y(x).stack) < n THEN Fail(Y(x), "STACK_UNDERFLOW") ELSE Y(x)
  <2>1. /\ Sound(f) /\ Sound(g) /\ g.static = f.static /\ g.rev = f.rev /\ Running(g)
        /\ g.stack = f.stack
    BY RelSound, RelRunning, Zenon DEF Apart, Alike
  <2>2. /\ EVM_STACK_CHECK(Precheck(f, op), n) = Z(f)
        /\ EVM_STACK_CHECK(Precheck(g, op), n) = Z(g)
    BY <2>1, Zenon DEF EVM_STACK_CHECK, Precheck
  <2>3. /\ "STATIC_MODE_VIOLATION" \in Failures /\ "OUT_OF_GAS" \in Failures
        /\ "STACK_UNDERFLOW" \in Failures
    BY DEF Failures, Statuses
  <2>4. ASSUME NEW s \in Failures PROVE Both(Fail(f, s), Fail(g, s))
    <3>1. ~Running(Fail(f, s)) /\ ~Running(Fail(g, s))
      BY <2>1, <2>4 DEF Fail, Running, Failures, Sound, Frames
    <3>. QED BY <2>4, <3>1, RelFail, Zenon
  <2>5. ASSUME NEW x, NEW s, ~Running(x) PROVE Fail(x, s) = x
    BY <2>5, Zenon DEF Fail
  <2>6. CASE op \in {SSTORE, TSTORE, SELFDESTRUCT} \cup LogOps /\ f.static
    <3>1. X(f) = Fail(f, "STATIC_MODE_VIOLATION") /\ X(g) = Fail(g, "STATIC_MODE_VIOLATION")
      BY <2>1, <2>6, Zenon DEF RequireNotStatic
    <3>2. ~Running(X(f)) /\ ~Running(X(g)) /\ Both(X(f), X(g))
      <4>1. ~Running(Fail(f, "STATIC_MODE_VIOLATION")) /\ ~Running(Fail(g, "STATIC_MODE_VIOLATION"))
        BY <2>1, <2>3 DEF Fail, Running, Failures, Sound, Frames
      <4>. HIDE DEF X, Both
      <4>. QED BY <2>3, <2>4, <3>1, <4>1, Zenon
    <3>. HIDE DEF X
    <3>3. Y(f) = X(f) /\ Y(g) = X(g)
      BY <2>5, <3>2, Zenon
    <3>. HIDE DEF Y
    <3>4. Z(f) = Y(f) /\ Z(g) = Y(g)
      BY <2>5, <3>2, <3>3, Zenon
    <3>. HIDE DEF Z
    <3>. QED BY <2>2, <3>2, <3>3, <3>4, Zenon
  <2>7. CASE ~(op \in {SSTORE, TSTORE, SELFDESTRUCT} \cup LogOps /\ f.static)
    <3>1. X(f) = f /\ X(g) = g
      BY <2>1, <2>7, Zenon DEF RequireNotStatic
    <3>. HIDE DEF X
    <3>2. CASE op = SSTORE /\ f.rev >= ISTANBUL /\ f.gas <= SSTORE_REQUIRED_ISTANBUL
      <4>1. g.gas = f.gas
        BY <3>2, RelNoDebt, Zenon
      <4>2. Y(f) = Fail(f, "OUT_OF_GAS") /\ Y(g) = Fail(g, "OUT_OF_GAS")
        BY <3>1, <3>2, <4>1, Zenon
      <4>3. ~Running(Fail(f, "OUT_OF_GAS")) /\ ~Running(Fail(g, "OUT_OF_GAS"))
        BY <2>1, <2>3 DEF Fail, Running, Failures, Sound, Frames
      <4>. HIDE DEF Y
      <4>4. Z(f) = Y(f) /\ Z(g) = Y(g)
        BY <2>5, <4>2, <4>3, Zenon
      <4>. HIDE DEF Z
      <4>. QED BY <2>2, <2>3, <2>4, <4>2, <4>4, Zenon
    <3>3. CASE ~(op = SSTORE /\ f.rev >= ISTANBUL /\ f.gas <= SSTORE_REQUIRED_ISTANBUL)
      <4>1. op = SSTORE => g.gas = f.gas
        BY RelNoDebt, Zenon
      <4>2. Y(f) = f /\ Y(g) = g
        BY <3>1, <3>3, <4>1, Zenon
      <4>. HIDE DEF Y
      <4>3. \/ Z(f) = f /\ Z(g) = g
            \/ Z(f) = Fail(f, "STACK_UNDERFLOW") /\ Z(g) = Fail(g, "STACK_UNDERFLOW")
        BY <2>1, <4>2, Zenon
      <4>. HIDE DEF Z
      <4>. QED BY <2>2, <2>3, <2>4, <4>3, Zenon
    <3>. QED BY <3>2, <3>3, Zenon
  <2>. QED BY <2>6, <2>7, Zenon
(* Popping operands that are there preserves the relation. *)
<1>RelDrop.
      ASSUME NEW f, NEW g, NEW d \in Nat, Rel(f, g, d), Running(f), NEW n \in Nat,
             n <= Len(f.stack)
      PROVE  Rel(Drop(f, n), Drop(g, n), d) /\ Running(Drop(f, n))
  <2>. USE <1>RelDrop
  <2>. DEFINE s == SubSeq(f.stack, n + 1, Len(f.stack))
              p == Drop(f, n)
              q == Drop(g, n)
  <2>. SUFFICES Rel(p, q, d) /\ Running(p)
    OBVIOUS
  <2>1. Sound(f) /\ Sound(g) /\ Apart(f, g, d) /\ Running(g) /\ g.stack = f.stack
    BY RelSound, RelRunning, Zenon DEF Apart, Alike
  <2>2. p = [f EXCEPT !.stack = s] /\ q = [g EXCEPT !.stack = s]
    BY <2>1, Zenon DEF Drop
  <2>3. Evolves(f, p) /\ Evolves(g, q)
    BY <2>1, DropCalm, CalmFacts, Zenon
  <2>. HIDE DEF s
  <2>4. /\ p.stack = s /\ p.gas = f.gas /\ p.st = f.st /\ p.pc = f.pc /\ p.mem = f.mem
        /\ p.ret = f.ret /\ p.refund = f.refund /\ p.log = f.log
        /\ q.stack = s /\ q.gas = g.gas /\ q.st = g.st /\ q.pc = g.pc /\ q.mem = g.mem
        /\ q.ret = g.ret /\ q.refund = g.refund /\ q.log = g.log
    BY <2>1, <2>2 DEF Sound, Frames
  <2>. HIDE DEF p, q
  <2>5. /\ Finished(q) => Finished(g)
        /\ Running(p) /\ Running(q) /\ Alike(p, q)
    BY <2>1, <2>4, Zenon DEF Apart, Alike, Finished, Running
  <2>. QED BY <2>3, <2>4, <2>5, RelChange, Zenon
(* Moving both frames to the same instruction preserves the relation. *)
<1>RelElsewhere.
      ASSUME NEW f, NEW g, NEW d, Rel(f, g, d), NEW p, NEW q, NEW x, NEW y,
             Elsewhere(f, p, x), Elsewhere(g, q, y), Running(f) => y = x
      PROVE  Rel(p, q, d)
  <2>. USE <1>RelElsewhere
  <2>1. SameMessage(p, q) /\ Sound(p) /\ Sound(q)
    BY Zenon DEF Rel, SameMessage, Elsewhere
  <2>2. Apart(f, g, d) => Apart(p, q, d)
    BY Zenon DEF Apart, Alike, Running, Elsewhere
  <2>3. Doomed(f, g, d) => Doomed(p, q, d)
    BY Zenon DEF Doomed, Failed, Finished, Running, Elsewhere
  <2>. QED BY <2>1, <2>2, <2>3, Zenon DEF Rel
(* Advance moves a running frame past the instruction and nothing else. *)
<1>AdvanceElsewhere.
      ASSUME NEW f, Sound(f), NEW op \in Bytes
      PROVE  /\ Running(f) => Elsewhere(f, Advance(f, op), f.pc + opcodeLen(op))
             /\ ~Running(f) => Advance(f, op) = f
  <2>. USE <1>AdvanceElsewhere
  <2>1. ~Running(f) => Advance(f, op) = f
    BY Zenon DEF Advance
  <2>2. CASE Running(f)
    <3>. DEFINE n == opcodeLen(op)
                p == [f EXCEPT !.pc = @ + n]
    <3>1. n \in Nat
      <4>1. n \in 1..33
        BY OpcodeLenType, Zenon
      <4>. HIDE DEF n
      <4>. QED BY <4>1
    <3>2. Advance(f, op) = p
      BY <2>2, Zenon DEF Advance
    <3>. HIDE DEF n
    <3>3. f \in Frames /\ f.pc + n \in Nat
      BY <3>1, FrameFields DEF Sound
    <3>4. p \in Frames
      BY <3>3, Zenon DEF Frames
    <3>5. /\ p.pc = f.pc + n /\ p.st = f.st /\ p.gas = f.gas /\ p.stack = f.stack
          /\ p.mem = f.mem /\ p.ret = f.ret /\ p.refund = f.refund /\ p.log = f.log
          /\ p.snap = f.snap /\ p.rev = f.rev /\ p.static = f.static /\ p.deep = f.deep
      BY <3>3 DEF Frames
    <3>. HIDE DEF p
    <3>6. Sound(p)
      BY <3>4, <3>5 DEF Sound
    <3>7. Elsewhere(f, p, f.pc + n)
      BY <3>5, <3>6, Zenon DEF Elsewhere
    <3>. QED BY <2>2, <3>2, <3>7, Zenon DEF n
  <2>. QED BY <2>1, <2>2, Zenon
(* A frame that stays where it is. *)
<1>StaysElsewhere.
      ASSUME NEW f, Sound(f)
      PROVE  Elsewhere(f, f, f.pc)
  BY <1>StaysElsewhere, Zenon DEF Elsewhere
(* Moving past the instruction preserves the relation. *)
<1>RelAdvance.
      ASSUME NEW f, NEW g, NEW d, Rel(f, g, d), NEW op \in Bytes
      PROVE  Rel(Advance(f, op), Advance(g, op), d)
  <2>. USE <1>RelAdvance
  <2>. DEFINE p == Advance(f, op)
              q == Advance(g, op)
              x == IF Running(f) THEN f.pc + opcodeLen(op) ELSE f.pc
              y == IF Running(g) THEN g.pc + opcodeLen(op) ELSE g.pc
  <2>1. Elsewhere(f, p, x) /\ Elsewhere(g, q, y)
    BY RelSound, <1>AdvanceElsewhere, <1>StaysElsewhere, Zenon
  <2>2. Running(f) => y = x
    BY RelRunning, Zenon DEF Apart, Alike
  <2>. HIDE DEF p, q, x, y
  <2>3. Rel(p, q, d)
    BY <2>1, <2>2, <1>RelElsewhere, Zenon
  <2>. QED BY <2>3, Zenon DEF p, q
(* A jump lands at the same destination in both frames, or fails in both. *)
<1>RelJump.
      ASSUME NEW f, NEW g, NEW d \in Nat, Rel(f, g, d), Running(f), NEW dest,
             NEW dests \in SUBSET Nat
      PROVE  Rel(JumpTo(f, dest, dests), JumpTo(g, dest, dests), d)
  <2>. USE <1>RelJump
  <2>. DEFINE p == [f EXCEPT !.pc = dest, !.until = 0]
              q == [g EXCEPT !.pc = dest, !.until = 0]
  <2>1. Sound(f) /\ Sound(g) /\ f \in Frames /\ g \in Frames
    BY RelSound, Zenon DEF Sound
  <2>2. CASE dest <= U64Max /\ dest \in dests
    <3>1. JumpTo(f, dest, dests) = p /\ JumpTo(g, dest, dests) = q
      BY <2>2 DEF JumpTo
    <3>2. dest \in Nat /\ 0 \in Nat
      BY <2>2
    <3>3. p \in Frames /\ q \in Frames
      BY <2>1, <3>2, Zenon DEF Frames
    <3>4. /\ p.pc = dest /\ p.st = f.st /\ p.gas = f.gas /\ p.stack = f.stack
          /\ p.mem = f.mem /\ p.ret = f.ret /\ p.refund = f.refund /\ p.log = f.log
          /\ p.snap = f.snap /\ p.rev = f.rev /\ p.static = f.static /\ p.deep = f.deep
      BY <2>1 DEF Frames
    <3>5. /\ q.pc = dest /\ q.st = g.st /\ q.gas = g.gas /\ q.stack = g.stack
          /\ q.mem = g.mem /\ q.ret = g.ret /\ q.refund = g.refund /\ q.log = g.log
          /\ q.snap = g.snap /\ q.rev = g.rev /\ q.static = g.static /\ q.deep = g.deep
      BY <2>1 DEF Frames
    <3>. HIDE DEF p, q
    <3>6. Sound(p) /\ Sound(q)
      BY <2>1, <3>3, <3>4, <3>5 DEF Sound
    <3>7. Elsewhere(f, p, dest) /\ Elsewhere(g, q, dest)
      BY <3>4, <3>5, <3>6, Zenon DEF Elsewhere
    <3>. QED BY <3>1, <3>7, <1>RelElsewhere, Zenon
  <2>3. CASE ~(dest <= U64Max /\ dest \in dests)
    <3>1. /\ JumpTo(f, dest, dests) = Fail(f, "BAD_JUMP_DESTINATION")
          /\ JumpTo(g, dest, dests) = Fail(g, "BAD_JUMP_DESTINATION")
      BY <2>3 DEF JumpTo
    <3>2. "BAD_JUMP_DESTINATION" \in Failures
      BY DEF Failures, Statuses
    <3>. QED BY <3>1, <3>2, RelFail, Zenon
  <2>. QED BY <2>2, <2>3, Zenon
<1>. DEFINE Premises(f, g, d, op, value, dests, in) ==
              /\ Rel(f, g, d) /\ Running(f) /\ op \in Bytes /\ Answer(in)
              /\ isGasChunkTerminator(op) => d = 0
            Promise(f, g, d, op, value, dests, in) ==
              LET p == doExecute(f, op, value, dests, in)
                  q == doExecute(g, op, value, dests, in)
              IN  Rel(p, q, d) \/ (op \in EnderOps /\ SameEnd(p, q))
<1>Main. ASSUME NEW f, NEW g, NEW d \in Nat, NEW op,
                NEW value \in Nat, NEW dests \in SUBSET Nat, NEW in,
                Premises(f, g, d, op, value, dests, in)
         PROVE  Promise(f, g, d, op, value, dests, in)
  <2>. USE <1>Main
  <2>. DEFINE n == Required(op)
              P(x) == EVM_STACK_CHECK(Precheck(x, op), n)
              a == SubSeq(f.stack, 1, n)
              D(x) == Drop(P(x), n)
              H(x) == Handler(D(x), op, a, value, in)
              R(x) == IF ~Running(P(x)) THEN P(x)
                      ELSE IF op = JUMP THEN JumpTo(D(x), a[1], dests)
                      ELSE IF op = JUMPI /\ a[2] # 0 THEN JumpTo(D(x), a[1], dests)
                      ELSE Advance(H(x), op)
              Ok(p, q) == Rel(p, q, d) \/ (op \in EnderOps /\ SameEnd(p, q))
  <2>1. /\ Sound(f) /\ Sound(g) /\ g.stack = f.stack /\ Running(g)
    BY RelSound, RelRunning, Zenon DEF Apart, Alike
  <2>2. doExecute(f, op, value, dests, in) = R(f) /\ doExecute(g, op, value, dests, in) = R(g)
    BY <2>1, Zenon DEF doExecute
  <2>. SUFFICES Ok(R(f), R(g))
    BY <2>2, Zenon
  <2>3. n \in Nat
    <3>1. n \in 0..17
      BY MetricsType, Zenon
    <3>. HIDE DEF n
    <3>. QED BY <3>1
  <2>4. \/ P(f) = f /\ P(g) = g
        \/ Rel(P(f), P(g), d) /\ ~Running(P(f)) /\ ~Running(P(g))
    <3>1. op = SSTORE => d = 0
      BY Zenon DEF isGasChunkTerminator
    <3>. HIDE DEF n
    <3>. QED BY <3>1, <1>PrecheckSame, Zenon
  <2>5. P(f) = f => n <= Len(f.stack) /\ (op \in WriteOps => ~f.static)
    <3>. DEFINE c == Precheck(f, op)
    <3>1. Sound(c) /\ (Running(c) => c = f /\ (op \in WriteOps => ~f.static))
      BY <2>1, PrecheckEvolves, CalmFacts, Zenon
    <3>2. ~Running(Fail(c, "STACK_UNDERFLOW"))
      BY <3>1 DEF Fail, Running, Sound, Frames
    <3>3. P(f) = f => ~(Len(f.stack) < n) /\ (op \in WriteOps => ~f.static)
      <4>. HIDE DEF n
      <4>1. P(f) = IF Len(c.stack) < n THEN Fail(c, "STACK_UNDERFLOW") ELSE c
        BY Zenon DEF EVM_STACK_CHECK
      <4>. HIDE DEF c, P
      <4>. QED BY <3>1, <3>2, <4>1, Zenon
    <3>4. Len(f.stack) \in Nat
      BY <2>1, FrameFields
    <3>. HIDE DEF P, n
    <3>. QED BY <2>3, <3>3, <3>4
  <2>. HIDE DEF n, P
  <2>6. CASE Rel(P(f), P(g), d) /\ ~Running(P(f)) /\ ~Running(P(g))
    <3>1. R(f) = P(f) /\ R(g) = P(g)
      BY <2>6, Zenon
    <3>. HIDE DEF R
    <3>. QED BY <2>6, <3>1, Zenon
  <2>7. CASE P(f) = f /\ P(g) = g
    <3>. DEFINE x == D(f)
                y == D(g)
    <3>1. n <= Len(f.stack) /\ (op \in WriteOps => ~f.static)
      BY <2>5, <2>7, Zenon
    <3>2. x = Drop(f, n) /\ y = Drop(g, n)
      BY <2>7, Zenon
    <3>3. /\ R(f) = IF op = JUMP THEN JumpTo(x, a[1], dests)
                    ELSE IF op = JUMPI /\ a[2] # 0 THEN JumpTo(x, a[1], dests)
                    ELSE Advance(Handler(x, op, a, value, in), op)
          /\ R(g) = IF op = JUMP THEN JumpTo(y, a[1], dests)
                    ELSE IF op = JUMPI /\ a[2] # 0 THEN JumpTo(y, a[1], dests)
                    ELSE Advance(Handler(y, op, a, value, in), op)
      BY <2>1, <2>7, Zenon
    <3>. HIDE DEF R, x, y, D, H
    <3>4. Rel(x, y, d) /\ Running(x)
      BY <2>3, <3>1, <3>2, <1>RelDrop, Zenon
    <3>5. x.static = f.static /\ Len(x.stack) = Len(f.stack) - n
      BY <2>1, <2>3, <3>1, <3>2, DropCalm, Zenon DEF Calm, Evolves
    <3>6. f.stack \in Seq(Nat) /\ Len(f.stack) \in Nat /\ Len(f.stack) <= MaxStack
      BY <2>1, FrameFields DEF Sound
    <3>7. a \in Seq(Nat) /\ Len(a) = n
      <4>1. 1 \in Nat \ {0} /\ 1 <= n + 1
        BY <2>3
      <4>2. a \in Seq(Nat) /\ Len(a) = n - 1 + 1
        BY <2>3, <3>1, <3>6, <4>1, SubSeqOfWords, Zenon
      <4>. QED BY <2>3, <4>2
    <3>. HIDE DEF a
    <3>8. Len(a) + Len(x.stack) <= MaxStack
      BY <2>3, <3>5, <3>6, <3>7
    <3>9. Ok(JumpTo(x, a[1], dests), JumpTo(y, a[1], dests))
      BY <3>4, <1>RelJump, Zenon
    <3>. DEFINE p == Handler(x, op, a, value, in)
                q == Handler(y, op, a, value, in)
    <3>10. Ok(p, q)
      BY <3>1, <3>4, <3>5, <3>7, <3>8, HandlerRel, Zenon DEF n
    <3>. HIDE DEF p, q
    <3>11. Ok(Advance(p, op), Advance(q, op))
      <4>1. CASE Rel(p, q, d)
        BY <4>1, <1>RelAdvance, Zenon
      <4>2. CASE op \in EnderOps /\ SameEnd(p, q)
        <5>1. ~Running(p) /\ ~Running(q)
          BY <4>2 DEF SameEnd, Finished, Running
        <5>2. Advance(p, op) = p /\ Advance(q, op) = q
          BY <5>1, Zenon DEF Advance
        <5>. QED BY <4>2, <5>2, Zenon
      <4>. QED BY <3>10, <4>1, <4>2, Zenon
    <3>12. Ok(Advance(Handler(x, op, a, value, in), op), Advance(Handler(y, op, a, value, in), op))
      BY <3>11, Zenon DEF p, q
    <3>. HIDE DEF Ok
    <3>. QED BY <3>3, <3>9, <3>12, Zenon
  <2>. QED BY <2>4, <2>6, <2>7, Zenon
<1>. HIDE DEF Premises, Promise
<1>All. \A f, g, op, in : \A d, value \in Nat, dests \in SUBSET Nat :
         Premises(f, g, d, op, value, dests, in) => Promise(f, g, d, op, value, dests, in)
  BY <1>Main, Zenon
<1>. QED BY <1>All, Zenon DEF Premises, Promise

-----------------------------------------------------------------------------
(* A program whose gas chunks are sound, and a frame that executes it. *)
Program(prog) == prog.code \in Seq(Bytes) /\ prog.rev \in Nat /\ ChunksSound(prog)

OnInstruction(prog, f) == f.pc < Len(prog.code) => f.pc \in InstrStarts(prog.code)

OfProgram(prog, f) == Sound(f) /\ f.rev = prog.rev /\ OnInstruction(prog, f)

(* The tables of such a program have their types. *)
LEMMA ChunkFacts ==
  ASSUME NEW prog, Program(prog)
  PROVE  /\ prog.code \in Seq(Bytes) /\ prog.rev \in Nat /\ Len(prog.code) \in Nat
         /\ ChunksSound(prog)
         /\ prog.cache.dests \in SUBSET Nat
         /\ prog.cache.end \in [PCs(prog.code) -> Nat]
         /\ prog.cache.cost \in [PCs(prog.code) -> Nat]
<1>1. prog.code \in Seq(Bytes) /\ prog.rev \in Nat /\ ChunksSound(prog)
  BY Zenon DEF Program
<1>2. Len(prog.code) \in Nat
  BY <1>1, LenProperties
<1>3. /\ prog.cache.dests = JumpDests(prog.code)
      /\ prog.cache.end \in [PCs(prog.code) -> Nat]
      /\ prog.cache.cost \in [PCs(prog.code) -> Nat]
  BY <1>1, Zenon DEF ChunksSound
<1>4. InstrStarts(prog.code) \subseteq PCs(prog.code)
  BY <1>1, InstrStartsClosed, Zenon
<1>5. PCs(prog.code) \subseteq Nat
  BY <1>2 DEF PCs
<1>6. JumpDests(prog.code) \in SUBSET Nat
  BY <1>4, <1>5, Zenon DEF JumpDests
<1>. QED BY <1>1, <1>2, <1>3, <1>6, Zenon

(* The interpreter pays for a gas chunk at once and then runs its opcodes
   unmetered; the reference pays opcode by opcode.  Between two instructions
   the interpreter is behind by the base cost of the rest of the chunk. *)
Debt(prog, pc, until) == BaseCost(prog.code, prog.rev, pc, until)

InChunk(prog, pc, until) ==
  pc < until => /\ pc < Len(prog.code)
                /\ \E s \in PCs(prog.code) : s <= pc /\ until = prog.cache.end[s]

(* f is the interpreter's frame and g the reference's.  When the interpreter
   could not pay for something inside a chunk and has failed, the reference
   goes on, but with less gas than the rest of the chunk costs. *)
Agree(prog, f, g) ==
  /\ SameMessage(f, g)
  /\ Running(g) /\ Running(f) =>
       /\ Alike(f, g) /\ InChunk(prog, f.pc, f.until)
       /\ g.gas = f.gas + Debt(prog, g.pc, f.until)
  /\ Running(g) /\ ~Running(f) =>
       /\ Failed(f) /\ InChunk(prog, g.pc, f.until)
       /\ g.gas < Debt(prog, g.pc, f.until)
  /\ ~Running(g) =>
       /\ ~Running(f) /\ (Finished(f) <=> Finished(g))
       /\ Finished(g) => SameEnd(f, g)

NextPC(prog, pc) == pc + opcodeLen(Byte(prog.code, pc))
CostAt(prog, pc) == GasCostOf(Byte(prog.code, pc), prog.rev)

(* What follows an instruction: still the chunk, and then the instruction
   neither leaves it nor looks at the gas; or nothing that was paid for. *)
Follows(prog, pc, until) ==
  /\ Debt(prog, NextPC(prog, pc), until) \in Nat /\ InChunk(prog, NextPC(prog, pc), until)
  /\ isGasChunkTerminator(Byte(prog.code, pc)) => Debt(prog, NextPC(prog, pc), until) = 0

(* Past the end of a paid chunk nothing is paid ahead. *)
LEMMA OutsideChunk ==
  ASSUME NEW prog, Program(prog), NEW pc \in Nat, NEW until \in Nat, pc >= until
  PROVE  Debt(prog, pc, until) = 0 /\ InChunk(prog, pc, until)
<1>1. ~(pc < until)
  OBVIOUS
<1>. QED BY <1>1, ChunkFacts, BaseCostSum, Zenon DEF Debt, InChunk

(* The instruction at a program counter inside the code has an opcode, a
   cost and a successor further on. *)
LEMMA InstructionFacts ==
  ASSUME NEW prog, Program(prog), NEW pc \in Nat, pc < Len(prog.code)
  PROVE  /\ pc \in PCs(prog.code) /\ Byte(prog.code, pc) \in Bytes /\ CostAt(prog, pc) \in Nat
         /\ NextPC(prog, pc) \in Nat /\ NextPC(prog, pc) > pc
<1>1. prog.code \in Seq(Bytes) /\ Len(prog.code) \in Nat
  BY ChunkFacts, Zenon
<1>2. pc \in PCs(prog.code)
  BY <1>1 DEF PCs
<1>3. Byte(prog.code, pc) \in Bytes
  BY <1>1, <1>2, ByteType, Zenon
<1>4. CostAt(prog, pc) \in Nat
  BY <1>3, MetricsType, Zenon DEF CostAt
<1>5. \A x \in 1..33 : pc + x \in Nat /\ pc + x > pc
  OBVIOUS
<1>6. NextPC(prog, pc) \in Nat /\ NextPC(prog, pc) > pc
  BY <1>3, <1>5, OpcodeLenType, Zenon DEF NextPC
<1>. QED BY <1>2, <1>3, <1>4, <1>6, Zenon

(* One instruction inside a chunk. *)
LEMMA ChunkStep ==
  ASSUME NEW prog, Program(prog), NEW pc \in Nat, pc < Len(prog.code), pc \in InstrStarts(prog.code),
         NEW s \in PCs(prog.code), s <= pc, pc < prog.cache.end[s]
  PROVE  LET u == prog.cache.end[s]
         IN  Debt(prog, pc, u) = CostAt(prog, pc) + Debt(prog, NextPC(prog, pc), u) /\ Follows(prog, pc, u)
<1>. DEFINE u == prog.cache.end[s]
            n == NextPC(prog, pc)
            op == Byte(prog.code, pc)
<1>1. /\ pc \in PCs(prog.code) /\ n \in Nat /\ n > pc /\ s \in Nat /\ Len(prog.code) \in Nat
  <2>1. PCs(prog.code) \subseteq Nat
    BY ChunkFacts DEF PCs
  <2>. QED BY <2>1, InstructionFacts, ChunkFacts, Zenon
<1>2. u \in Nat /\ pc < u
  BY ChunkFacts
<1>3. prog.code \in Seq(Bytes) /\ ChunksSound(prog)
  BY ChunkFacts, Zenon
<1>4. Debt(prog, pc, u) = CostAt(prog, pc) + Debt(prog, n, u) /\ Debt(prog, n, u) \in Nat
  <2>. HIDE DEF u
  <2>1. BaseCost(prog.code, prog.rev, pc, u)
          = GasCostOf(Byte(prog.code, pc), prog.rev)
              + BaseCost(prog.code, prog.rev, pc + opcodeLen(Byte(prog.code, pc)), u)
    BY <1>1, <1>2, <1>3, BaseCostSum, Zenon
  <2>2. BaseCost(prog.code, prog.rev, n, u) \in Nat
    BY <1>1, <1>2, <1>3, BaseCostSum, Zenon
  <2>. QED BY <2>1, <2>2, Zenon DEF Debt, CostAt, NextPC
<1>5. u > s
  BY <1>1, <1>2
<1>6. n < u => n < Len(prog.code) /\ ~isGasChunkTerminator(op)
  BY <1>3, <1>5, Zenon DEF ChunksSound, NextPC
<1>. HIDE DEF n
<1>7. s <= n /\ (~(n < u) => n >= u)
  <2>. HIDE DEF u
  <2>. QED BY <1>1, <1>2
<1>8. InChunk(prog, n, u)
  BY <1>6, <1>7, Zenon DEF InChunk
<1>9. ~(n < u) => Debt(prog, n, u) = 0
  BY <1>1, <1>2, <1>7, OutsideChunk, Zenon
<1>. QED BY <1>4, <1>6, <1>8, <1>9, Zenon DEF Follows, n

(* Two frames that differ in what has been paid for are alike but for that. *)
LEMMA RelPaid ==
  ASSUME NEW f, NEW g, NEW m, NEW c, Sound(m), Sound(c), SameMessage(f, g), Alike(f, g),
         Running(f), Running(g), SameCall(f, m), SameCall(g, c), NEW d, c.gas = m.gas + d
  PROVE  Rel(m, c, d)
<1>1. SameMessage(m, c) /\ Alike(m, c) /\ Running(m) /\ Running(c)
  BY Zenon DEF SameMessage, Alike, Running, SameCall
<1>. QED BY <1>1, Zenon DEF Rel, Apart

(* Frames that both failed, or ended alike, agree. *)
LEMMA AgreeStopped ==
  ASSUME NEW prog, NEW p, NEW q, SameMessage(p, q), (Failed(p) /\ Failed(q)) \/ SameEnd(p, q)
  PROVE  Agree(prog, p, q)
<1>1. SameEnd(p, q) => ~Running(p) /\ ~Running(q) /\ Finished(q)
  BY DEF SameEnd, Finished, Running
<1>. QED BY <1>1, Zenon DEF Agree, Failed, SameEnd

(* The metering at the head of the loop, against one charge of base gas. *)
LEMMA MeterRel ==
  ASSUME NEW prog, Program(prog), NEW eng, NEW ref, OfProgram(prog, eng), OfProgram(prog, ref),
         Running(eng), Running(ref), Agree(prog, eng, ref), eng.pc < Len(prog.code)
  PROVE  LET m == Metered(eng, prog.code, prog.cache)
             c == chargeGas(ref, CostAt(prog, eng.pc))
         IN  /\ Rel(m, c, Debt(prog, NextPC(prog, eng.pc), m.until))
             /\ Follows(prog, eng.pc, m.until) /\ m.pc = eng.pc /\ c.pc = eng.pc
             /\ m.until \in Nat /\ (~Running(m) => ~Running(c))
<1>. DEFINE pc == eng.pc
            n == NextPC(prog, pc)
            cost == CostAt(prog, pc)
            m == Metered(eng, prog.code, prog.cache)
            c == chargeGas(ref, cost)
            Ok(x) == /\ Rel(x, c, Debt(prog, n, x.until)) /\ Follows(prog, pc, x.until)
                     /\ x.pc = pc /\ x.until \in Nat /\ (~Running(x) => ~Running(c))
<1>1. /\ Sound(eng) /\ Sound(ref) /\ eng.rev = prog.rev /\ ref.rev = prog.rev /\ pc \in Nat
      /\ eng.gas \in Nat /\ ref.gas \in Nat /\ eng.until \in Nat /\ OnInstruction(prog, eng)
  BY FrameFields, Zenon DEF OfProgram
<1>2. /\ SameMessage(eng, ref) /\ Alike(eng, ref) /\ InChunk(prog, pc, eng.until)
      /\ ref.gas = eng.gas + Debt(prog, pc, eng.until) /\ ref.pc = pc
  BY Zenon DEF Agree, Alike
<1>3. /\ pc \in PCs(prog.code) /\ cost \in Nat /\ n \in Nat /\ n > pc
      /\ pc \in InstrStarts(prog.code)
  BY <1>1, InstructionFacts, Zenon DEF OnInstruction
<1>. HIDE DEF n, cost
<1>4. Evolves(ref, c) /\ c.pc = pc
  BY <1>1, <1>2, <1>3, ChargeCalm, CalmFacts, Zenon DEF Evolves
<1>5. ASSUME NEW x, Sound(x), SameCall(eng, x), x.until \in Nat, Follows(prog, pc, x.until),
             ref.gas = x.gas + (cost + Debt(prog, n, x.until))
      PROVE  Ok(x)
  <2>1. Debt(prog, n, x.until) \in Nat /\ x.gas \in Nat
    BY <1>5, FrameFields, Zenon DEF Follows, n
  <2>2. ref.gas >= cost /\ ref.gas - cost = x.gas + Debt(prog, n, x.until)
    BY <1>1, <1>3, <1>5, <2>1
  <2>3. c = [ref EXCEPT !.gas = @ - cost]
    BY <1>1, <1>3, <2>2 DEF chargeGas
  <2>4. Sound(c)
    BY <1>4, Zenon DEF Evolves
  <2>5. c.gas = ref.gas - cost /\ SameCall(ref, c)
    BY <1>1, <2>3 DEF Sound, Frames, SameCall
  <2>. HIDE DEF c
  <2>6. Rel(x, c, Debt(prog, n, x.until))
    BY <1>2, <1>5, <2>2, <2>4, <2>5, RelPaid, Zenon
  <2>7. Running(x) /\ x.pc = pc
    BY <1>5, Zenon DEF SameCall, Running
  <2>. QED BY <1>5, <2>6, <2>7, Zenon
<1>6. CASE pc < eng.until
  <2>1. m = eng
    BY <1>6, Zenon DEF Metered
  <2>2. PICK s \in PCs(prog.code) : s <= pc /\ eng.until = prog.cache.end[s]
    BY <1>2, <1>6, Zenon DEF InChunk
  <2>3. Debt(prog, pc, eng.until) = cost + Debt(prog, n, eng.until) /\ Follows(prog, pc, eng.until)
    <3>1. pc < prog.cache.end[s] /\ pc < Len(prog.code)
      BY <1>6, <2>2, Zenon
    <3>. HIDE DEF pc
    <3>. DEFINE u == prog.cache.end[s]
    <3>2. Debt(prog, pc, u) = CostAt(prog, pc) + Debt(prog, NextPC(prog, pc), u) /\ Follows(prog, pc, u)
      BY <1>1, <1>3, <2>2, <3>1, ChunkStep, Zenon
    <3>. QED BY <2>2, <3>2, Zenon DEF cost, n
  <2>4. ref.gas = eng.gas + (cost + Debt(prog, n, eng.until))
    BY <1>2, <2>3, Zenon
  <2>5. SameCall(eng, eng)
    BY Zenon DEF SameCall
  <2>6. Ok(eng)
    BY <1>1, <1>5, <2>3, <2>4, <2>5, Zenon
  <2>. HIDE DEF m, c
  <2>7. Ok(m)
    BY <2>1, <2>6, Zenon
  <2>. QED BY <1>4, <2>7, Zenon DEF m, c, n, cost
<1>7. CASE ~(pc < eng.until)
  <2>. DEFINE u == prog.cache.end[pc]
              x == prog.cache.cost[pc]
              r == PaidUntil(eng, x, u)
              e == EndsChunk(eng, 0)
  <2>1. ref.gas = eng.gas
    <3>1. pc >= eng.until
      BY <1>1, <1>7
    <3>2. Debt(prog, pc, eng.until) = 0
      BY <1>1, <3>1, OutsideChunk, Zenon
    <3>. QED BY <1>1, <1>2, <3>2
  <2>2. u \in Nat /\ x \in Nat
    BY <1>3, ChunkFacts
  <2>3. m = IF u > pc /\ eng.gas >= x THEN r ELSE chargeGas(e, cost)
    BY <1>1, <1>7, Zenon DEF Metered, PaidUntil, EndsChunk, cost, CostAt
  <2>4. CASE u > pc /\ eng.gas >= x
    <3>1. x = Debt(prog, pc, u)
      BY <1>3, <2>4, ChunkFacts, Zenon DEF ChunksSound, Debt
    <3>2. Debt(prog, pc, u) = cost + Debt(prog, n, u) /\ Follows(prog, pc, u)
      <4>1. pc <= pc /\ pc < u
        BY <1>1, <2>2, <2>4
      <4>. QED BY <1>1, <1>3, <4>1, ChunkStep, Zenon DEF cost, n
    <3>. HIDE DEF u, x
    <3>3. Sound(r) /\ SameCall(eng, r) /\ r.gas = eng.gas - x /\ r.until = u
      <4>1. x <= eng.gas
        BY <1>1, <2>2, <2>4
      <4>. QED BY <1>1, <2>2, <4>1, PaidUntilKeeps
    <3>. HIDE DEF r
    <3>4. ref.gas = r.gas + (cost + Debt(prog, n, u))
      BY <1>1, <2>1, <2>2, <3>1, <3>2, <3>3
    <3>5. Ok(r)
      BY <1>5, <2>2, <3>2, <3>3, <3>4, Zenon
    <3>. HIDE DEF m, c
    <3>6. Ok(m)
      BY <2>3, <2>4, <3>5, Zenon
    <3>. QED BY <1>4, <3>6, Zenon DEF m, c, n, cost
  <2>5. CASE ~(u > pc /\ eng.gas >= x)
    <3>1. Sound(e) /\ SameCall(eng, e) /\ e.gas = eng.gas /\ e.until = 0
      BY <1>1, EndsChunkKeeps, Zenon
    <3>. HIDE DEF e, u, x
    <3>2. 0 \in Nat /\ ref.gas = e.gas + 0 /\ n >= 0
      BY <1>1, <1>3, <2>1, <3>1
    <3>3. SameCall(ref, ref)
      BY Zenon DEF SameCall
    <3>4. Rel(e, ref, 0)
      BY <1>1, <1>2, <3>1, <3>2, <3>3, RelPaid, Zenon
    <3>. DEFINE k == chargeGas(e, cost)
    <3>5. Rel(k, c, 0)
      BY <1>3, <3>2, <3>4, RelCharge, Zenon
    <3>6. k.until = 0 /\ k.pc = pc
      BY <1>3, <3>1, ChargeCalm, CalmFacts, Zenon DEF Evolves, SameCall
    <3>. HIDE DEF k, c
    <3>7. Debt(prog, n, 0) = 0 /\ InChunk(prog, n, 0)
      BY <1>3, <3>2, OutsideChunk, Zenon
    <3>8. Follows(prog, pc, 0)
      BY <3>2, <3>7, Zenon DEF Follows, n
    <3>9. Ok(k)
      BY <3>2, <3>5, <3>6, <3>7, <3>8, RelNoDebt, Zenon
    <3>. HIDE DEF m
    <3>10. Ok(m)
      BY <2>3, <2>5, <3>9, Zenon DEF k
    <3>. QED BY <1>4, <3>10, Zenon DEF m, c, n, cost
  <2>. QED BY <2>4, <2>5, Zenon
<1>. QED BY <1>6, <1>7, Zenon

(* The instruction itself, whatever was paid for before it. *)
LEMMA ExecAgree ==
  ASSUME NEW prog, Program(prog), NEW pc \in Nat, pc < Len(prog.code), NEW m, NEW c, m.pc = pc, c.pc = pc, Running(m),
         m.until \in Nat, Rel(m, c, Debt(prog, NextPC(prog, pc), m.until)), Follows(prog, pc, m.until),
         NEW value \in Nat, NEW in, Answer(in)
  PROVE  Agree(prog, doExecute(m, Byte(prog.code, pc), value, prog.cache.dests, in),
               doExecute(c, Byte(prog.code, pc), value, prog.cache.dests, in))
<1>. DEFINE op == Byte(prog.code, pc)
            u == m.until
            n == NextPC(prog, pc)
            d == Debt(prog, n, u)
            p == doExecute(m, op, value, prog.cache.dests, in)
            q == doExecute(c, op, value, prog.cache.dests, in)
<1>. SUFFICES Agree(prog, p, q)
  OBVIOUS
<1>1. /\ d \in Nat /\ InChunk(prog, n, u) /\ (isGasChunkTerminator(op) => d = 0)
      /\ op \in Bytes /\ prog.cache.dests \in SUBSET Nat /\ n \in Nat
  BY InstructionFacts, ChunkFacts, Zenon DEF Follows
<1>2. Sound(m) /\ Sound(c) /\ Running(c) /\ SameMessage(m, c)
  BY RelRunning, Zenon DEF Rel, Apart
<1>3. n = m.pc + opcodeLen(op) /\ n = c.pc + opcodeLen(op)
  BY Zenon DEF NextPC
<1>. HIDE DEF op, n
<1>4. Moves(m, p, op, prog.cache.dests) /\ Moves(c, q, op, prog.cache.dests)
  BY <1>1, <1>2, ExecuteMoves, Zenon
<1>. HIDE DEF d
<1>5. Rel(m, c, d)
  BY Zenon DEF d, n
<1>6. Rel(p, q, d) \/ SameEnd(p, q)
  BY <1>1, <1>5, ExecuteRel, Zenon
<1>. HIDE DEF p, q
<1>7. SameMessage(p, q)
  BY <1>2, <1>4, Zenon DEF SameMessage, Moves
<1>8. CASE SameEnd(p, q)
  BY <1>7, <1>8, AgreeStopped, Zenon
<1>9. CASE Apart(p, q, d)
  <2>1. Running(p) /\ Running(q) /\ Alike(p, q) /\ q.gas = p.gas + d /\ q.pc = p.pc
    BY <1>9, Zenon DEF Apart, Alike
  <2>2. p.until = u \/ (isGasChunkTerminator(op) /\ p.until = 0)
    BY <1>4, Zenon DEF Moves, isGasChunkTerminator, isControlFlowTerminator
  <2>3. p.until = 0 \/ p.pc = n
    BY <1>3, <1>4, <2>1, Zenon DEF Moves
  <2>4. p.pc \in Nat
    BY <1>4, FrameFields, Zenon DEF Moves
  <2>5. CASE p.until = 0
    <3>1. p.pc >= 0 /\ 0 \in Nat
      BY <2>4
    <3>2. Debt(prog, p.pc, 0) = 0 /\ InChunk(prog, p.pc, 0)
      BY <2>4, <3>1, OutsideChunk, Zenon
    <3>3. d = 0
      <4>1. CASE u = 0
        <5>1. n >= 0 /\ 0 \in Nat
          BY <1>1
        <5>. QED BY <1>1, <4>1, <5>1, OutsideChunk, Zenon DEF d
      <4>2. CASE isGasChunkTerminator(op)
        BY <1>1, <4>2, Zenon
      <4>. QED BY <2>2, <2>5, <4>1, <4>2, Zenon
    <3>4. q.gas = p.gas + Debt(prog, q.pc, p.until)
      BY <2>1, <2>5, <3>2, <3>3, Zenon
    <3>. QED BY <1>7, <2>1, <2>5, <3>2, <3>4, Zenon DEF Agree
  <2>6. CASE p.until = u /\ p.pc = n
    BY <1>1, <1>7, <2>1, <2>6, Zenon DEF Agree, d
  <2>. QED BY <2>2, <2>3, <2>5, <2>6, Zenon
<1>10. CASE Doomed(p, q, d)
  <2>1. CASE ~Running(q)
    <3>1. Failed(p) /\ Failed(q)
      BY <1>10, <2>1, Zenon DEF Doomed, Failed
    <3>. QED BY <1>7, <3>1, AgreeStopped, Zenon
  <2>2. CASE Running(q)
    <3>1. Failed(p) /\ ~Running(p) /\ q.gas < d
      BY <1>10, <2>2, Zenon DEF Doomed, Failed
    <3>2. q.gas \in Nat
      BY <1>4, FrameFields, Zenon DEF Moves
    <3>3. d # 0
      BY <1>1, <3>1, <3>2
    <3>4. op \notin {JUMP, JUMPI}
      BY <1>1, <3>3, Zenon DEF isGasChunkTerminator, isControlFlowTerminator
    <3>5. q.pc = n /\ p.until = u
      BY <1>3, <1>4, <2>2, <3>4, Zenon DEF Moves
    <3>. QED BY <1>1, <1>7, <2>2, <3>1, <3>5, Zenon DEF Agree, d
  <2>. QED BY <2>1, <2>2, Zenon
<1>. QED BY <1>6, <1>8, <1>9, <1>10, Zenon DEF Rel

(* A frame that is alone. *)
LEMMA RelItself ==
  ASSUME NEW f, Sound(f), Running(f) \/ Failed(f)
  PROVE  Rel(f, f, 0)
<1>1. f.gas \in Nat
  BY FrameFields
<1>2. f.gas = f.gas + 0
  BY <1>1
<1>3. SameMessage(f, f) /\ Alike(f, f)
  BY Zenon DEF SameMessage, Alike
<1>. QED BY <1>2, <1>3, Zenon DEF Rel, Apart, Doomed, Failed

(* The interpreter has failed inside a chunk: the reference cannot finish it. *)
LEMMA CatchUp ==
  ASSUME NEW prog, Program(prog), NEW eng, NEW ref, OfProgram(prog, eng), OfProgram(prog, ref),
         Running(ref), ~Running(eng), Agree(prog, eng, ref), NEW in, Answer(in)
  PROVE  Agree(prog, eng, SlowPath(ref, prog.code, prog.cache.dests, in))
<1>. DEFINE pc == ref.pc
            u == eng.until
            op == Byte(prog.code, pc)
            n == NextPC(prog, pc)
            d == Debt(prog, n, u)
            c == chargeGas(ref, CostAt(prog, pc))
            value == loadPushValue(prog.code, pc)
            q == doExecute(c, op, value, prog.cache.dests, in)
            r == SlowPath(ref, prog.code, prog.cache.dests, in)
<1>1. /\ Sound(eng) /\ Sound(ref) /\ ref.rev = prog.rev /\ pc \in Nat
      /\ ref.gas \in Nat /\ u \in Nat /\ OnInstruction(prog, ref)
  BY FrameFields, Zenon DEF OfProgram
<1>2. /\ SameMessage(eng, ref) /\ Failed(eng) /\ InChunk(prog, pc, u) /\ ref.gas < Debt(prog, pc, u)
  BY Zenon DEF Agree
<1>3. pc < u
  <2>1. Debt(prog, pc, u) # 0
    BY <1>1, <1>2
  <2>2. pc >= u => Debt(prog, pc, u) = 0
    BY <1>1, OutsideChunk, Zenon
  <2>. QED BY <1>1, <2>1, <2>2
<1>4. pc < Len(prog.code) /\ pc \in InstrStarts(prog.code)
  BY <1>1, <1>2, <1>3, Zenon DEF InChunk, OnInstruction
<1>5. PICK s \in PCs(prog.code) : s <= pc /\ u = prog.cache.end[s]
  BY <1>2, <1>3, Zenon DEF InChunk
<1>6. Debt(prog, pc, u) = CostAt(prog, pc) + d /\ Follows(prog, pc, u)
  BY <1>1, <1>3, <1>4, <1>5, ChunkStep, Zenon
<1>7. /\ pc \in PCs(prog.code) /\ op \in Bytes /\ CostAt(prog, pc) \in Nat /\ n \in Nat
      /\ prog.cache.dests \in SUBSET Nat /\ prog.code \in Seq(Bytes) /\ Len(prog.code) \in Nat
  BY <1>1, <1>4, InstructionFacts, ChunkFacts, Zenon
<1>8. value \in Nat
  <2>1. value \in 0..(WordMod - 1)
    BY <1>7, PushValueType, Zenon
  <2>. HIDE DEF value
  <2>. QED BY <2>1, CodeAssumption
<1>9. r = IF ~Defined(op, ref.rev) THEN Fail(ref, "UNDEFINED_INSTRUCTION")
          ELSE IF ~Running(c) THEN c ELSE q
  <2>1. ~(pc >= Len(prog.code))
    BY <1>1, <1>4, <1>7
  <2>. QED BY <1>1, <2>1, Zenon DEF SlowPath, CostAt
<1>. SUFFICES Agree(prog, eng, r)
  OBVIOUS
<1>10. Evolves(ref, c) /\ Sound(c)
  BY <1>1, <1>7, ChargeCalm, CalmFacts, Zenon
<1>11. ASSUME NEW x, Evolves(ref, x), Failed(x) PROVE Agree(prog, eng, x)
  <2>1. SameMessage(eng, x)
    BY <1>2, <1>11, Zenon DEF SameMessage, Evolves
  <2>. QED BY <1>2, <1>11, <2>1, AgreeStopped, Zenon
<1>12. Agree(prog, eng, Fail(ref, "UNDEFINED_INSTRUCTION"))
  <2>1. Evolves(ref, Fail(ref, "UNDEFINED_INSTRUCTION"))
    BY <1>1, FailCalm, CalmFacts, Zenon DEF Statuses
  <2>2. Failed(Fail(ref, "UNDEFINED_INSTRUCTION"))
    BY <1>1 DEF Fail, Failed, Finished, Running, Sound, Frames
  <2>. QED BY <1>11, <2>1, <2>2, Zenon
<1>13. ~Running(c) => Agree(prog, eng, c)
  <2>1. ~Running(c) => Failed(c)
    BY <1>1 DEF chargeGas, Fail, Failed, Finished, Running, Sound, Frames
  <2>. HIDE DEF c
  <2>. QED BY <1>10, <1>11, <2>1, Zenon
<1>14. Running(c) => Agree(prog, eng, q)
  <2>. SUFFICES ASSUME Running(c) PROVE Agree(prog, eng, q)
    OBVIOUS
  <2>1. c.gas = ref.gas - CostAt(prog, pc)
    BY <1>1, <1>7, ChargeCalm, Zenon
  <2>2. c.pc = pc /\ SameMessage(eng, c) /\ c.gas \in Nat
    BY <1>2, <1>10, FrameFields, Zenon DEF SameMessage, Evolves
  <2>. HIDE DEF c, value
  <2>3. d \in Nat /\ InChunk(prog, n, u) /\ (isGasChunkTerminator(op) => d = 0)
    BY <1>6, Zenon DEF Follows
  <2>4. n = c.pc + opcodeLen(op)
    BY <2>2, Zenon DEF NextPC
  <2>. HIDE DEF d, n, op
  <2>5. c.gas < d
    BY <1>1, <1>2, <1>6, <1>7, <2>1, <2>3
  <2>6. ~isGasChunkTerminator(op)
    BY <2>2, <2>3, <2>5
  <2>7. op \notin EnderOps /\ op \notin {JUMP, JUMPI}
    BY <2>6, Zenon DEF EnderOps, isGasChunkTerminator, isControlFlowTerminator
  <2>8. Rel(c, c, 0) /\ 0 \in Nat
    BY <1>10, RelItself
  <2>9. Rel(q, q, 0)
    BY <1>7, <1>8, <2>6, <2>7, <2>8, ExecuteRel, Zenon
  <2>10. Moves(c, q, op, prog.cache.dests)
    BY <1>7, <1>8, <1>10, ExecuteMoves, Zenon
  <2>. HIDE DEF q
  <2>11. Running(q) \/ Failed(q)
    BY <2>9, Zenon DEF Rel, Apart, Doomed
  <2>12. SameMessage(eng, q)
    BY <2>2, <2>10, Zenon DEF SameMessage, Moves
  <2>13. Running(q) => q.pc = n
    BY <2>4, <2>7, <2>10, Zenon DEF Moves
  <2>14. q.gas < d
    <3>1. q.gas \in Nat /\ q.gas <= c.gas
      BY <2>10, FrameFields, Zenon DEF Moves
    <3>. QED BY <2>2, <2>3, <2>5, <3>1
  <2>15. CASE Running(q)
    BY <1>2, <2>3, <2>12, <2>13, <2>14, <2>15, Zenon DEF Agree, d
  <2>16. CASE Failed(q)
    BY <1>2, <2>12, <2>16, AgreeStopped, Zenon
  <2>. QED BY <2>11, <2>15, <2>16, Zenon
<1>. HIDE DEF r, c, q
<1>. QED BY <1>9, <1>12, <1>13, <1>14, Zenon

(* Both frames execute the instruction at the shared counter. *)
LEMMA InterpretAgree ==
  ASSUME NEW prog, Program(prog), NEW eng, NEW ref, OfProgram(prog, eng), OfProgram(prog, ref),
         Running(eng), Running(ref), Agree(prog, eng, ref), NEW in, Answer(in)
  PROVE  Agree(prog, interpret(eng, prog.code, prog.cache, in),
               SlowPath(ref, prog.code, prog.cache.dests, in))
<1>. DEFINE pc == eng.pc
            op == Byte(prog.code, pc)
            m == Metered(eng, prog.code, prog.cache)
            c == chargeGas(ref, CostAt(prog, pc))
            value == loadPushValue(prog.code, pc)
            Run(f) == doExecute(f, op, value, prog.cache.dests, in)
            p == interpret(eng, prog.code, prog.cache, in)
            q == SlowPath(ref, prog.code, prog.cache.dests, in)
<1>. SUFFICES Agree(prog, p, q)
  OBVIOUS
<1>1. /\ Sound(eng) /\ Sound(ref) /\ eng.rev = prog.rev /\ ref.rev = prog.rev /\ pc \in Nat
      /\ eng.until \in Nat /\ OnInstruction(prog, eng) /\ Len(prog.code) \in Nat
  BY FrameFields, ChunkFacts, Zenon DEF OfProgram
<1>2. /\ SameMessage(eng, ref) /\ Alike(eng, ref) /\ ref.pc = pc
      /\ InChunk(prog, pc, eng.until) /\ ref.gas = eng.gas + Debt(prog, pc, eng.until)
  BY Zenon DEF Agree, Alike
<1>3. p = IF pc >= Len(prog.code) THEN Stop(eng)
          ELSE IF ~Defined(op, prog.rev) THEN Fail(m, "UNDEFINED_INSTRUCTION")
          ELSE IF ~Running(m) THEN m ELSE Run(m)
  BY <1>1, Zenon DEF interpret, Metered
<1>4. q = IF pc >= Len(prog.code) THEN Stop(ref)
          ELSE IF ~Defined(op, prog.rev) THEN Fail(ref, "UNDEFINED_INSTRUCTION")
          ELSE IF ~Running(c) THEN c ELSE Run(c)
  BY <1>1, <1>2, Zenon DEF SlowPath, CostAt
<1>. HIDE DEF p, q
<1>5. CASE pc >= Len(prog.code)
  <2>1. pc >= eng.until
    BY <1>1, <1>2, <1>5 DEF InChunk
  <2>2. Debt(prog, pc, eng.until) = 0
    BY <1>1, <2>1, OutsideChunk, Zenon
  <2>3. Rel(eng, ref, 0)
    BY <1>1, <1>2, <2>2, Zenon DEF Rel, Apart
  <2>4. Rel(Stop(eng), Stop(ref), 0) \/ SameEnd(Stop(eng), Stop(ref))
    BY <2>3, RelStop, Zenon
  <2>5. Evolves(eng, Stop(eng)) /\ Evolves(ref, Stop(ref))
    BY <1>1, StopCalm, CalmFacts, Zenon
  <2>6. SameMessage(Stop(eng), Stop(ref))
    BY <1>2, <2>5, Zenon DEF SameMessage, Evolves
  <2>7. ~Running(Stop(eng))
    BY <1>1 DEF Stop, Running, Sound, Frames
  <2>8. Rel(Stop(eng), Stop(ref), 0) => Failed(Stop(eng)) /\ Failed(Stop(ref))
    BY <2>7, RelNoDebt, Zenon DEF Rel, Apart, Doomed, Failed
  <2>9. Agree(prog, Stop(eng), Stop(ref))
    BY <2>4, <2>6, <2>8, AgreeStopped, Zenon
  <2>. QED BY <1>3, <1>4, <1>5, <2>9, Zenon
<1>. SUFFICES ASSUME ~(pc >= Len(prog.code)) PROVE Agree(prog, p, q)
  BY <1>5
<1>6. pc < Len(prog.code)
  BY <1>1
<1>7. /\ Rel(m, c, Debt(prog, NextPC(prog, pc), m.until)) /\ Follows(prog, pc, m.until) /\ m.pc = pc /\ c.pc = pc
      /\ m.until \in Nat /\ (~Running(m) => ~Running(c))
  BY <1>6, MeterRel, Zenon
<1>8. value \in Nat
  <2>1. value \in 0..(WordMod - 1)
    BY <1>1, <1>6, InstructionFacts, ChunkFacts, PushValueType, Zenon
  <2>. HIDE DEF value
  <2>. QED BY <2>1, CodeAssumption
<1>9. Agree(prog, Fail(m, "UNDEFINED_INSTRUCTION"), Fail(ref, "UNDEFINED_INSTRUCTION"))
  <2>. HIDE DEF m, c
  <2>1. Sound(m) /\ SameMessage(m, c) /\ (~Running(m) => Failed(m))
    BY <1>7, Zenon DEF Rel, Apart, Doomed
  <2>2. /\ Failed(Fail(ref, "UNDEFINED_INSTRUCTION"))
        /\ Running(m) => Failed(Fail(m, "UNDEFINED_INSTRUCTION"))
        /\ ~Running(m) => Fail(m, "UNDEFINED_INSTRUCTION") = m
    BY <1>1, <2>1 DEF Fail, Failed, Finished, Running, Sound, Frames
  <2>3. /\ Evolves(ref, Fail(ref, "UNDEFINED_INSTRUCTION"))
        /\ Evolves(m, Fail(m, "UNDEFINED_INSTRUCTION"))
    BY <1>1, <2>1, FailCalm, CalmFacts, Zenon DEF Statuses
  <2>4. Evolves(ref, c)
    BY <1>1, <1>6, InstructionFacts, ChargeCalm, CalmFacts, Zenon DEF c
  <2>5. SameMessage(Fail(m, "UNDEFINED_INSTRUCTION"), Fail(ref, "UNDEFINED_INSTRUCTION"))
    BY <2>1, <2>3, <2>4, Zenon DEF SameMessage, Evolves
  <2>. QED BY <2>1, <2>2, <2>5, AgreeStopped, Zenon
<1>10. Running(m) => Running(c) /\ Agree(prog, Run(m), Run(c))
  <2>. HIDE DEF m, c, value
  <2>1. Running(m) => Running(c)
    BY <1>7, RelRunning, Zenon DEF Apart
  <2>2. Running(m) => Agree(prog, Run(m), Run(c))
    BY <1>1, <1>6, <1>7, <1>8, ExecAgree, Zenon
  <2>. QED BY <2>1, <2>2, Zenon
<1>11. ~Running(m) => ~Running(c) /\ Agree(prog, m, c)
  <2>. HIDE DEF m, c
  <2>1. ~Running(m) => Failed(m) /\ Failed(c) /\ SameMessage(m, c)
    BY <1>7, Zenon DEF Rel, Apart, Doomed, Failed
  <2>. QED BY <1>7, <2>1, AgreeStopped, Zenon
<1>. HIDE DEF m, c, Run
<1>. QED BY <1>3, <1>4, <1>9, <1>10, <1>11, Zenon

=============================================================================

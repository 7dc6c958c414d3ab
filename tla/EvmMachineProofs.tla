-------------------------- MODULE EvmMachineProofs --------------------------
(***************************************************************************)
(* What the decoding of EVM bytecode yields for every program - the value  *)
(* a PUSH loads, the starts of instructions, the base cost of a stretch of *)
(* code - and what the interpreter does to a frame, for every word size,   *)
(* stack limit, memory limit and every host answer.                        *)
(*                                                                         *)
(* The decoding is recursive: that the functions exist is part of the      *)
(* proofs.  Induction is the existence of least elements, applied to a     *)
(* set.                                                                    *)
(***************************************************************************)
EXTENDS EvmMachine, WellFoundedInduction, TLAPS

(* The facts about sequences that the proofs use, for one set of elements. *)
LEMMA LenProperties ==
  ASSUME NEW S, NEW s \in Seq(S)
  PROVE  Len(s) \in Nat /\ DOMAIN s = 1..Len(s) /\ s \in [1..Len(s) -> S]
OBVIOUS

(* An element of a sequence is one of its set. *)
LEMMA ElementOfSeq ==
  ASSUME NEW S, NEW s \in Seq(S), NEW n \in 1..Len(s)
  PROVE  s[n] \in S
OBVIOUS

(* Replacing an element. *)
LEMMA ExceptSeq ==
  ASSUME NEW S, NEW s \in Seq(S), NEW i \in 1..Len(s), NEW e \in S
  PROVE  /\ [s EXCEPT ![i] = e] \in Seq(S)
         /\ Len([s EXCEPT ![i] = e]) = Len(s)
         /\ \A j \in 1..Len(s) : [s EXCEPT ![i] = e][j] = IF j = i THEN e ELSE s[j]
OBVIOUS

(* The empty sequence is the one of length 0. *)
LEMMA EmptySeq ==
  ASSUME NEW S
  PROVE  /\ << >> \in Seq(S) /\ Len(<< >>) = 0
         /\ \A s \in Seq(S) : s # << >> => Len(s) \in Nat \ {0}
OBVIOUS

(* Joining two sequences adds their lengths. *)
LEMMA ConcatProperties ==
  ASSUME NEW S, NEW s \in Seq(S), NEW t \in Seq(S)
  PROVE  s \o t \in Seq(S) /\ Len(s \o t) = Len(s) + Len(t)
OBVIOUS

(* A part of a sequence of words is one again. *)
LEMMA SubSeqProperties ==
  ASSUME NEW S, NEW s, NEW m \in Int, NEW n \in Int, \A i \in m..n : s[i] \in S
  PROVE  /\ SubSeq(s, m, n) \in Seq(S)
         /\ Len(SubSeq(s, m, n)) = IF m <= n THEN n - m + 1 ELSE 0
OBVIOUS

(* A sequence that is not empty has a first element and a rest. *)
LEMMA HeadTailProperties ==
  ASSUME NEW S, NEW s \in Seq(S), s # << >>
  PROVE  Head(s) \in S /\ Tail(s) \in Seq(S) /\ Len(Tail(s)) = Len(s) - 1
OBVIOUS

(* Appending adds one element. *)
LEMMA AppendProperties ==
  ASSUME NEW S, NEW s \in Seq(S), NEW e \in S
  PROVE  Append(s, e) \in Seq(S) /\ Len(Append(s, e)) = Len(s) + 1
OBVIOUS


(* A set of natural numbers that is not empty has a least element. *)
LEMMA Least ==
  ASSUME NEW T, T \subseteq Nat, NEW t \in T
  PROVE  \E x \in T : \A y \in T : x <= y
<1>. DEFINE R == OpToRel(<, Nat)
<1>1. IsWellFoundedOn(R, Nat)
  BY NatLessThanWellFounded
<1>2. \A y, x \in Nat : y < x => <<y, x>> \in R
  BY DEF OpToRel
<1>. HIDE DEF R
<1>3. PICK x \in T : \A y \in T : ~(<<y, x>> \in R)
  BY <1>1, WFMin
<1>4. \A y \in T : x <= y
  <2>. SUFFICES ASSUME NEW y \in T PROVE x <= y
    OBVIOUS
  <2>1. x \in Nat /\ y \in Nat /\ ~(y < x)
    BY <1>2, <1>3
  <2>. QED BY <2>1
<1>. QED BY <1>4

(* Induction on the natural numbers, for a set instead of a predicate. *)
LEMMA Induction ==
  ASSUME NEW S, 0 \in S, \A n \in Nat : n \in S => n + 1 \in S
  PROVE  Nat \subseteq S
<1>. SUFFICES ASSUME NEW t \in Nat \ S PROVE FALSE
  OBVIOUS
<1>1. PICK x \in Nat \ S : \A y \in Nat \ S : x <= y
  <2>1. Nat \ S \subseteq Nat
    OBVIOUS
  <2>. QED BY <2>1, Least, Zenon
<1>2. x - 1 \in Nat /\ ~(x <= x - 1) /\ (x - 1) + 1 = x
  OBVIOUS
<1>3. x - 1 \in S
  BY <1>1, <1>2
<1>. QED BY <1>2, <1>3

(* g is defined on 0..n from its value at the predecessor: b at 0, then h. *)
Recursion(g, D, n, b, h) ==
  g \in [0..n -> D] /\ g[0] = b /\ \A i \in 1..n : g[i] = h[<<i, g[i - 1]>>]

StepsWithin(h, D, n) == \A i \in 1..n, d \in D : h[<<i, d>>] \in D

(* A function defined from its value at the predecessor exists. *)
LEMMA PrimitiveRecursion ==
  ASSUME NEW D, NEW n \in Nat, NEW b \in D, NEW h, StepsWithin(h, D, n)
  PROVE  \E g : Recursion(g, D, n, b, h)
<1>. DEFINE S == {k \in Nat : k <= n => \E g : Recursion(g, D, k, b, h)}
<1>1. 0 \in S
  <2>. DEFINE g == [i \in 0..0 |-> b]
  <2>1. Recursion(g, D, 0, b, h)
    BY DEF Recursion
  <2>. QED BY <2>1
<1>2. ASSUME NEW k \in Nat, k \in S PROVE k + 1 \in S
  <2>1. k + 1 \in Nat
    OBVIOUS
  <2>. SUFFICES ASSUME k + 1 <= n PROVE \E g : Recursion(g, D, k + 1, b, h)
    BY <2>1, Zenon
  <2>2. PICK g : Recursion(g, D, k, b, h)
    <3>1. k <= n
      OBVIOUS
    <3>. QED BY <1>2, <3>1, Zenon
  <2>. DEFINE f == [i \in 0..(k + 1) |-> IF i = k + 1 THEN h[<<k + 1, g[k]>>] ELSE g[i]]
  <2>3. h[<<k + 1, g[k]>>] \in D
    BY <2>2 DEF Recursion, StepsWithin
  <2>4. f \in [0..(k + 1) -> D]
    BY <2>2, <2>3 DEF Recursion
  <2>5. f[0] = b
    BY <2>2 DEF Recursion
  <2>6. ASSUME NEW i \in 1..(k + 1) PROVE f[i] = h[<<i, f[i - 1]>>]
    <3>1. CASE i = k + 1
      <4>1. f[i] = h[<<k + 1, g[k]>>] /\ f[i - 1] = g[k]
        BY <3>1
      <4>. QED BY <3>1, <4>1
    <3>2. CASE i # k + 1
      <4>1. i \in 1..k
        BY <3>2
      <4>2. f[i] = g[i] /\ f[i - 1] = g[i - 1]
        BY <3>2
      <4>. QED BY <2>2, <4>1, <4>2 DEF Recursion
    <3>. QED BY <3>1, <3>2
  <2>7. Recursion(f, D, k + 1, b, h)
    BY <2>4, <2>5, <2>6 DEF Recursion
  <2>. QED BY <2>7
<1>3. Nat \subseteq S
  <2>. HIDE DEF S
  <2>. QED BY <1>1, <1>2, Induction
<1>. QED BY <1>3

(* Lengths of instructions. *)
LEMMA OpcodeLenType ==
  ASSUME NEW op \in Bytes
  PROVE  ImmediateSize(op) \in 0..32 /\ opcodeLen(op) \in 1..33
BY DEF ImmediateSize, opcodeLen, PUSH0, PUSH1, PUSH32, Bytes

(* Bytes and the lengths of the instructions they start. *)
LEMMA ByteType ==
  ASSUME NEW code \in Seq(Bytes), NEW pc \in PCs(code)
  PROVE  /\ Byte(code, pc) \in Bytes
         /\ ImmediateSize(Byte(code, pc)) \in 0..32
         /\ opcodeLen(Byte(code, pc)) \in 1..33
<1>1. Len(code) \in Nat
  BY LenProperties
<1>2. pc + 1 \in 1..Len(code)
  BY <1>1 DEF PCs
<1>3. Byte(code, pc) \in Bytes
  BY <1>2, ElementOfSeq DEF Byte
<1>. QED BY <1>3, OpcodeLenType

(* The value a PUSH loads is a number below 256^WordBytes, whatever bytes
   follow it and wherever the code ends (loadPushValue). *)
LEMMA PushValueType ==
  ASSUME NEW code \in Seq(Bytes), NEW pc \in PCs(code)
  PROVE  loadPushValue(code, pc) \in 0..(WordMod - 1)
<1>. DEFINE n == ImmediateSize(Byte(code, pc))
            At(i) == IF pc + i < Len(code) THEN Byte(code, pc + i) ELSE 0
            D == 0..(WordMod - 1)
            Is(v) == v = [i \in 0..n |-> IF i = 0 THEN 0
                                         ELSE (v[i - 1] * 256 + At(i)) % WordMod]
            h == [x \in (1..n) \X D |-> (x[2] * 256 + At(x[1])) % WordMod]
<1>1. n \in Nat
  <2>1. n \in 0..32
    BY ByteType, Zenon
  <2>. HIDE DEF n
  <2>. QED BY <2>1
<1>2. loadPushValue(code, pc) = (CHOOSE v : Is(v))[n]
  BY DEF loadPushValue
<1>3. ASSUME NEW i \in 1..n PROVE At(i) \in Nat
  <2>1. CASE pc + i < Len(code)
    <3>1. pc + i \in PCs(code)
      BY <1>1, <2>1, LenProperties DEF PCs
    <3>2. Byte(code, pc + i) \in Bytes
      BY <3>1, ByteType, Zenon
    <3>3. At(i) = Byte(code, pc + i)
      BY <2>1
    <3>4. \A x \in Bytes : x \in Nat
      BY DEF Bytes
    <3>. HIDE DEF At
    <3>. QED BY <3>2, <3>3, <3>4, Zenon
  <2>. QED BY <2>1
<1>. HIDE DEF n, At
<1>4. 0 \in D
  BY CodeAssumption
<1>5. \A d \in D, i \in 1..n : (d * 256 + At(i)) % WordMod \in D
  BY <1>3, CodeAssumption
<1>6. StepsWithin(h, D, n)
  BY <1>5 DEF StepsWithin
<1>7. PICK g : Recursion(g, D, n, 0, h)
  <2>. HIDE DEF h, D
  <2>. QED BY <1>1, <1>4, <1>6, PrimitiveRecursion
<1>8. Is(g)
  <2>1. ASSUME NEW i \in 1..n PROVE g[i] = (g[i - 1] * 256 + At(i)) % WordMod
    <3>1. g[i - 1] \in D
      BY <1>1, <1>7 DEF Recursion
    <3>2. h[<<i, g[i - 1]>>] = (g[i - 1] * 256 + At(i)) % WordMod
      BY <3>1
    <3>. QED BY <1>7, <3>2 DEF Recursion
  <2>. DEFINE k == [i \in 0..n |-> IF i = 0 THEN 0 ELSE (g[i - 1] * 256 + At(i)) % WordMod]
  <2>2. ASSUME NEW i \in 0..n PROVE g[i] = k[i]
    BY <1>7, <2>1 DEF Recursion
  <2>3. g = [i \in 0..n |-> g[i]]
    BY <1>7 DEF Recursion
  <2>. QED BY <2>2, <2>3
<1>9. Is(CHOOSE v : Is(v))
  <2>. HIDE DEF Is
  <2>. QED BY <1>8
<1>10. PICK v : Is(v) /\ v = CHOOSE w : Is(w)
  <2>. HIDE DEF Is
  <2>. QED BY <1>9
<1>. DEFINE S == {i \in Nat : i <= n => v[i] \in D}
<1>11. 0 \in S
  BY <1>4, <1>10, <1>1
<1>12. ASSUME NEW i \in Nat, i \in S PROVE i + 1 \in S
  <2>. SUFFICES ASSUME i + 1 <= n PROVE v[i + 1] \in D
    OBVIOUS
  <2>1. v[i + 1] = (v[i] * 256 + At(i + 1)) % WordMod
    BY <1>1, <1>10
  <2>2. v[i] \in D
    BY <1>1, <1>12
  <2>. QED BY <1>5, <2>1, <2>2
<1>13. Nat \subseteq S
  <2>. HIDE DEF S
  <2>. QED BY <1>11, <1>12, Induction
<1>14. v[n] \in D
  BY <1>1, <1>13
<1>. QED BY <1>2, <1>10, <1>14

(* The counters a scan visits lie in the code, include the first one, and
   with an instruction the scan visits the next, if the code goes that far. *)
THEOREM InstrStartsClosed ==
  ASSUME NEW code \in Seq(Bytes)
  PROVE  /\ InstrStarts(code) \subseteq PCs(code)
         /\ Len(code) > 0 => 0 \in InstrStarts(code)
         /\ \A q \in InstrStarts(code) :
              LET r == q + opcodeLen(Byte(code, q))
              IN  r < Len(code) => r \in InstrStarts(code)
<1>. DEFINE n == Len(code)
            W == [next : Nat, starts : SUBSET PCs(code)]
            Visit(i, w) == IF w.next # i - 1 THEN w
                           ELSE [next |-> i - 1 + opcodeLen(Byte(code, i - 1)),
                                 starts |-> w.starts \cup {i - 1}]
            b == [next |-> 0, starts |-> {}]
            Is(v) == v = [i \in 0..n |-> IF i = 0 THEN b ELSE Visit(i, v[i - 1])]
            h == [x \in (1..n) \X W |-> Visit(x[1], x[2])]
<1>1. n \in Nat
  BY LenProperties
<1>2. InstrStarts(code) = (CHOOSE v : Is(v))[n].starts
  BY DEF InstrStarts
<1>3. ASSUME NEW i \in 1..n
      PROVE  /\ i - 1 \in PCs(code)
             /\ opcodeLen(Byte(code, i - 1)) \in 1..33
  <2>1. i - 1 \in PCs(code)
    BY <1>1 DEF PCs
  <2>. QED BY <2>1, ByteType, Zenon
<1>4. b \in W
  OBVIOUS
<1>5. ASSUME NEW i \in 1..n, NEW w \in W PROVE Visit(i, w) \in W
  <2>1. CASE w.next # i - 1
    BY <2>1
  <2>2. CASE w.next = i - 1
    <3>1. i - 1 + opcodeLen(Byte(code, i - 1)) \in Nat
      <4>1. \A x \in 1..33 : i - 1 + x \in Nat
        OBVIOUS
      <4>. QED BY <1>3, <4>1, Zenon
    <3>2. w.starts \cup {i - 1} \in SUBSET PCs(code)
      BY <1>3
    <3>3. Visit(i, w) = [next |-> i - 1 + opcodeLen(Byte(code, i - 1)),
                         starts |-> w.starts \cup {i - 1}]
      BY <2>2
    <3>. QED BY <3>1, <3>2, <3>3
  <2>. QED BY <2>1, <2>2
<1>. HIDE DEF n, W, Visit, b
<1>6. StepsWithin(h, W, n)
  BY <1>5 DEF StepsWithin
<1>7. PICK g : Recursion(g, W, n, b, h)
  <2>. HIDE DEF h
  <2>. QED BY <1>1, <1>4, <1>6, PrimitiveRecursion
<1>8. Is(g)
  <2>1. ASSUME NEW i \in 1..n PROVE g[i] = Visit(i, g[i - 1])
    <3>1. g[i - 1] \in W
      BY <1>1, <1>7 DEF Recursion
    <3>2. h[<<i, g[i - 1]>>] = Visit(i, g[i - 1])
      BY <3>1
    <3>. QED BY <1>7, <3>2 DEF Recursion
  <2>. DEFINE k == [i \in 0..n |-> IF i = 0 THEN b ELSE Visit(i, g[i - 1])]
  <2>2. ASSUME NEW i \in 0..n PROVE g[i] = k[i]
    BY <1>7, <2>1 DEF Recursion
  <2>3. g = [i \in 0..n |-> g[i]]
    BY <1>7 DEF Recursion
  <2>. QED BY <2>2, <2>3
<1>9. PICK v : Is(v) /\ v = CHOOSE w : Is(w)
  <2>. HIDE DEF Is
  <2>. QED BY <1>8
<1>. DEFINE Inv(i) ==
       /\ v[i] \in W /\ v[i].next >= i
       /\ \A q \in v[i].starts : q < i
       /\ i = 0 => v[i].next = 0
       /\ i > 0 => 0 \in v[i].starts
       /\ \A q \in v[i].starts :
            LET r == q + opcodeLen(Byte(code, q)) IN r \in v[i].starts \/ r = v[i].next
     S == {i \in Nat : i <= n => Inv(i)}
<1>10. 0 \in S
  <2>1. v[0] = b
    BY <1>1, <1>9
  <2>. QED BY <1>4, <2>1 DEF b
<1>11. ASSUME NEW i \in Nat, i \in S PROVE i + 1 \in S
  <2>. SUFFICES ASSUME i + 1 <= n PROVE Inv(i + 1)
    OBVIOUS
  <2>1. v[i + 1] = Visit(i + 1, v[i])
    BY <1>1, <1>9
  <2>2. Inv(i)
    BY <1>1, <1>11
  <2>3. v[i + 1] \in W
    BY <1>1, <1>5, <2>1, <2>2
  <2>4. CASE v[i].next # i
    <3>1. v[i + 1] = v[i]
      BY <2>1, <2>4 DEF Visit
    <3>2. v[i].next >= i + 1
      <4>1. v[i].next \in Nat
        BY <2>2 DEF W
      <4>. QED BY <2>2, <2>4, <4>1
    <3>3. \A q \in v[i].starts : q < i + 1
      <4>1. v[i].starts \subseteq Int
        BY <2>2 DEF W, PCs
      <4>. QED BY <2>2, <4>1
    <3>4. 0 \in v[i].starts
      BY <2>2, <2>4
    <3>. QED BY <2>2, <3>1, <3>2, <3>3, <3>4
  <2>5. CASE v[i].next = i
    <3>. DEFINE e == i + opcodeLen(Byte(code, i))
    <3>1. v[i + 1].next = e /\ v[i + 1].starts = v[i].starts \cup {i}
      BY <2>1, <2>5 DEF Visit
    <3>2. opcodeLen(Byte(code, i)) \in 1..33
      <4>1. i + 1 \in 1..n /\ (i + 1) - 1 = i
        BY <1>1
      <4>. QED BY <1>3, <4>1
    <3>3. v[i + 1].next >= i + 1
      <4>1. \A x \in 1..33 : i + x >= i + 1
        OBVIOUS
      <4>. QED BY <3>1, <3>2, <4>1, Zenon
    <3>4. \A q \in v[i + 1].starts : q < i + 1
      BY <2>2, <3>1 DEF W, PCs
    <3>5. 0 \in v[i + 1].starts
      BY <2>2, <2>5, <3>1
    <3>6. ASSUME NEW q \in v[i + 1].starts
          PROVE  LET r == q + opcodeLen(Byte(code, q))
                 IN  r \in v[i + 1].starts \/ r = v[i + 1].next
      BY <2>2, <2>5, <3>1
    <3>. QED BY <2>3, <3>3, <3>4, <3>5, <3>6
  <2>. QED BY <2>4, <2>5
<1>12. Nat \subseteq S
  <2>. HIDE DEF S
  <2>. QED BY <1>10, <1>11, Induction
<1>13. Inv(n)
  BY <1>1, <1>12
<1>14. InstrStarts(code) = v[n].starts
  BY <1>2, <1>9
<1>. QED BY <1>1, <1>13, <1>14 DEF W, n

(* The instruction tables are numbers; a jump is never free. *)
LEMMA MetricsType ==
  ASSUME NEW op \in Bytes, NEW rev
  PROVE  /\ GasCostOf(op, rev) \in Nat
         /\ Required(op) \in 0..17
         /\ op \in {JUMP, JUMPI, JUMPDEST} => GasCostOf(op, rev) > 0
<1>1. JumpCost(op) \in Nat \ {0}
  BY DEF JumpCost
<1>2. op \in LogOps => 375 * (op - LOG0 + 1) \in Nat
  BY DEF LogOps, LOG0, LOG4
<1>3. GasCostOf(op, rev) \in Nat
  BY <1>1, <1>2 DEF GasCostOf
<1>4. op \in DupOps => op - DUP1 + 1 \in 0..17
  BY DEF DupOps, DUP1, DUP16
<1>5. op \in SwapOps => op - SWAP1 + 2 \in 0..17
  BY DEF SwapOps, SWAP1, SWAP16
<1>6. op \in LogOps => op - LOG0 + 2 \in 0..17
  BY DEF LogOps, LOG0, LOG4
<1>7. Required(op) \in 0..17
  BY <1>4, <1>5, <1>6 DEF Required
<1>8. ASSUME op \in {JUMP, JUMPI, JUMPDEST} PROVE GasCostOf(op, rev) = JumpCost(op)
  <2>1. op \in {86, 87, 91}
    BY <1>8 DEF JUMP, JUMPI, JUMPDEST
  <2>2. op \notin {STOP, RETURN, REVERT, INVALID, SSTORE}
    BY <2>1 DEF STOP, RETURN, REVERT, INVALID, SSTORE
  <2>3. Defined(op, rev)
    <3>1. op \in {STOP, KECCAK256, POP, JUMP, JUMPI, JUMPDEST, MSTORE, MSTORE8,
                  SSTORE, TSTORE, EXTCODECOPY, RETURN, REVERT, INVALID, SELFDESTRUCT}
      BY <1>8
    <3>2. /\ op # BASEFEE /\ op # PUSH0 /\ op # CLZ
          /\ op \notin {TLOAD, TSTORE, MCOPY, BLOBHASH, BLOBBASEFEE}
      BY <2>1 DEF BASEFEE, PUSH0, CLZ, TLOAD, TSTORE, MCOPY, BLOBHASH, BLOBBASEFEE
    <3>. QED BY <3>1, <3>2 DEF Defined
  <2>4. /\ op \notin (EnvOps \ {SELFBALANCE}) \cup {POP, PUSH0}
        /\ op \notin {MUL, DIV, 5, 6, 7, 11, SELFBALANCE, CLZ}
        /\ op \notin TernaryOps
    BY <2>1 DEF EnvOps, CALLER, CALLDATASIZE, RETURNDATASIZE, BLOBBASEFEE, PC, MSIZE, GAS,
                SELFBALANCE, POP, PUSH0, MUL, DIV, CLZ, TernaryOps
  <2>5. /\ op # EXP /\ op # BLOCKHASH /\ op # KECCAK256
        /\ op \notin {BALANCE, EXTCODESIZE, EXTCODECOPY, EXTCODEHASH} \cup CallOps
        /\ op # SLOAD /\ op \notin {TLOAD, TSTORE} /\ op \notin LogOps
        /\ op \notin CreateOps /\ op # SELFDESTRUCT
    BY <2>1 DEF EXP, BLOCKHASH, KECCAK256, BALANCE, EXTCODESIZE, EXTCODECOPY, EXTCODEHASH,
                CallOps, CALL, CALLCODE, DELEGATECALL, STATICCALL, SLOAD, TLOAD, TSTORE,
                LogOps, LOG0, LOG4, CreateOps, CREATE, CREATE2, SELFDESTRUCT
  <2>6. op \in {JUMPDEST, JUMP, JUMPI}
    BY <1>8
  <2>. QED BY <2>2, <2>3, <2>4, <2>5, <2>6, SMT DEF GasCostOf
<1>. QED BY <1>1, <1>3, <1>7, <1>8

(* BaseCost is the sum it claims to be: the cost of the instruction at pc,
   and the base cost of what follows it. *)
THEOREM BaseCostSum ==
  ASSUME NEW code \in Seq(Bytes), NEW rev, NEW end \in Nat, NEW pc \in Nat
  PROVE  /\ BaseCost(code, rev, pc, end) \in Nat
         /\ pc >= end => BaseCost(code, rev, pc, end) = 0
         /\ pc < end /\ pc \in PCs(code) =>
              BaseCost(code, rev, pc, end)
                = GasCostOf(Byte(code, pc), rev)
                    + BaseCost(code, rev, pc + opcodeLen(Byte(code, pc)), end)
<1>. DEFINE Gas(q) == GasCostOf(Byte(code, q), rev)
            After(q) == q + opcodeLen(Byte(code, q))
            To(q) == IF After(q) < end THEN After(q) ELSE end
            Body(v, q) == IF q = end \/ q >= Len(code) THEN 0 ELSE Gas(q) + v[To(q)]
            Is(v) == v = [q \in 0..end |-> Body(v, q)]
            rest == CHOOSE v : Is(v)
<1>1. Len(code) \in Nat
  BY LenProperties
<1>2. ASSUME NEW x \in Nat
      PROVE  BaseCost(code, rev, x, end) = IF x < end THEN rest[x] ELSE 0
  BY DEF BaseCost
<1>3. ASSUME NEW q \in PCs(code)
      PROVE  q \in Nat /\ Gas(q) \in Nat /\ After(q) \in Nat /\ After(q) > q
  <2>1. Byte(code, q) \in Bytes /\ opcodeLen(Byte(code, q)) \in 1..33
    BY ByteType, Zenon
  <2>2. Gas(q) \in Nat
    BY <2>1, MetricsType, Zenon
  <2>3. q \in Nat
    BY <1>1 DEF PCs
  <2>4. \A x \in 1..33 : q + x \in Nat /\ q + x > q
    BY <2>3
  <2>. QED BY <2>1, <2>2, <2>3, <2>4, Zenon
<1>4. ASSUME NEW q \in 0..end, q # end, ~(q >= Len(code))
      PROVE  q \in PCs(code) /\ Gas(q) \in Nat /\ To(q) \in (q + 1)..end
  <2>1. q \in PCs(code)
    BY <1>1, <1>4 DEF PCs
  <2>2. After(q) \in Nat /\ After(q) > q
    BY <1>3, <2>1, Zenon
  <2>. HIDE DEF After
  <2>3. To(q) \in (q + 1)..end
    BY <1>4, <2>2
  <2>. QED BY <1>3, <2>1, <2>3, Zenon
<1>. HIDE DEF Gas, To, After
<1>. DEFINE Upto(k) == \E r \in [0..end -> Nat] :
                         \A q \in 0..end : q >= end - k => r[q] = Body(r, q)
            S == {k \in Nat : k <= end => Upto(k)}
<1>5. 0 \in S
  <2>. DEFINE r == [q \in 0..end |-> 0]
  <2>1. r \in [0..end -> Nat]
    OBVIOUS
  <2>2. \A q \in 0..end : q >= end - 0 => r[q] = Body(r, q)
    OBVIOUS
  <2>. QED BY <2>1, <2>2
<1>6. ASSUME NEW k \in Nat, k \in S PROVE k + 1 \in S
  <2>. SUFFICES ASSUME k + 1 <= end PROVE Upto(k + 1)
    OBVIOUS
  <2>1. PICK r \in [0..end -> Nat] : \A q \in 0..end : q >= end - k => r[q] = Body(r, q)
    BY <1>6
  <2>. DEFINE m == end - (k + 1)
              s == [r EXCEPT ![m] = Body(r, m)]
  <2>2. m \in 0..end
    OBVIOUS
  <2>3. Body(r, m) \in Nat
    BY <1>4, <2>2
  <2>4. s \in [0..end -> Nat]
    BY <2>3
  <2>5. ASSUME NEW q \in 0..end, q >= m PROVE s[q] = Body(s, q)
    <3>1. s[q] = IF q = m THEN Body(r, m) ELSE r[q]
      OBVIOUS
    <3>2. s[q] = Body(r, q)
      BY <2>1, <2>5, <3>1
    <3>3. CASE q = end \/ q >= Len(code)
      BY <3>2, <3>3
    <3>4. CASE q # end /\ ~(q >= Len(code))
      <4>1. To(q) \in 0..end /\ To(q) # m
        BY <1>4, <2>5, <3>4
      <4>2. s[To(q)] = r[To(q)]
        BY <4>1
      <4>. QED BY <3>2, <4>2
    <3>. QED BY <3>3, <3>4
  <2>. QED BY <2>4, <2>5
<1>7. Nat \subseteq S
  <2>. HIDE DEF S
  <2>. QED BY <1>5, <1>6, Induction
<1>8. \E v : Is(v)
  <2>1. Upto(end)
    <3>1. end \in S
      BY <1>7, Zenon
    <3>2. end <= end
      OBVIOUS
    <3>. QED BY <3>1, <3>2, Zenon
  <2>2. PICK r \in [0..end -> Nat] : \A q \in 0..end : r[q] = Body(r, q)
    BY <2>1
  <2>3. Is(r)
    BY <2>2
  <2>. QED BY <2>3
<1>9. Is(rest)
  <2>. HIDE DEF Is
  <2>. QED BY <1>8
<1>. HIDE DEF rest
<1>. DEFINE T == {k \in Nat : \A q \in 0..end : q >= end - k => rest[q] \in Nat}
<1>10. 0 \in T
  BY <1>9
<1>11. ASSUME NEW k \in Nat, k \in T PROVE k + 1 \in T
  <2>. SUFFICES ASSUME NEW q \in 0..end, q >= end - (k + 1) PROVE rest[q] \in Nat
    OBVIOUS
  <2>1. rest[q] = Body(rest, q)
    BY <1>9
  <2>2. CASE q = end \/ q >= Len(code)
    BY <2>1, <2>2
  <2>3. CASE q # end /\ ~(q >= Len(code))
    <3>1. To(q) \in (q + 1)..end /\ Gas(q) \in Nat
      BY <1>4, <2>3
    <3>2. To(q) \in 0..end /\ To(q) >= end - k
      BY <3>1
    <3>3. rest[To(q)] \in Nat
      BY <1>11, <3>2
    <3>4. rest[q] = Gas(q) + rest[To(q)]
      BY <2>1, <2>3
    <3>. QED BY <3>1, <3>3, <3>4
  <2>. QED BY <2>2, <2>3
<1>12. Nat \subseteq T
  <2>. HIDE DEF T
  <2>. QED BY <1>10, <1>11, Induction
<1>13. ASSUME NEW q \in 0..end PROVE rest[q] \in Nat
  <2>1. end \in T
    BY <1>12, Zenon
  <2>2. q >= end - end
    OBVIOUS
  <2>. QED BY <2>1, <2>2
<1>14. ASSUME pc < end, pc \in PCs(code)
       PROVE  BaseCost(code, rev, pc, end) = Gas(pc) + BaseCost(code, rev, After(pc), end)
  <2>1. pc \in 0..end /\ pc # end /\ ~(pc >= Len(code))
    BY <1>1, <1>14 DEF PCs
  <2>2. rest[pc] = Gas(pc) + rest[To(pc)]
    BY <1>9, <2>1
  <2>3. After(pc) \in Nat
    BY <1>3, <1>14
  <2>4. rest[end] = 0
    BY <1>9
  <2>5. rest[To(pc)] = BaseCost(code, rev, After(pc), end)
    BY <1>2, <2>3, <2>4 DEF To
  <2>6. BaseCost(code, rev, pc, end) = rest[pc]
    BY <1>2, <1>14
  <2>. QED BY <2>2, <2>5, <2>6
<1>15. BaseCost(code, rev, pc, end) \in Nat
  BY <1>2, <1>13
<1>16. pc >= end => BaseCost(code, rev, pc, end) = 0
  BY <1>2
<1>. QED BY <1>14, <1>15, <1>16 DEF Gas, After

(* The cost of the JUMPDESTs that a jump into a run skips. *)
RunCost(cost, lo, hi) ==
  LET skip[q \in lo..hi] == IF q = hi THEN 0 ELSE cost[q] + skip[q + 1]
  IN  skip[lo]

(* It is a natural number, however long the run. *)
LEMMA RunCostType ==
  ASSUME NEW cost, NEW lo \in Nat, NEW hi \in Nat, lo <= hi,
         \A q \in lo..hi : cost[q] \in Nat
  PROVE  RunCost(cost, lo, hi) \in Nat
<1>. DEFINE Body(v, q) == IF q = hi THEN 0 ELSE cost[q] + v[q + 1]
            Is(v) == v = [q \in lo..hi |-> Body(v, q)]
            skip == CHOOSE v : Is(v)
            Upto(k) == \E r \in [lo..hi -> Nat] :
                         \A q \in lo..hi : q >= hi - k => r[q] = Body(r, q)
            S == {k \in Nat : k <= hi - lo => Upto(k)}
<1>1. RunCost(cost, lo, hi) = skip[lo]
  BY DEF RunCost
<1>2. 0 \in S
  <2>. DEFINE r == [q \in lo..hi |-> 0]
  <2>1. r \in [lo..hi -> Nat]
    OBVIOUS
  <2>2. \A q \in lo..hi : q >= hi - 0 => r[q] = Body(r, q)
    OBVIOUS
  <2>. QED BY <2>1, <2>2
<1>3. ASSUME NEW k \in Nat, k \in S PROVE k + 1 \in S
  <2>. SUFFICES ASSUME k + 1 <= hi - lo PROVE Upto(k + 1)
    OBVIOUS
  <2>1. PICK r \in [lo..hi -> Nat] : \A q \in lo..hi : q >= hi - k => r[q] = Body(r, q)
    BY <1>3
  <2>. DEFINE m == hi - (k + 1)
              s == [r EXCEPT ![m] = Body(r, m)]
  <2>2. m \in lo..hi /\ m + 1 \in lo..hi /\ m # hi
    OBVIOUS
  <2>3. Body(r, m) \in Nat
    BY <2>2
  <2>4. s \in [lo..hi -> Nat]
    BY <2>3
  <2>5. ASSUME NEW q \in lo..hi, q >= m PROVE s[q] = Body(s, q)
    <3>0. s[q] = IF q = m THEN Body(r, m) ELSE r[q]
      OBVIOUS
    <3>1. s[q] = Body(r, q)
      <4>1. q # m => q >= hi - k
        BY <2>5
      <4>. HIDE DEF s, m
      <4>. QED BY <2>1, <3>0, <4>1, Zenon
    <3>2. CASE q = hi
      BY <3>1, <3>2
    <3>3. CASE q # hi
      <4>1. q + 1 \in lo..hi /\ q + 1 # m
        BY <2>5, <3>3
      <4>2. s[q + 1] = r[q + 1]
        BY <4>1
      <4>. QED BY <3>1, <3>3, <4>2
    <3>. QED BY <3>2, <3>3
  <2>6. \A q \in lo..hi : q >= hi - (k + 1) => s[q] = Body(s, q)
    BY <2>5, Zenon
  <2>. HIDE DEF s
  <2>. QED BY <2>4, <2>6, Zenon
<1>4. Nat \subseteq S
  <2>. HIDE DEF S
  <2>. QED BY <1>2, <1>3, Induction
<1>5. Upto(hi - lo)
  <2>1. hi - lo \in Nat /\ hi - lo <= hi - lo
    OBVIOUS
  <2>2. hi - lo \in S
    BY <1>4, <2>1, Zenon
  <2>. QED BY <2>1, <2>2, Zenon
<1>6. \E v : Is(v)
  <2>1. PICK r \in [lo..hi -> Nat] : \A q \in lo..hi : q >= hi - (hi - lo) => r[q] = Body(r, q)
    BY <1>5, Zenon
  <2>2. \A q \in lo..hi : q >= hi - (hi - lo)
    OBVIOUS
  <2>3. \A q \in lo..hi : r[q] = Body(r, q)
    BY <2>1, <2>2, Zenon
  <2>4. Is(r)
    BY <2>3
  <2>. QED BY <2>4
<1>7. Is(skip)
  <2>. HIDE DEF Is
  <2>. QED BY <1>6
<1>. HIDE DEF skip
<1>. DEFINE T == {k \in Nat : \A q \in lo..hi : q >= hi - k => skip[q] \in Nat}
<1>8. 0 \in T
  BY <1>7
<1>9. ASSUME NEW k \in Nat, k \in T PROVE k + 1 \in T
  <2>. SUFFICES ASSUME NEW q \in lo..hi, q >= hi - (k + 1) PROVE skip[q] \in Nat
    OBVIOUS
  <2>1. skip[q] = Body(skip, q)
    BY <1>7
  <2>2. CASE q # hi
    <3>1. q + 1 \in lo..hi /\ q + 1 >= hi - k
      BY <2>2
    <3>2. skip[q + 1] \in Nat
      BY <1>9, <3>1
    <3>. QED BY <2>1, <2>2, <3>2
  <2>. QED BY <2>1, <2>2
<1>10. Nat \subseteq T
  <2>. HIDE DEF T
  <2>. QED BY <1>8, <1>9, Induction
<1>11. hi - lo \in T
  <2>1. hi - lo \in Nat
    OBVIOUS
  <2>. QED BY <1>10, <2>1, Zenon
<1>12. lo \in lo..hi /\ lo >= hi - (hi - lo)
  OBVIOUS
<1>. QED BY <1>1, <1>11, <1>12

(* The block walk visits the first counter and every JUMPDEST, goes on from
   an instruction that control can pass, and stays on instructions. *)
THEOREM LiveStartsClosed ==
  ASSUME NEW code \in Seq(Bytes), NEW rev
  PROVE  /\ 0 \in LiveStarts(code, rev)
         /\ JumpDests(code) \subseteq LiveStarts(code, rev)
         /\ \A q \in LiveStarts(code, rev) :
              q < Len(code) => q \in InstrStarts(code)
         /\ \A q \in LiveStarts(code, rev) :
              LET r == q + opcodeLen(Byte(code, q))
              IN  q < Len(code) /\ ~EndsInDeadCode(Byte(code, q), rev) /\ r <= Len(code)
                    => r \in LiveStarts(code, rev)
<1>. DEFINE n == Len(code)
            dests == JumpDests(code)
            End(q) == q + opcodeLen(Byte(code, q))
            Dead(q) == EndsInDeadCode(Byte(code, q), rev)
            Enters(i, before) == i = 0 \/ i \in dests \/ \E q \in before : End(q) = i /\ ~Dead(q)
            Visit(i, before) == IF Enters(i, before) THEN before \cup {i} ELSE before
            W == SUBSET (0..n)
            b == Visit(0, {})
            Is(v) == v = [i \in 0..n |-> Visit(i, IF i = 0 THEN {} ELSE v[i - 1])]
            h == [x \in (1..n) \X W |-> Visit(x[1], x[2])]
<1>1. n \in Nat
  BY LenProperties
<1>2. LiveStarts(code, rev) = (CHOOSE v : Is(v))[n]
  BY DEF LiveStarts
<1>3. b = {0}
  OBVIOUS
<1>4. ASSUME NEW i \in 0..n, NEW w \in W PROVE Visit(i, w) \in W
  OBVIOUS
<1>5. dests \subseteq InstrStarts(code) /\ InstrStarts(code) \subseteq PCs(code)
  BY InstrStartsClosed DEF JumpDests
<1>6. \A q \in InstrStarts(code) : End(q) < n => End(q) \in InstrStarts(code)
  BY InstrStartsClosed
<1>7. n > 0 => 0 \in InstrStarts(code)
  BY InstrStartsClosed
<1>. HIDE DEF n, Enters, End, Dead, dests
<1>. HIDE DEF Visit
<1>8. b \in W /\ StepsWithin(h, W, n)
  <2>1. b \in W
    BY <1>1, <1>3
  <2>2. ASSUME NEW i \in 1..n, NEW d \in W PROVE h[<<i, d>>] = Visit(i, d) /\ i \in 0..n
    <3>. HIDE DEF W
    <3>. QED OBVIOUS
  <2>. HIDE DEF h, W
  <2>. QED BY <1>4, <2>1, <2>2, Zenon DEF StepsWithin
<1>. HIDE DEF b
<1>9. PICK g : Recursion(g, W, n, b, h)
  <2>. HIDE DEF h, W
  <2>. QED BY <1>1, <1>8, PrimitiveRecursion
<1>10. Is(g)
  <2>1. ASSUME NEW i \in 1..n PROVE g[i] = Visit(i, g[i - 1])
    <3>1. g[i - 1] \in W
      BY <1>1, <1>9 DEF Recursion
    <3>2. h[<<i, g[i - 1]>>] = Visit(i, g[i - 1])
      <4>. HIDE DEF W
      <4>. QED BY <3>1
    <3>3. g[i] = h[<<i, g[i - 1]>>]
      <4>. HIDE DEF h, W
      <4>. QED BY <1>9 DEF Recursion
    <3>. QED BY <3>2, <3>3, Zenon
  <2>2. g[0] = Visit(0, {})
    BY <1>9 DEF Recursion, b
  <2>. DEFINE k == [i \in 0..n |-> Visit(i, IF i = 0 THEN {} ELSE g[i - 1])]
  <2>3. ASSUME NEW i \in 0..n PROVE g[i] = k[i]
    BY <2>1, <2>2
  <2>4. g = [i \in 0..n |-> g[i]]
    <3>. HIDE DEF W, h
    <3>. QED BY <1>9 DEF Recursion
  <2>5. k = [i \in 0..n |-> k[i]]
    OBVIOUS
  <2>6. g = k
    <3>. HIDE DEF k
    <3>. QED BY <2>3, <2>4, <2>5
  <2>. QED BY <2>6, Zenon
<1>11. PICK v : Is(v) /\ v = CHOOSE w : Is(w)
  <2>. HIDE DEF Is
  <2>. QED BY <1>10
<1>12. v[0] = {0}
  BY <1>1, <1>3, <1>11 DEF b
<1>13. ASSUME NEW i \in Nat, i + 1 <= n
       PROVE  v[i + 1] = IF Enters(i + 1, v[i]) THEN v[i] \cup {i + 1} ELSE v[i]
  <2>1. i + 1 \in 0..n /\ (i + 1) - 1 = i /\ i + 1 # 0
    BY <1>1, <1>13
  <2>2. v[i + 1] = Visit(i + 1, IF i + 1 = 0 THEN {} ELSE v[(i + 1) - 1])
    BY <1>11, <2>1, Zenon
  <2>3. v[i + 1] = Visit(i + 1, v[i])
    BY <2>1, <2>2, Zenon
  <2>. QED BY <2>3, Zenon DEF Visit
<1>. DEFINE Inv(i) ==
       /\ 0 \in v[i]
       /\ \A q \in v[i] : q \in 0..i
       /\ \A q \in v[i] : q < n => q \in InstrStarts(code)
       /\ \A q \in dests : q <= i => q \in v[i]
       /\ \A q \in v[i] : q < n /\ ~Dead(q) /\ End(q) <= i => End(q) \in v[i]
     S == {i \in Nat : i <= n => Inv(i)}
<1>14. ASSUME NEW q \in PCs(code) PROVE q \in Nat /\ End(q) \in Nat /\ End(q) > q
  <2>1. q \in Nat
    BY <1>1 DEF PCs, n
  <2>2. opcodeLen(Byte(code, q)) \in 1..33
    BY ByteType, Zenon
  <2>3. \A x \in 1..33 : q + x \in Nat /\ q + x > q
    BY <2>1
  <2>. QED BY <2>1, <2>2, <2>3, Zenon DEF End
<1>15. ASSUME NEW q \in 0..n, q < n PROVE q \in PCs(code)
  BY <1>1, <1>15 DEF PCs, n
<1>16. 0 \in S
  <2>1. \A q \in dests : q <= 0 => q = 0
    BY <1>5, <1>14
  <2>2. 0 < n => ~(End(0) <= 0)
    <3>1. 0 < n => 0 \in PCs(code)
      BY <1>1 DEF PCs, n
    <3>. QED BY <1>14, <3>1
  <2>3. Inv(0)
    BY <1>7, <1>12, <2>1, <2>2
  <2>. QED BY <2>3
<1>17. ASSUME NEW i \in Nat, i \in S PROVE i + 1 \in S
  <2>. SUFFICES ASSUME i + 1 <= n PROVE Inv(i + 1)
    OBVIOUS
  <2>1. Inv(i)
    BY <1>1, <1>17
  <2>2. v[i + 1] = IF Enters(i + 1, v[i]) THEN v[i] \cup {i + 1} ELSE v[i]
    BY <1>13, Zenon
  <2>3. 0 \in v[i + 1]
    BY <2>1, <2>2
  <2>4. ASSUME NEW q \in v[i + 1] PROVE q \in 0..(i + 1)
    BY <2>1, <2>2
  <2>5. i + 1 < n /\ Enters(i + 1, v[i]) => i + 1 \in InstrStarts(code)
    <3>. SUFFICES ASSUME i + 1 < n, Enters(i + 1, v[i]) PROVE i + 1 \in InstrStarts(code)
      OBVIOUS
    <3>1. i + 1 \in dests \/ \E q \in v[i] : End(q) = i + 1
      BY DEF Enters
    <3>2. CASE i + 1 \in dests
      BY <1>5, <3>2
    <3>3. CASE \E q \in v[i] : End(q) = i + 1
      <4>1. PICK q \in v[i] : End(q) = i + 1
        BY <3>3
      <4>2. q \in InstrStarts(code)
        BY <1>1, <2>1
      <4>. QED BY <1>6, <4>1, <4>2
    <3>. QED BY <3>1, <3>2, <3>3
  <2>6. ASSUME NEW q \in v[i + 1], q < n PROVE q \in InstrStarts(code)
    BY <2>1, <2>2, <2>5, <2>6
  <2>7. ASSUME NEW q \in dests, q <= i + 1 PROVE q \in v[i + 1]
    <3>1. CASE q = i + 1
      BY <2>2, <3>1 DEF Enters
    <3>2. CASE q # i + 1
      <4>1. q <= i
        BY <1>5, <1>14, <2>7, <3>2
      <4>. QED BY <2>1, <2>2, <4>1
    <3>. QED BY <3>1, <3>2
  <2>8. ASSUME NEW q \in v[i + 1], q < n, ~Dead(q), End(q) <= i + 1 PROVE End(q) \in v[i + 1]
    <3>1. q \in PCs(code)
      BY <1>5, <2>6, <2>8
    <3>2. q \in Nat /\ End(q) \in Nat /\ End(q) > q
      BY <1>14, <3>1
    <3>3. q \in v[i]
      BY <2>2, <2>8, <3>2
    <3>4. CASE End(q) = i + 1
      <4>1. Enters(i + 1, v[i])
        BY <2>8, <3>3, <3>4 DEF Enters
      <4>. QED BY <2>2, <3>4, <4>1
    <3>5. CASE End(q) # i + 1
      <4>1. End(q) <= i
        BY <2>8, <3>2, <3>5
      <4>. QED BY <2>1, <2>2, <2>8, <3>3, <4>1
    <3>. QED BY <3>4, <3>5
  <2>. QED BY <2>3, <2>4, <2>6, <2>7, <2>8
<1>18. Nat \subseteq S
  <2>. HIDE DEF S
  <2>. QED BY <1>16, <1>17, Induction
<1>19. Inv(n)
  <2>1. n \in S /\ n <= n
    BY <1>1, <1>18
  <2>. QED BY <2>1, Zenon
<1>20. LiveStarts(code, rev) = v[n]
  BY <1>2, <1>11, Zenon
<1>21. \A q \in dests : q \in v[n]
  <2>1. \A q \in dests : q <= n
    BY <1>1, <1>5 DEF PCs, n
  <2>. QED BY <1>19, <2>1
<1>. QED BY <1>19, <1>20, <1>21 DEF n, dests, End, Dead
-----------------------------------------------------------------------------
Statuses ==
  {"running", "SUCCESS", "REVERT", "OUT_OF_GAS", "STACK_OVERFLOW", "STACK_UNDERFLOW",
   "STATIC_MODE_VIOLATION", "INVALID_MEMORY_ACCESS", "BAD_JUMP_DESTINATION",
   "INVALID_INSTRUCTION", "UNDEFINED_INSTRUCTION", "OUT_OF_BOUNDS_MEMORY", "CORRUPT"}

Frames ==
  [pc : Nat, stack : Seq(Nat), gas : Nat, mem : Nat, ret : Nat, refund : Int,
   log : Seq(Nat), st : Statuses, until : Nat, snap : Int, rev : Nat, static : BOOLEAN,
   deep : BOOLEAN, msz : Nat, plan : Plans, begin : BOOLEAN]

(* A frame within the limits of the machine. *)
Sound(f) ==
  /\ f \in Frames
  /\ Len(f.stack) <= MaxStack
  /\ f.mem % 32 = 0 /\ f.mem <= MaxMemory + 31

(* What one handler may do to a frame before control moves on. *)
Evolves(f, g) ==
  /\ Sound(g)
  /\ g.gas <= f.gas
  /\ ~Running(f) => g = f
  /\ g.pc = f.pc /\ g.until = f.until
  /\ g.snap = f.snap /\ g.rev = f.rev /\ g.static = f.static /\ g.deep = f.deep
  /\ f.static => g.log = f.log

(* The same for one that leaves the memory alone. *)
Calm(f, g) ==
  /\ Evolves(f, g)
  /\ g.mem = f.mem /\ g.msz = f.msz /\ g.plan = f.plan /\ g.begin = f.begin

(* The types of the fields of a sound frame. *)
LEMMA FrameFields ==
  ASSUME NEW f, Sound(f)
  PROVE  /\ f.pc \in Nat /\ f.stack \in Seq(Nat) /\ f.gas \in Nat /\ f.mem \in Nat
         /\ f.ret \in Nat /\ f.refund \in Int /\ f.log \in Seq(Nat) /\ f.st \in Statuses
         /\ f.until \in Nat /\ f.snap \in Int /\ f.rev \in Nat /\ f.static \in BOOLEAN
         /\ f.deep \in BOOLEAN /\ f.msz \in Nat /\ f.plan \in Plans /\ f.begin \in BOOLEAN
         /\ Len(f.stack) \in Nat
<1>1. f.stack \in Seq(Nat)
  BY DEF Sound, Frames
<1>2. Len(f.stack) \in Nat
  BY <1>1, LenProperties, Zenon
<1>. QED BY <1>2 DEF Sound, Frames

(* A part of the stack is a sequence of words again. *)
LEMMA SubSeqOfWords ==
  ASSUME NEW s \in Seq(Nat), NEW m \in Nat \ {0}, NEW n \in Nat, n <= Len(s), m <= n + 1
  PROVE  /\ SubSeq(s, m, n) \in Seq(Nat)
         /\ Len(SubSeq(s, m, n)) = n - m + 1
<1>1. Len(s) \in Nat
  BY LenProperties
<1>2. \A i \in m..n : i \in 1..Len(s)
  BY <1>1
<1>3. \A i \in m..n : s[i] \in Nat
  BY <1>2, ElementOfSeq, Zenon
<1>4. m \in Int /\ n \in Int
  OBVIOUS
<1>5. /\ SubSeq(s, m, n) \in Seq(Nat)
      /\ Len(SubSeq(s, m, n)) = IF m <= n THEN n - m + 1 ELSE 0
  BY <1>3, <1>4, SubSeqProperties
<1>. QED BY <1>5

(* A handler that does nothing is calm. *)
LEMMA CalmReflexive == ASSUME NEW f, Sound(f) PROVE Calm(f, f)
BY FrameFields DEF Calm, Evolves

(* What one handler may do, two in a row may do. *)
LEMMA EvolvesTransitive ==
  ASSUME NEW f, NEW g, NEW h, Sound(f), Evolves(f, g), Evolves(g, h)
  PROVE  Evolves(f, h)
<1>1. Sound(g) /\ Sound(h)
  BY DEF Evolves
<1>2. f.gas \in Nat /\ g.gas \in Nat /\ h.gas \in Nat
  BY <1>1, FrameFields
<1>3. ~Running(f) => h = f
  BY DEF Evolves
<1>. QED BY <1>1, <1>2, <1>3 DEF Evolves

(* Two calm steps in a row are one. *)
LEMMA CalmTransitive ==
  ASSUME NEW f, NEW g, NEW h, Sound(f), Calm(f, g), Calm(g, h)
  PROVE  Calm(f, h)
BY EvolvesTransitive DEF Calm

(* setExceptionStatus and the common exit: a failure takes the gas and
   restores the refund, and touches nothing else of the frame. *)
LEMMA FailCalm ==
  ASSUME NEW f, Sound(f), NEW status \in Statuses
  PROVE  Calm(f, Fail(f, status))
<1>1. CASE Running(f)
  <2>. DEFINE g == [f EXCEPT !.st = status, !.gas = 0, !.refund = f.snap, !.ret = 0]
  <2>1. Fail(f, status) = g
    BY <1>1 DEF Fail
  <2>2. f \in Frames /\ f.snap \in Int /\ 0 \in Nat
    BY FrameFields DEF Sound
  <2>3. g \in Frames
    BY <2>2, Zenon DEF Frames
  <2>4. /\ g.gas = 0 /\ g.stack = f.stack /\ g.mem = f.mem /\ g.pc = f.pc /\ g.until = f.until
        /\ g.snap = f.snap /\ g.rev = f.rev /\ g.static = f.static /\ g.deep = f.deep
        /\ g.log = f.log /\ g.msz = f.msz /\ g.plan = f.plan /\ g.begin = f.begin
    BY <2>2 DEF Frames
  <2>. HIDE DEF g
  <2>5. g.gas <= f.gas
    BY <2>4, FrameFields
  <2>6. Sound(g)
    BY <2>3, <2>4 DEF Sound
  <2>. QED BY <1>1, <2>1, <2>4, <2>5, <2>6, Zenon DEF Calm, Evolves
<1>2. CASE ~Running(f)
  <2>1. Fail(f, status) = f
    BY <1>2 DEF Fail
  <2>. QED BY <2>1, CalmReflexive, Zenon
<1>. QED BY <1>1, <1>2, Zenon

(* chargeGas either takes exactly the cost or ends the frame. *)
LEMMA ChargeCalm ==
  ASSUME NEW f, Sound(f), NEW cost \in Nat
  PROVE  /\ Calm(f, chargeGas(f, cost))
         /\ Running(chargeGas(f, cost)) => chargeGas(f, cost).gas = f.gas - cost
<1>1. CASE Running(f) /\ f.gas >= cost
  <2>. DEFINE g == [f EXCEPT !.gas = @ - cost]
  <2>1. f \in Frames /\ f.gas \in Nat /\ f.gas - cost \in Nat
    BY <1>1, FrameFields DEF Sound
  <2>2. chargeGas(f, cost) = g
    BY <1>1, <2>1 DEF chargeGas
  <2>3. g \in Frames
    BY <2>1, Zenon DEF Frames
  <2>4. /\ g.gas = f.gas - cost /\ g.stack = f.stack /\ g.mem = f.mem /\ g.pc = f.pc
        /\ g.until = f.until /\ g.snap = f.snap /\ g.rev = f.rev /\ g.static = f.static
        /\ g.deep = f.deep /\ g.log = f.log /\ g.msz = f.msz /\ g.plan = f.plan
        /\ g.begin = f.begin
    BY <2>1 DEF Frames
  <2>. HIDE DEF g
  <2>5. g.gas <= f.gas
    BY <2>1, <2>4
  <2>6. Sound(g)
    BY <2>3, <2>4 DEF Sound
  <2>. QED BY <1>1, <2>2, <2>4, <2>5, <2>6, Zenon DEF Calm, Evolves
<1>2. CASE ~Running(f)
  <2>1. chargeGas(f, cost) = f
    BY <1>2 DEF chargeGas
  <2>. QED BY <1>2, <2>1, CalmReflexive
<1>3. CASE Running(f) /\ f.gas < cost
  <2>1. chargeGas(f, cost) = Fail(f, "OUT_OF_GAS") /\ ~Running(Fail(f, "OUT_OF_GAS"))
    BY <1>3 DEF chargeGas, Fail, Running, Sound, Frames
  <2>. QED BY <2>1, FailCalm, Zenon DEF Statuses
<1>4. f.gas \in Nat
  BY FrameFields
<1>. QED BY <1>1, <1>2, <1>3, <1>4

(* Frame->push stays within the stack limit or fails. *)
LEMMA PushCalm ==
  ASSUME NEW f, Sound(f), NEW v \in Nat
  PROVE  Calm(f, Push(f, v))
<1>1. CASE Running(f) /\ ~(Len(f.stack) >= MaxStack)
  <2>. DEFINE g == [f EXCEPT !.stack = <<v>> \o @]
              s == <<v>> \o f.stack
  <2>1. f \in Frames /\ f.stack \in Seq(Nat) /\ Len(f.stack) \in Nat
    BY FrameFields DEF Sound
  <2>2. s \in Seq(Nat) /\ Len(s) = 1 + Len(f.stack)
    BY <2>1, ConcatProperties
  <2>3. Push(f, v) = g
    BY <1>1 DEF Push
  <2>4. g \in Frames
    BY <2>1, <2>2, Zenon DEF Frames
  <2>5. /\ g.gas = f.gas /\ g.stack = s /\ g.mem = f.mem /\ g.pc = f.pc
        /\ g.until = f.until /\ g.snap = f.snap /\ g.rev = f.rev /\ g.static = f.static
        /\ g.deep = f.deep /\ g.log = f.log /\ g.msz = f.msz /\ g.plan = f.plan
        /\ g.begin = f.begin
    BY <2>1 DEF Frames
  <2>. HIDE DEF g, s
  <2>6. Len(g.stack) <= MaxStack
    BY <1>1, <2>1, <2>2, <2>5, CodeAssumption
  <2>7. Sound(g)
    BY <2>4, <2>5, <2>6 DEF Sound
  <2>8. g.gas <= f.gas
    BY <2>5, FrameFields
  <2>. QED BY <1>1, <2>3, <2>5, <2>7, <2>8, Zenon DEF Calm, Evolves
<1>2. CASE ~Running(f)
  <2>1. Push(f, v) = f
    BY <1>2 DEF Push
  <2>. QED BY <2>1, CalmReflexive, Zenon
<1>3. CASE Running(f) /\ Len(f.stack) >= MaxStack
  <2>1. Push(f, v) = Fail(f, "STACK_OVERFLOW")
    BY <1>3, Zenon DEF Push
  <2>. QED BY <2>1, FailCalm, Zenon DEF Statuses
<1>. QED BY <1>1, <1>2, <1>3, Zenon

(* Popping n operands that are there leaves a sound frame n shorter. *)
LEMMA DropCalm ==
  ASSUME NEW f, Sound(f), NEW n \in Nat, n <= Len(f.stack)
  PROVE  /\ Calm(f, Drop(f, n))
         /\ Running(f) => Len(Drop(f, n).stack) = Len(f.stack) - n
<1>1. CASE Running(f)
  <2>. DEFINE s == SubSeq(f.stack, n + 1, Len(f.stack))
              g == [f EXCEPT !.stack = SubSeq(@, n + 1, Len(@))]
  <2>1. f \in Frames /\ f.stack \in Seq(Nat) /\ Len(f.stack) \in Nat
    BY FrameFields DEF Sound
  <2>2. s \in Seq(Nat) /\ Len(s) = Len(f.stack) - n
    <3>1. n + 1 \in Nat \ {0} /\ Len(f.stack) <= Len(f.stack) /\ n + 1 <= Len(f.stack) + 1
      BY <2>1
    <3>2. s \in Seq(Nat) /\ Len(s) = Len(f.stack) - (n + 1) + 1
      BY <2>1, <3>1, SubSeqOfWords, Zenon
    <3>. QED BY <2>1, <3>2
  <2>3. Drop(f, n) = g
    BY <1>1 DEF Drop
  <2>4. g \in Frames
    BY <2>1, <2>2, Zenon DEF Frames
  <2>5. /\ g.gas = f.gas /\ g.stack = s /\ g.mem = f.mem /\ g.pc = f.pc
        /\ g.until = f.until /\ g.snap = f.snap /\ g.rev = f.rev /\ g.static = f.static
        /\ g.deep = f.deep /\ g.log = f.log /\ g.msz = f.msz /\ g.plan = f.plan
        /\ g.begin = f.begin
    BY <2>1 DEF Frames
  <2>. HIDE DEF g, s
  <2>6. Len(g.stack) <= MaxStack
    BY <2>1, <2>2, <2>5, CodeAssumption DEF Sound
  <2>7. Sound(g)
    BY <2>4, <2>5, <2>6 DEF Sound
  <2>8. g.gas <= f.gas
    BY <2>5, FrameFields
  <2>. QED BY <1>1, <2>2, <2>3, <2>5, <2>7, <2>8, Zenon DEF Calm, Evolves
<1>2. CASE ~Running(f)
  <2>1. Drop(f, n) = f
    BY <1>2 DEF Drop
  <2>. QED BY <1>2, <2>1, CalmReflexive, Zenon
<1>. QED BY <1>1, <1>2, Zenon

(* setReturnData changes the return data only. *)
LEMMA SetRetCalm ==
  ASSUME NEW f, Sound(f), NEW n \in Nat
  PROVE  Calm(f, SetRet(f, n))
<1>1. CASE Running(f)
  <2>. DEFINE g == [f EXCEPT !.ret = n]
  <2>1. f \in Frames
    BY DEF Sound
  <2>2. SetRet(f, n) = g
    BY <1>1 DEF SetRet
  <2>3. g \in Frames
    BY <2>1, Zenon DEF Frames
  <2>4. /\ g.gas = f.gas /\ g.stack = f.stack /\ g.mem = f.mem /\ g.pc = f.pc
        /\ g.until = f.until /\ g.snap = f.snap /\ g.rev = f.rev /\ g.static = f.static
        /\ g.deep = f.deep /\ g.log = f.log /\ g.msz = f.msz /\ g.plan = f.plan
        /\ g.begin = f.begin
    BY <2>1 DEF Frames
  <2>. HIDE DEF g
  <2>5. Sound(g)
    BY <2>3, <2>4 DEF Sound
  <2>6. g.gas <= f.gas
    BY <2>4, FrameFields
  <2>. QED BY <1>1, <2>2, <2>4, <2>5, <2>6, Zenon DEF Calm, Evolves
<1>2. CASE ~Running(f)
  <2>1. SetRet(f, n) = f
    BY <1>2 DEF SetRet
  <2>. QED BY <2>1, CalmReflexive, Zenon
<1>. QED BY <1>1, <1>2, Zenon

(* A write to the host outside a static frame is recorded and changes
   nothing else. *)
LEMMA HostWriteCalm ==
  ASSUME NEW f, Sound(f), NEW op \in Nat, Running(f) => ~f.static
  PROVE  Calm(f, HostWrite(f, op))
<1>1. CASE Running(f)
  <2>. DEFINE g == [f EXCEPT !.log = Append(@, op)]
              l == Append(f.log, op)
  <2>1. f \in Frames /\ f.log \in Seq(Nat)
    BY FrameFields DEF Sound
  <2>2. l \in Seq(Nat)
    BY <2>1, AppendProperties
  <2>3. HostWrite(f, op) = g
    BY <1>1 DEF HostWrite
  <2>4. g \in Frames
    BY <2>1, <2>2, Zenon DEF Frames
  <2>5. /\ g.gas = f.gas /\ g.stack = f.stack /\ g.mem = f.mem /\ g.pc = f.pc
        /\ g.until = f.until /\ g.snap = f.snap /\ g.rev = f.rev /\ g.static = f.static
        /\ g.deep = f.deep /\ g.msz = f.msz /\ g.plan = f.plan /\ g.begin = f.begin
    BY <2>1 DEF Frames
  <2>. HIDE DEF g
  <2>6. Sound(g)
    BY <2>4, <2>5 DEF Sound
  <2>7. g.gas <= f.gas
    BY <2>5, FrameFields
  <2>. QED BY <1>1, <2>3, <2>5, <2>6, <2>7, Zenon DEF Calm, Evolves
<1>2. CASE ~Running(f)
  <2>1. HostWrite(f, op) = f
    BY <1>2 DEF HostWrite
  <2>. QED BY <2>1, CalmReflexive, Zenon
<1>. QED BY <1>1, <1>2, Zenon

(* addGasRefund changes the refund counter only. *)
LEMMA RefundCalm ==
  ASSUME NEW f, Sound(f), NEW n \in Int
  PROVE  Calm(f, addGasRefund(f, n))
<1>1. CASE Running(f)
  <2>. DEFINE g == [f EXCEPT !.refund = @ + n]
  <2>1. f \in Frames /\ f.refund + n \in Int
    BY FrameFields DEF Sound
  <2>2. addGasRefund(f, n) = g
    BY <1>1 DEF addGasRefund
  <2>3. g \in Frames
    BY <2>1, Zenon DEF Frames
  <2>4. /\ g.gas = f.gas /\ g.stack = f.stack /\ g.mem = f.mem /\ g.pc = f.pc
        /\ g.until = f.until /\ g.snap = f.snap /\ g.rev = f.rev /\ g.static = f.static
        /\ g.deep = f.deep /\ g.log = f.log /\ g.msz = f.msz /\ g.plan = f.plan
        /\ g.begin = f.begin
    BY <2>1 DEF Frames
  <2>. HIDE DEF g
  <2>5. Sound(g)
    BY <2>3, <2>4 DEF Sound
  <2>6. g.gas <= f.gas
    BY <2>4, FrameFields
  <2>. QED BY <1>1, <2>2, <2>4, <2>5, <2>6, Zenon DEF Calm, Evolves
<1>2. CASE ~Running(f)
  <2>1. addGasRefund(f, n) = f
    BY <1>2 DEF addGasRefund
  <2>. QED BY <2>1, CalmReflexive, Zenon
<1>. QED BY <1>1, <1>2, Zenon

(* The static-mode test either passes, and the frame is not static, or
   ends the frame. *)
LEMMA RequireNotStaticCalm ==
  ASSUME NEW f, Sound(f)
  PROVE  /\ Calm(f, RequireNotStatic(f))
         /\ Running(RequireNotStatic(f)) => ~f.static /\ RequireNotStatic(f) = f
<1>1. CASE f.static
  <2>1. RequireNotStatic(f) = Fail(f, "STATIC_MODE_VIOLATION")
    BY <1>1 DEF RequireNotStatic
  <2>2. ~Running(Fail(f, "STATIC_MODE_VIOLATION"))
    BY DEF Fail, Running, Sound, Frames
  <2>. QED BY <2>1, <2>2, FailCalm, Zenon DEF Statuses
<1>2. CASE ~f.static
  <2>1. RequireNotStatic(f) = f
    BY <1>2 DEF RequireNotStatic
  <2>. QED BY <1>2, <2>1, CalmReflexive, Zenon
<1>. QED BY <1>1, <1>2, Zenon

(* Rounding up to words. *)
LEMMA NumWords ==
  ASSUME NEW n \in Nat
  PROVE  /\ numWords(n) \in Nat
         /\ 32 * numWords(n) \in Nat
         /\ (32 * numWords(n)) % 32 = 0
         /\ n <= 32 * numWords(n) /\ 32 * numWords(n) <= n + 31
BY DEF numWords

(* Memory gets dearer as it grows, so that a growth never pays the caller. *)
LEMMA MemoryGasGrows ==
  ASSUME NEW m \in Nat, NEW n \in Nat, m <= n
  PROVE  MemoryGas(m) \in Nat /\ MemoryGas(n) \in Nat /\ MemoryGas(m) <= MemoryGas(n)
<1>. DEFINE v == numWords(m)
            w == numWords(n)
<1>1. v \in Nat /\ w \in Nat /\ v <= w
  BY DEF numWords
<1>2. MemoryGas(m) = (v * v) \div 512 + 3 * v /\ MemoryGas(n) = (w * w) \div 512 + 3 * w
  BY DEF MemoryGas
<1>. HIDE DEF v, w
<1>3. v * v \in Nat /\ w * w \in Nat
  BY <1>1
<1>4. v * v <= w * w
  <2>1. PICK d \in Nat : w = v + d
    <3>1. w - v \in Nat /\ w = v + (w - v)
      BY <1>1
    <3>. QED BY <3>1
  <2>2. w * w = v * v + (2 * (v * d) + d * d)
    BY <1>1, <2>1
  <2>3. v * d \in Nat /\ d * d \in Nat
    BY <1>1
  <2>. QED BY <1>3, <2>2, <2>3
<1>. DEFINE x == v * v
            y == w * w
<1>. HIDE DEF x, y
<1>5. x \in Nat /\ y \in Nat /\ x <= y
  BY <1>3, <1>4 DEF x, y
<1>6. x \div 512 \in Nat /\ y \div 512 \in Nat /\ x \div 512 <= y \div 512
  BY <1>5
<1>7. MemoryGas(m) = x \div 512 + 3 * v /\ MemoryGas(n) = y \div 512 + 3 * w
  BY <1>2 DEF x, y
<1>. QED BY <1>1, <1>6, <1>7

(* A larger memory of whole words within the limit is a sound memory. *)
LEMMA SetMemEvolves ==
  ASSUME NEW f, Sound(f), Running(f), NEW end \in Nat, end % 32 = 0, end <= MaxMemory + 31
  PROVE  /\ Evolves(f, [f EXCEPT !.mem = end])
         /\ Evolves(f, [f EXCEPT !.mem = end, !.msz = end])
         /\ [f EXCEPT !.mem = end].begin = f.begin
         /\ [f EXCEPT !.mem = end, !.msz = end].begin = f.begin
         /\ [f EXCEPT !.mem = end, !.msz = end].mem = end
         /\ [f EXCEPT !.mem = end, !.msz = end].msz = end
<1>. DEFINE g == [f EXCEPT !.mem = end]
            h == [f EXCEPT !.mem = end, !.msz = end]
<1>1. f \in Frames
  BY DEF Sound
<1>2. g \in Frames /\ h \in Frames
  BY <1>1, Zenon DEF Frames
<1>3. /\ g.gas = f.gas /\ g.stack = f.stack /\ g.mem = end /\ g.pc = f.pc
      /\ g.until = f.until /\ g.snap = f.snap /\ g.rev = f.rev /\ g.static = f.static
      /\ g.deep = f.deep /\ g.log = f.log /\ g.begin = f.begin
  BY <1>1 DEF Frames
<1>4. /\ h.gas = f.gas /\ h.stack = f.stack /\ h.mem = end /\ h.pc = f.pc
      /\ h.until = f.until /\ h.snap = f.snap /\ h.rev = f.rev /\ h.static = f.static
      /\ h.deep = f.deep /\ h.log = f.log /\ h.begin = f.begin /\ h.msz = end
  BY <1>1 DEF Frames
<1>. HIDE DEF g, h
<1>5. f.gas <= f.gas
  BY FrameFields
<1>6. Sound(g) /\ Sound(h)
  BY <1>2, <1>3, <1>4 DEF Sound
<1>. QED BY <1>3, <1>4, <1>5, <1>6, Zenon DEF Evolves, g, h

(* checkMemoryExpandAndChargeGas keeps the memory in whole words and
   under its limit, and only takes gas. *)
LEMMA MemoryExpandEvolves ==
  ASSUME NEW f, Sound(f), NEW off \in Nat, NEW size \in Nat
  PROVE  Evolves(f, checkMemoryExpandAndChargeGas(f, off, size))
<1>. DEFINE end == 32 * numWords(off + size)
            cost == MemoryGas(end) - MemoryGas(f.mem)
            g == chargeGas(f, cost)
            r == checkMemoryExpandAndChargeGas(f, off, size)
<1>1. CASE ~Running(f) \/ size = 0
  <2>1. r = f
    BY <1>1 DEF checkMemoryExpandAndChargeGas
  <2>. QED BY <2>1, CalmReflexive DEF Calm
<1>2. CASE Running(f) /\ size # 0 /\ (size > U64Max \/ off > U64Max \/ off + size > MaxMemory)
  <2>1. r = Fail(f, "OUT_OF_GAS")
    BY <1>2 DEF checkMemoryExpandAndChargeGas
  <2>. QED BY <2>1, FailCalm, Zenon DEF Calm, Statuses
<1>3. CASE Running(f) /\ size # 0
             /\ ~(size > U64Max \/ off > U64Max \/ off + size > MaxMemory)
  <2>1. CASE end <= f.mem
    <3>1. r = f
      BY <1>3, <2>1 DEF checkMemoryExpandAndChargeGas
    <3>. QED BY <3>1, CalmReflexive DEF Calm
  <2>2. CASE ~(end <= f.mem)
    <3>1. off + size \in Nat /\ off + size <= MaxMemory
      BY <1>3, CodeAssumption
    <3>2. end \in Nat /\ end % 32 = 0 /\ end <= off + size + 31
      BY <3>1, NumWords
    <3>3. r = IF Running(g) THEN [g EXCEPT !.mem = end] ELSE g
      BY <1>3, <2>2 DEF checkMemoryExpandAndChargeGas
    <3>. HIDE DEF end
    <3>4. f.mem \in Nat /\ f.mem <= end
      <4>1. f.mem \in Nat
        BY FrameFields, Zenon
      <4>. QED BY <2>2, <3>2, <4>1
    <3>5. cost \in Nat
      BY <3>2, <3>4, MemoryGasGrows
    <3>6. Calm(f, g)
      <4>. HIDE DEF cost
      <4>. QED BY <3>5, ChargeCalm
    <3>7. end <= MaxMemory + 31
      BY <3>1, <3>2, CodeAssumption
    <3>. HIDE DEF g, r
    <3>8. Evolves(f, g) /\ Sound(g)
      BY <3>6 DEF Calm, Evolves
    <3>9. Running(g) => Evolves(g, [g EXCEPT !.mem = end])
      BY <3>2, <3>7, <3>8, SetMemEvolves, Zenon
    <3>10. CASE Running(g)
      <4>1. r = [g EXCEPT !.mem = end]
        BY <3>3, <3>10, Zenon
      <4>. QED BY <3>8, <3>9, <3>10, <4>1, EvolvesTransitive, Zenon DEF r
    <3>11. CASE ~Running(g)
      BY <3>3, <3>8, <3>11, Zenon DEF r
    <3>. QED BY <3>10, <3>11, Zenon
  <2>. QED BY <2>1, <2>2, Zenon
<1>. QED BY <1>1, <1>2, <1>3, Zenon

(* What a step of a handler leaves alone, for citing. *)
LEMMA EvolvesFacts ==
  ASSUME NEW f, NEW g, Evolves(f, g)
  PROVE  /\ Sound(g) /\ g.gas <= f.gas /\ (Running(g) => Running(f)) /\ g.pc = f.pc
         /\ g.until = f.until /\ g.snap = f.snap /\ g.rev = f.rev /\ g.static = f.static
         /\ g.deep = f.deep
BY DEF Evolves

(* What a calm step leaves alone, for citing. *)
LEMMA CalmFacts ==
  ASSUME NEW f, NEW g, Calm(f, g)
  PROVE  /\ Evolves(f, g) /\ Sound(g) /\ (Running(g) => Running(f)) /\ g.static = f.static
BY DEF Calm, Evolves

(* The host's answers that the handlers read as numbers and flags. *)
Answer(in) ==
  /\ in.left \in Nat /\ in.refund \in Int /\ in.size \in Nat /\ in.word \in Nat
  /\ in.cold \in BOOLEAN /\ in.poor \in BOOLEAN /\ in.missing \in BOOLEAN
  /\ in.ok \in BOOLEAN

(* uint256ToUint64 gives a natural number. *)
LEMMA U64Type == ASSUME NEW w \in Nat PROVE uint256ToUint64(w) \in Nat
BY CodeAssumption DEF uint256ToUint64

(* The significant bytes EXP charges for are counted by a natural number. *)
LEMMA ByteLengthType == ASSUME NEW w PROVE ByteLength(w) \in Nat
<1>. DEFINE Fits(n) == n = WordBytes \/ w < 256^n
            S == {n \in 0..WordBytes : Fits(n)}
            Ok(n) == Fits(n) /\ \A m \in 0..WordBytes : Fits(m) => n <= m
<1>1. WordBytes \in Nat
  BY CodeAssumption
<1>2. S \subseteq Nat /\ WordBytes \in S
  BY <1>1
<1>3. PICK n \in S : \A m \in S : n <= m
  <2>. HIDE DEF S
  <2>. QED BY <1>2, Least, Zenon
<1>4. n \in 0..WordBytes /\ Ok(n)
  BY <1>3, Zenon
<1>. HIDE DEF Ok
<1>5. (CHOOSE k \in 0..WordBytes : Ok(k)) \in 0..WordBytes
  BY <1>4, Zenon
<1>6. ByteLength(w) \in 0..WordBytes
  BY <1>5, Zenon DEF ByteLength, Ok
<1>. QED BY <1>1, <1>6

(* The surcharge of a cold account or slot is an ordinary charge. *)
LEMMA ChargeColdCalm ==
  ASSUME NEW f, Sound(f), NEW in, NEW cost \in Nat
  PROVE  Calm(f, ChargeCold(f, in, cost))
BY ChargeCalm, CalmReflexive, Zenon DEF ChargeCold

(* The arithmetic handlers compute words. *)
LEMMA ResultType ==
  ASSUME NEW op, NEW a \in Seq(Nat), NEW in, in.word \in Nat,
         op \in {ADD, SUB, LT} => Len(a) >= 2
  PROVE  ResultOf(op, a, in) \in Nat
<1>1. op \in {ADD, SUB, LT} => a[1] \in Nat /\ a[2] \in Nat
  <2>1. Len(a) \in Nat /\ (Len(a) >= 2 => 1 \in 1..Len(a) /\ 2 \in 1..Len(a))
    BY LenProperties
  <2>. QED BY <2>1, ElementOfSeq, Zenon
<1>2. op \in {ADD, SUB} => (a[1] + a[2]) % WordMod \in Nat /\ (a[1] - a[2]) % WordMod \in Nat
  BY <1>1, CodeAssumption
<1>. QED BY <1>2 DEF ResultOf

(* The environment opcodes push words. *)
LEMMA EnvValueType ==
  ASSUME NEW f, Sound(f), NEW op, NEW in, in.word \in Nat
  PROVE  EnvValue(f, op, in) \in Nat
BY FrameFields DEF EnvValue

(* Words put back on the stack, where there is room for them. *)
LEMMA PutBackCalm ==
  ASSUME NEW f, Sound(f), Running(f), NEW a \in Seq(Nat),
         Len(a) + Len(f.stack) <= MaxStack
  PROVE  Calm(f, [f EXCEPT !.stack = a \o @])
<1>. DEFINE g == [f EXCEPT !.stack = a \o @]
            s == a \o f.stack
<1>1. f \in Frames /\ f.stack \in Seq(Nat)
  BY FrameFields DEF Sound
<1>2. s \in Seq(Nat) /\ Len(s) = Len(a) + Len(f.stack)
  BY <1>1, ConcatProperties
<1>3. g \in Frames
  BY <1>1, <1>2, Zenon DEF Frames
<1>4. /\ g.gas = f.gas /\ g.stack = s /\ g.mem = f.mem /\ g.pc = f.pc
      /\ g.until = f.until /\ g.snap = f.snap /\ g.rev = f.rev /\ g.static = f.static
      /\ g.deep = f.deep /\ g.log = f.log /\ g.msz = f.msz /\ g.plan = f.plan
      /\ g.begin = f.begin
  BY <1>1 DEF Frames
<1>. HIDE DEF g, s
<1>5. Sound(g)
  BY <1>2, <1>3, <1>4 DEF Sound
<1>6. f.gas <= f.gas
  BY FrameFields
<1>. QED BY <1>4, <1>5, <1>6, Zenon DEF Calm, Evolves, g

(* SWAPn leaves as many words as it found. *)
LEMMA SwapCalm ==
  ASSUME NEW f, Sound(f), Running(f), NEW a \in Seq(Nat), NEW n \in 1..Len(a),
         Len(a) + Len(f.stack) <= MaxStack
  PROVE  Calm(f, SwapWords(f, a, n))
<1>. DEFINE b == [a EXCEPT ![1] = a[n]]
            c == [b EXCEPT ![n] = a[1]]
<1>1. 1 \in 1..Len(a)
  BY LenProperties
<1>2. a[n] \in Nat /\ a[1] \in Nat
  BY <1>1, ElementOfSeq, Zenon
<1>3. b \in Seq(Nat) /\ Len(b) = Len(a)
  BY <1>1, <1>2, ExceptSeq
<1>. HIDE DEF b
<1>4. c \in Seq(Nat) /\ Len(c) = Len(a)
  BY <1>2, <1>3, ExceptSeq
<1>5. SwapWords(f, a, n) = [f EXCEPT !.stack = c \o @]
  BY DEF SwapWords, b
<1>. HIDE DEF c
<1>6. Len(c) + Len(f.stack) <= MaxStack
  BY <1>4
<1>. QED BY <1>4, <1>5, <1>6, PutBackCalm, Zenon

(* The table of storage costs gives a cost and a refund of either sign. *)
LEMMA SStoreCostType ==
  ASSUME NEW rev \in Nat, NEW status
  PROVE  SStoreCost(rev, status)[1] \in Nat /\ SStoreCost(rev, status)[2] \in Int
BY DEF SStoreCost, BERLIN, LONDON

(* What a nested call used of the gas it was given is charged to the
   caller. *)
LEMMA ChargeUsedCalm ==
  ASSUME NEW f, Sound(f), NEW given \in Nat, NEW in, in.left \in Nat
  PROVE  Calm(f, ChargeUsed(f, given, in))
<1>. DEFINE left == (given * in.left) \div 2
            cost == IF given > left THEN given - left ELSE 0
<1>1. given * in.left \in Nat
  OBVIOUS
<1>2. left \in Nat
  BY <1>1
<1>3. ChargeUsed(f, given, in) = chargeGas(f, cost)
  BY DEF ChargeUsed
<1>. HIDE DEF left
<1>4. cost \in Nat
  BY <1>2
<1>. QED BY <1>3, <1>4, ChargeCalm, Zenon

(* The gas a nested call may be given is a natural number. *)
LEMMA AllButOne64thType ==
  ASSUME NEW gas \in Nat PROVE AllButOne64th(gas) \in Nat
BY DEF AllButOne64th

(* Resolving a delegated code address only charges. *)
LEMMA DelegatedCalm ==
  ASSUME NEW f, Sound(f), NEW in
  PROVE  Calm(f, resolveDelegatedCallCodeAddress(f, in))
<1>1. (IF in.delegate = "cold" THEN COLD_ACCOUNT_ACCESS_COST ELSE WARM_STORAGE_READ_COST) \in Nat
  BY DEF COLD_ACCOUNT_ACCESS_COST, WARM_STORAGE_READ_COST
<1>. QED BY <1>1, ChargeCalm, CalmReflexive, Zenon DEF resolveDelegatedCallCodeAddress

(* A call that transfers value is charged at least the stipend its callee
   is given for free. *)
LEMMA ValueCostType ==
  ASSUME NEW op, NEW value \in Nat, NEW in
  PROVE  /\ ValueCost(op, value, in) \in Nat
         /\ value # 0 => ValueCost(op, value, in) >= CALL_GAS_STIPEND
BY DEF ValueCost, CALL_VALUE_COST, ACCOUNT_CREATION_COST, CALL_GAS_STIPEND

(* A stipend paid for before. *)
LEMMA StipendEvolves ==
  ASSUME NEW f, NEW v, Sound(f), Evolves(f, v), Running(v), NEW n \in Nat, v.gas + n <= f.gas
  PROVE  Evolves(f, [v EXCEPT !.gas = @ + n])
<1>. DEFINE g == [v EXCEPT !.gas = @ + n]
<1>1. Sound(v)
  BY EvolvesFacts
<1>2. v \in Frames /\ v.gas + n \in Nat
  BY <1>1, FrameFields DEF Sound
<1>3. g \in Frames
  BY <1>2, Zenon DEF Frames
<1>4. /\ g.gas = v.gas + n /\ g.stack = v.stack /\ g.mem = v.mem /\ g.pc = v.pc
      /\ g.until = v.until /\ g.snap = v.snap /\ g.rev = v.rev /\ g.static = v.static
      /\ g.deep = v.deep /\ g.log = v.log
  BY <1>2 DEF Frames
<1>. HIDE DEF g
<1>5. Sound(g)
  BY <1>1, <1>3, <1>4 DEF Sound
<1>6. Running(f) /\ g.gas <= f.gas
  BY <1>4, EvolvesFacts
<1>. QED BY <1>4, <1>5, <1>6, Zenon DEF Evolves, g

(* The operands of the call opcodes are words. *)
LEMMA RangesType ==
  ASSUME NEW op \in CallOps, NEW a \in Seq(Nat), Len(a) = Required(op)
  PROVE  /\ a[1] \in Nat /\ CallValueOf(op, a) \in Nat
         /\ \A i \in 1..4 : RangesOf(op, a)[i] \in Nat
<1>1. CASE op \in {CALL, CALLCODE}
  <2>1. Len(a) = 7
    BY <1>1 DEF Required, CALL, CALLCODE, UnaryOps, LoadOps, ISZERO, CLZ, BALANCE,
       CALLDATALOAD, EXTCODESIZE, EXTCODEHASH, BLOCKHASH, BLOBHASH, MLOAD, SLOAD, TLOAD, POP,
       JUMP, SELFDESTRUCT, BinaryOps, ADD, EXP, KECCAK256, MSTORE, MSTORE8, SSTORE, TSTORE,
       JUMPI, RETURN, REVERT, TernaryOps, CopyOps, CALLDATACOPY, CODECOPY, RETURNDATACOPY,
       MCOPY, CREATE, EXTCODECOPY, CREATE2, DupOps, DUP1, DUP16, SwapOps, SWAP1, SWAP16,
       LogOps, LOG0, LOG4, DELEGATECALL, STATICCALL
  <2>2. /\ 1 \in 1..Len(a) /\ 3 \in 1..Len(a) /\ 4 \in Nat \ {0} /\ 7 \in Nat
        /\ 7 <= Len(a) /\ 4 <= 7 + 1
    BY <2>1
  <2>3. a[1] \in Nat /\ a[3] \in Nat
    BY <2>2, ElementOfSeq, Zenon
  <2>4. SubSeq(a, 4, 7) \in Seq(Nat) /\ Len(SubSeq(a, 4, 7)) = 7 - 4 + 1
    BY <2>2, SubSeqOfWords, Zenon
  <2>5. \A i \in 1..4 : i \in 1..Len(SubSeq(a, 4, 7))
    BY <2>4
  <2>6. \A i \in 1..4 : SubSeq(a, 4, 7)[i] \in Nat
    BY <2>4, <2>5, ElementOfSeq, Zenon
  <2>. QED BY <1>1, <2>3, <2>6, Zenon DEF CallValueOf, RangesOf
<1>2. CASE op \notin {CALL, CALLCODE}
  <2>1. op \in {DELEGATECALL, STATICCALL}
    BY <1>2 DEF CallOps
  <2>2. Len(a) = 6
    BY <2>1 DEF Required, CALL, CALLCODE, UnaryOps, LoadOps, ISZERO, CLZ, BALANCE,
       CALLDATALOAD, EXTCODESIZE, EXTCODEHASH, BLOCKHASH, BLOBHASH, MLOAD, SLOAD, TLOAD, POP,
       JUMP, SELFDESTRUCT, BinaryOps, ADD, EXP, KECCAK256, MSTORE, MSTORE8, SSTORE, TSTORE,
       JUMPI, RETURN, REVERT, TernaryOps, CopyOps, CALLDATACOPY, CODECOPY, RETURNDATACOPY,
       MCOPY, CREATE, EXTCODECOPY, CREATE2, DupOps, DUP1, DUP16, SwapOps, SWAP1, SWAP16,
       LogOps, LOG0, LOG4, DELEGATECALL, STATICCALL
  <2>3. /\ 1 \in 1..Len(a) /\ 3 \in Nat \ {0} /\ 6 \in Nat /\ 6 <= Len(a) /\ 3 <= 6 + 1
        /\ 0 \in Nat
    BY <2>2
  <2>4. a[1] \in Nat
    BY <2>3, ElementOfSeq, Zenon
  <2>5. SubSeq(a, 3, 6) \in Seq(Nat) /\ Len(SubSeq(a, 3, 6)) = 6 - 3 + 1
    BY <2>3, SubSeqOfWords, Zenon
  <2>6. \A i \in 1..4 : i \in 1..Len(SubSeq(a, 3, 6))
    BY <2>5
  <2>7. \A i \in 1..4 : SubSeq(a, 3, 6)[i] \in Nat
    BY <2>5, <2>6, ElementOfSeq, Zenon
  <2>. QED BY <1>2, <2>3, <2>4, <2>7, Zenon DEF CallValueOf, RangesOf
<1>. QED BY <1>1, <1>2, Zenon

(* The end of a frame: a status, an output and the refund. *)
LEMMA EndEvolves ==
  ASSUME NEW f, Sound(f), Running(f), NEW status \in Statuses, NEW n \in Nat, NEW r \in Int
  PROVE  /\ Calm(f, [f EXCEPT !.st = status, !.ret = n])
         /\ Calm(f, [f EXCEPT !.st = status, !.ret = n, !.refund = r])
<1>. DEFINE g == [f EXCEPT !.st = status, !.ret = n]
            h == [f EXCEPT !.st = status, !.ret = n, !.refund = r]
<1>1. f \in Frames
  BY DEF Sound
<1>2. g \in Frames /\ h \in Frames
  BY <1>1, Zenon DEF Frames
<1>3. /\ g.gas = f.gas /\ g.stack = f.stack /\ g.mem = f.mem /\ g.pc = f.pc
      /\ g.until = f.until /\ g.snap = f.snap /\ g.rev = f.rev /\ g.static = f.static
      /\ g.deep = f.deep /\ g.log = f.log /\ g.msz = f.msz /\ g.plan = f.plan
      /\ g.begin = f.begin
  BY <1>1 DEF Frames
<1>4. /\ h.gas = f.gas /\ h.stack = f.stack /\ h.mem = f.mem /\ h.pc = f.pc
      /\ h.until = f.until /\ h.snap = f.snap /\ h.rev = f.rev /\ h.static = f.static
      /\ h.deep = f.deep /\ h.log = f.log /\ h.msz = f.msz /\ h.plan = f.plan
      /\ h.begin = f.begin
  BY <1>1 DEF Frames
<1>. HIDE DEF g, h
<1>5. f.gas <= f.gas
  BY FrameFields
<1>6. Sound(g) /\ Sound(h)
  BY <1>2, <1>3, <1>4 DEF Sound
<1>. QED BY <1>3, <1>4, <1>5, <1>6, Zenon DEF Calm, Evolves, g, h

(* STOP ends the frame and changes nothing else. *)
LEMMA StopCalm ==
  ASSUME NEW f, Sound(f)
  PROVE  Calm(f, Stop(f))
<1>1. "SUCCESS" \in Statuses /\ 0 \in Nat /\ 0 \in Int
  BY DEF Statuses
<1>. QED BY <1>1, EndEvolves, CalmReflexive, Zenon DEF Stop

(* SELFDESTRUCT outside a static frame charges, writes and always ends
   the frame. *)
LEMMA SelfDestructCalm ==
  ASSUME NEW f, Sound(f), Running(f) => ~f.static, NEW in
  PROVE  Calm(f, SelfDestruct(f, in)) /\ ~Running(SelfDestruct(f, in))
<1>. DEFINE g == ChargeCold(f, in, COLD_ACCOUNT_ACCESS_COST)
            h == IF ~in.poor /\ in.missing THEN chargeGas(g, ACCOUNT_CREATION_COST) ELSE g
            n == IF f.rev < LONDON /\ in.ok THEN EXTRA_REFUND_BEFORE_LONDON ELSE 0
            k == HostWrite(h, SELFDESTRUCT)
            w == addGasRefund(k, n)
<1>1. /\ COLD_ACCOUNT_ACCESS_COST \in Nat /\ ACCOUNT_CREATION_COST \in Nat
      /\ SELFDESTRUCT \in Nat /\ n \in Int /\ 0 \in Nat
  BY DEF COLD_ACCOUNT_ACCESS_COST, ACCOUNT_CREATION_COST, SELFDESTRUCT,
         EXTRA_REFUND_BEFORE_LONDON
<1>2. SelfDestruct(f, in) = IF Running(w) THEN [w EXCEPT !.st = "SUCCESS", !.ret = 0] ELSE w
  BY DEF SelfDestruct
<1>. HIDE DEF n
<1>3. Calm(f, g) /\ Sound(g)
  BY <1>1, ChargeColdCalm, CalmFacts, Zenon
<1>. HIDE DEF g
<1>4. Calm(g, h)
  BY <1>1, <1>3, ChargeCalm, CalmReflexive, CalmFacts, Zenon
<1>. HIDE DEF h
<1>5. Calm(f, h) /\ Sound(h)
  BY <1>3, <1>4, CalmTransitive, CalmFacts, Zenon
<1>6. Running(h) => ~h.static
  BY <1>5, CalmFacts, Zenon
<1>7. Calm(h, k) /\ Sound(k)
  BY <1>1, <1>5, <1>6, HostWriteCalm, CalmFacts, Zenon
<1>. HIDE DEF k
<1>8. Calm(k, w) /\ Sound(w)
  BY <1>1, <1>7, RefundCalm, CalmFacts, Zenon
<1>. HIDE DEF w
<1>9. Calm(f, w)
  BY <1>5, <1>7, <1>8, CalmTransitive, Zenon
<1>10. Running(w) => Calm(w, [w EXCEPT !.st = "SUCCESS", !.ret = 0])
  BY <1>1, <1>8, EndEvolves, CalmFacts, Zenon DEF Statuses
<1>11. ~Running([w EXCEPT !.st = "SUCCESS", !.ret = 0])
  BY <1>8 DEF Running, Sound, Frames
<1>. QED BY <1>2, <1>9, <1>10, <1>11, CalmTransitive, Zenon

(* The operands that the handlers below read. *)
LEMMA RequiredTable ==
  ASSUME NEW op \in Bytes
  PROVE  /\ op \in LoadOps => Required(op) >= 1
         /\ op \in {ADD, SUB, LT, RETURN, REVERT, KECCAK256, MSTORE, MSTORE8, JUMPI} \cup LogOps
              => Required(op) >= 2
         /\ op = JUMP => Required(op) >= 1
         /\ op \in CopyOps \cup CreateOps => Required(op) >= 3
         /\ op = EXTCODECOPY => Required(op) = 4
         /\ op \in DupOps => op - DUP1 + 1 \in 1..Required(op)
         /\ op \in SwapOps => op - SWAP1 + 2 \in 1..Required(op)
<1>. USE DEF Bytes, Required, CALL, CALLCODE, UnaryOps, LoadOps, ISZERO, CLZ, BALANCE,
       CALLDATALOAD, EXTCODESIZE, EXTCODEHASH, BLOCKHASH, BLOBHASH, MLOAD, SLOAD, TLOAD, POP,
       JUMP, SELFDESTRUCT, BinaryOps, ADD, EXP, KECCAK256, MSTORE, MSTORE8, SSTORE, TSTORE,
       JUMPI, RETURN, REVERT, TernaryOps, CopyOps, CALLDATACOPY, CODECOPY, RETURNDATACOPY,
       MCOPY, CREATE, EXTCODECOPY, CREATE2, DupOps, DUP1, DUP16, SwapOps, SWAP1, SWAP16,
       LogOps, LOG0, LOG4, DELEGATECALL, STATICCALL, CreateOps, SUB, LT
<1>1. op \in LoadOps => Required(op) >= 1
  OBVIOUS
<1>2. op \in {ADD, SUB, LT, RETURN, REVERT, KECCAK256, MSTORE, MSTORE8, JUMPI} => Required(op) >= 2
  OBVIOUS
<1>3. op \in LogOps => Required(op) >= 2
  OBVIOUS
<1>4. op \in CopyOps \cup CreateOps => Required(op) >= 3
  OBVIOUS
<1>5. op = EXTCODECOPY => Required(op) = 4
  OBVIOUS
<1>6. op \in DupOps => op - DUP1 + 1 \in 1..Required(op)
  OBVIOUS
<1>7. op \in SwapOps => op - SWAP1 + 2 \in 1..Required(op)
  OBVIOUS
<1>8. op = JUMP => Required(op) >= 1
  OBVIOUS
<1>. QED BY <1>1, <1>2, <1>3, <1>4, <1>5, <1>6, <1>7, <1>8, Zenon

(* Opcodes that change the host's state from the frame itself. *)
WriteOps == {SSTORE, TSTORE, SELFDESTRUCT} \cup LogOps

(* The operands each handler reads are there and are words once the stack
   test has passed. *)
LEMMA OperandTypes ==
  ASSUME NEW op \in Bytes, NEW a \in Seq(Nat), Len(a) = Required(op)
  PROVE  /\ op \in LoadOps \cup {MSTORE, MSTORE8, JUMP} => a[1] \in Nat
         /\ op \in {RETURN, REVERT, KECCAK256, JUMPI} \cup LogOps => a[1] \in Nat /\ a[2] \in Nat
         /\ op \in CopyOps \cup CreateOps => a[1] \in Nat /\ a[2] \in Nat /\ a[3] \in Nat
         /\ op \in {ADD, SUB, LT} => Len(a) >= 2
         /\ op = EXTCODECOPY => Len(a) = 4
         /\ op \in DupOps => op - DUP1 + 1 \in 1..Len(a)
         /\ op \in SwapOps => op - SWAP1 + 2 \in 1..Len(a)
<1>1. Len(a) \in Nat
  BY LenProperties
<1>2. /\ Len(a) >= 1 => 1 \in 1..Len(a)
      /\ Len(a) >= 2 => 1 \in 1..Len(a) /\ 2 \in 1..Len(a)
      /\ Len(a) >= 3 => 1 \in 1..Len(a) /\ 2 \in 1..Len(a) /\ 3 \in 1..Len(a)
  BY <1>1
<1>3. \A i \in 1..Len(a) : a[i] \in Nat
  BY ElementOfSeq, Zenon
<1>4. /\ op \in LoadOps \cup {JUMP} => Len(a) >= 1
      /\ op \in {ADD, SUB, LT, RETURN, REVERT, KECCAK256, MSTORE, MSTORE8, JUMPI} \cup LogOps
           => Len(a) >= 2
      /\ op \in CopyOps \cup CreateOps => Len(a) >= 3
      /\ op = EXTCODECOPY => Len(a) = 4
      /\ op \in DupOps => op - DUP1 + 1 \in 1..Len(a)
      /\ op \in SwapOps => op - SWAP1 + 2 \in 1..Len(a)
  BY RequiredTable, Zenon
<1>. QED BY <1>2, <1>3, <1>4, Zenon

(* One handler keeps the frame sound, gives no gas back and, in a static
   frame, mutates nothing. *)
LEMMA HandlerEvolves ==
  \A f, op, a, value, in :
    /\ Sound(f) /\ Running(f) /\ op \in Bytes /\ a \in Seq(Nat)
    /\ Len(a) = Required(op) /\ Len(a) + Len(f.stack) <= MaxStack /\ value \in Nat
    /\ Answer(in) /\ (op \in WriteOps => ~f.static)
    => Evolves(f, Handler(f, op, a, value, in))
(* copyCodeAndChargeGas only charges for the words copied. *)
<1>CopyChargeCalm.
      ASSUME NEW f, Sound(f), NEW size \in Nat
      PROVE  Calm(f, copyCodeAndChargeGas(f, size))
  <2>. USE <1>CopyChargeCalm
  <2>1. 3 * numWords(uint256ToUint64(size)) \in Nat
    BY U64Type, NumWords
  <2>. QED BY <2>1, ChargeCalm, Zenon DEF copyCodeAndChargeGas
(* The arithmetic handlers, EXP with its own charge included, are calm. *)
<1>ArithmeticCalm.
      ASSUME NEW f, Sound(f), NEW op, NEW a \in Seq(Nat), NEW in, in.word \in Nat,
             op \in {ADD, SUB, LT} => Len(a) >= 2
      PROVE  Calm(f, Arithmetic(f, op, a, in))
  <2>. USE <1>ArithmeticCalm
  <2>. DEFINE g == IF op = EXP THEN chargeGas(f, 50 * ByteLength(a[2])) ELSE f
  <2>1. 50 * ByteLength(a[2]) \in Nat
    BY ByteLengthType
  <2>2. Calm(f, g)
    BY <2>1, ChargeCalm, CalmReflexive, Zenon
  <2>. HIDE DEF g
  <2>3. Calm(g, Push(g, ResultOf(op, a, in)))
    BY <2>2, ResultType, CalmFacts, PushCalm, Zenon
  <2>4. Arithmetic(f, op, a, in) = Push(g, ResultOf(op, a, in))
    BY DEF Arithmetic, g
  <2>. QED BY <2>2, <2>3, <2>4, CalmTransitive, Zenon
(* MLOAD, SLOAD and the other loads only expand the memory, charge and
   push. *)
<1>LoadEvolves.
      ASSUME NEW f, Sound(f), NEW op, NEW a, a[1] \in Nat, NEW in, in.word \in Nat
      PROVE  Evolves(f, Load(f, op, a, in))
  <2>. USE <1>LoadEvolves
  <2>. DEFINE g == CASE op \in {BALANCE, EXTCODESIZE, EXTCODEHASH} ->
                          ChargeCold(f, in, ADDITIONAL_COLD_ACCOUNT_ACCESS_COST)
                     [] op = SLOAD -> ChargeCold(f, in, ADDITIONAL_COLD_SLOAD_COST)
                     [] op = MLOAD -> checkMemoryExpandAndChargeGas(f, a[1], 32)
                     [] OTHER -> f
  <2>1. /\ ADDITIONAL_COLD_ACCOUNT_ACCESS_COST \in Nat /\ ADDITIONAL_COLD_SLOAD_COST \in Nat
        /\ 32 \in Nat
    BY DEF ADDITIONAL_COLD_ACCOUNT_ACCESS_COST, ADDITIONAL_COLD_SLOAD_COST,
           COLD_ACCOUNT_ACCESS_COST, COLD_SLOAD_COST, WARM_STORAGE_READ_COST
  <2>2. /\ Evolves(f, ChargeCold(f, in, ADDITIONAL_COLD_ACCOUNT_ACCESS_COST))
        /\ Evolves(f, ChargeCold(f, in, ADDITIONAL_COLD_SLOAD_COST))
        /\ Evolves(f, checkMemoryExpandAndChargeGas(f, a[1], 32))
        /\ Evolves(f, f)
    BY <2>1, ChargeColdCalm, MemoryExpandEvolves, CalmReflexive, CalmFacts, Zenon
  <2>3. Evolves(f, g)
    BY <2>2
  <2>4. Load(f, op, a, in) = Push(g, in.word)
    BY DEF Load
  <2>. HIDE DEF g
  <2>5. Evolves(g, Push(g, in.word))
    BY <2>3, EvolvesFacts, PushCalm, CalmFacts, Zenon
  <2>. QED BY <2>3, <2>4, <2>5, EvolvesTransitive, Zenon
(* DUPn puts the operands and a copy on the stack, or overflows. *)
<1>DupCalm.
      ASSUME NEW f, Sound(f), Running(f), NEW a \in Seq(Nat), NEW n \in 1..Len(a),
             Len(a) + Len(f.stack) <= MaxStack
      PROVE  Calm(f, DupWord(f, a, n))
  <2>. USE <1>DupCalm
  <2>. DEFINE g == [f EXCEPT !.stack = a \o @]
  <2>1. Calm(f, g)
    BY PutBackCalm
  <2>2. a[n] \in Nat
    BY ElementOfSeq, Zenon
  <2>3. DupWord(f, a, n) = Push(g, a[n])
    BY DEF DupWord
  <2>. HIDE DEF g
  <2>. QED BY <2>1, <2>2, <2>3, CalmFacts, PushCalm, CalmTransitive, Zenon
(* CALLDATACOPY and CODECOPY expand the memory and charge. *)
<1>CopyEvolves.
      ASSUME NEW f, Sound(f), NEW a, a[1] \in Nat, a[3] \in Nat
      PROVE  Evolves(f, Copy(f, a))
  <2>. USE <1>CopyEvolves
  <2>. DEFINE g == checkMemoryExpandAndChargeGas(f, a[1], a[3])
  <2>1. Evolves(f, g)
    BY MemoryExpandEvolves
  <2>2. Copy(f, a) = copyCodeAndChargeGas(g, a[3])
    BY DEF Copy
  <2>. HIDE DEF g
  <2>3. Evolves(g, copyCodeAndChargeGas(g, a[3]))
    BY <2>1, EvolvesFacts, <1>CopyChargeCalm, CalmFacts, Zenon
  <2>. QED BY <2>1, <2>2, <2>3, EvolvesTransitive, Zenon
(* EXTCODECOPY expands the memory and charges for the words and the cold
   account. *)
<1>ExtCodeCopyEvolves.
      ASSUME NEW f, Sound(f), NEW a \in Seq(Nat), Len(a) = 4, NEW in
      PROVE  Evolves(f, ExtCodeCopy(f, a, in))
  <2>. USE <1>ExtCodeCopyEvolves
  <2>. DEFINE b == Tail(a)
              g == Copy(f, b)
  <2>1. b \in Seq(Nat) /\ Len(b) = 3
    <3>1. a # <<>>
      <4>1. Len(<<>>) = 0
        BY EmptySeq
      <4>2. Len(a) # Len(<<>>)
        BY <4>1
      <4>. QED BY <4>2, Zenon
    <3>2. Tail(a) \in Seq(Nat) /\ Len(Tail(a)) = Len(a) - 1
      BY <3>1, HeadTailProperties, Zenon
    <3>. QED BY <3>2
  <2>. HIDE DEF b
  <2>2. 1 \in 1..Len(b) /\ 3 \in 1..Len(b)
    BY <2>1
  <2>3. b[1] \in Nat /\ b[3] \in Nat
    BY <2>1, <2>2, ElementOfSeq, Zenon
  <2>4. Evolves(f, g)
    BY <2>3, <1>CopyEvolves, Zenon
  <2>5. ADDITIONAL_COLD_ACCOUNT_ACCESS_COST \in Nat
    BY DEF ADDITIONAL_COLD_ACCOUNT_ACCESS_COST, COLD_ACCOUNT_ACCESS_COST, WARM_STORAGE_READ_COST
  <2>6. ExtCodeCopy(f, a, in) = ChargeCold(g, in, ADDITIONAL_COLD_ACCOUNT_ACCESS_COST)
    BY DEF ExtCodeCopy, b
  <2>. HIDE DEF g
  <2>. QED BY <2>4, <2>5, <2>6, EvolvesFacts, ChargeColdCalm, CalmFacts, EvolvesTransitive, Zenon
(* RETURNDATACOPY fails beyond the return data, and else copies. *)
<1>ReturnDataCopyEvolves.
      ASSUME NEW f, Sound(f), NEW a, a[1] \in Nat, a[3] \in Nat
      PROVE  Evolves(f, ReturnDataCopy(f, a))
  <2>. USE <1>ReturnDataCopyEvolves
  <2>1. Evolves(f, Copy(f, a))
    BY <1>CopyEvolves
  <2>2. Evolves(f, Fail(f, "INVALID_MEMORY_ACCESS"))
    BY FailCalm, CalmFacts, Zenon DEF Statuses
  <2>. QED BY <2>1, <2>2, Zenon DEF ReturnDataCopy
(* MCOPY expands the memory for both of its ranges and charges. *)
<1>MCopyEvolves.
      ASSUME NEW f, Sound(f), NEW a, a[1] \in Nat, a[2] \in Nat, a[3] \in Nat
      PROVE  Evolves(f, MCopy(f, a))
  <2>. USE <1>MCopyEvolves
  <2>. DEFINE top == IF a[1] > a[2] THEN a[1] ELSE a[2]
              g == checkMemoryExpandAndChargeGas(f, top, a[3])
  <2>1. top \in Nat
    OBVIOUS
  <2>2. MCopy(f, a) = IF a[3] = 0 THEN f ELSE copyCodeAndChargeGas(g, a[3])
    BY DEF MCopy
  <2>. HIDE DEF top
  <2>3. Evolves(f, g)
    BY <2>1, MemoryExpandEvolves
  <2>. HIDE DEF g
  <2>4. Evolves(f, copyCodeAndChargeGas(g, a[3]))
    <3>1. Evolves(g, copyCodeAndChargeGas(g, a[3]))
      BY <2>3, EvolvesFacts, <1>CopyChargeCalm, CalmFacts, Zenon
    <3>. QED BY <2>3, <3>1, EvolvesTransitive, Zenon
  <2>. QED BY <2>2, <2>4, CalmReflexive, CalmFacts, Zenon
(* KECCAK256 expands the memory, charges by words and pushes a word. *)
<1>Keccak256Evolves.
      ASSUME NEW f, Sound(f), NEW a, a[1] \in Nat, a[2] \in Nat, NEW in, in.word \in Nat
      PROVE  Evolves(f, Keccak256(f, a, in))
  <2>. USE <1>Keccak256Evolves
  <2>. DEFINE g == checkMemoryExpandAndChargeGas(f, a[1], a[2])
              h == chargeGas(g, 6 * numWords(a[2]))
  <2>1. 6 * numWords(a[2]) \in Nat
    <3>1. numWords(a[2]) \in Nat
      BY NumWords, Zenon
    <3>. QED BY <3>1
  <2>2. Evolves(f, g)
    BY MemoryExpandEvolves
  <2>3. Keccak256(f, a, in) = Push(h, in.word)
    BY DEF Keccak256
  <2>4. Evolves(g, h)
    <3>. HIDE DEF g
    <3>. QED BY <2>1, <2>2, EvolvesFacts, ChargeCalm, CalmFacts, Zenon
  <2>. HIDE DEF g, h
  <2>5. Evolves(h, Push(h, in.word))
    BY <2>4, EvolvesFacts, PushCalm, CalmFacts, Zenon
  <2>. QED BY <2>2, <2>3, <2>4, <2>5, EvolvesFacts, EvolvesTransitive, Zenon
(* MSTORE and MSTORE8 expand the memory and charge. *)
<1>MStoreEvolves.
      ASSUME NEW f, Sound(f), NEW op, NEW a, a[1] \in Nat
      PROVE  Evolves(f, MStore(f, op, a))
  <2>. USE <1>MStoreEvolves
  <2>1. (IF op = MSTORE8 THEN 1 ELSE 32) \in Nat
    OBVIOUS
  <2>. QED BY <2>1, MemoryExpandEvolves, Zenon DEF MStore
(* SSTORE outside a static frame charges, refunds and writes. *)
<1>SStoreEvolves.
      ASSUME NEW f, Sound(f), Running(f) => ~f.static, NEW in
      PROVE  Evolves(f, SStore(f, in))
  <2>. USE <1>SStoreEvolves
  <2>. DEFINE cost == SStoreCost(f.rev, in.status)
              cold == IF f.rev >= BERLIN /\ in.cold THEN COLD_SLOAD_COST ELSE 0
              g == HostWrite(f, SSTORE)
              h == chargeGas(g, cold + cost[1])
  <2>1. f.rev \in Nat
    BY FrameFields
  <2>2. cost[1] \in Nat /\ cost[2] \in Int
    BY <2>1, SStoreCostType
  <2>3. cold \in Nat
    BY DEF COLD_SLOAD_COST
  <2>4. cold + cost[1] \in Nat
    <3>. HIDE DEF cold, cost
    <3>. QED BY <2>2, <2>3
  <2>5. SSTORE \in Nat
    BY DEF SSTORE
  <2>6. Evolves(f, g)
    BY <2>5, HostWriteCalm, CalmFacts, Zenon
  <2>7. SStore(f, in) = addGasRefund(h, cost[2])
    BY DEF SStore
  <2>. HIDE DEF cost, cold, g
  <2>8. Evolves(g, h)
    BY <2>4, <2>6, EvolvesFacts, ChargeCalm, CalmFacts, Zenon
  <2>. HIDE DEF h
  <2>9. Evolves(h, addGasRefund(h, cost[2]))
    BY <2>2, <2>8, EvolvesFacts, RefundCalm, CalmFacts, Zenon
  <2>. QED BY <2>6, <2>7, <2>8, <2>9, EvolvesFacts, EvolvesTransitive, Zenon
(* LOGn outside a static frame expands the memory, charges and writes. *)
<1>LogEvolves.
      ASSUME NEW f, Sound(f), Running(f) => ~f.static, NEW op \in Nat, NEW a,
             a[1] \in Nat, a[2] \in Nat
      PROVE  Evolves(f, Log(f, op, a))
  <2>. USE <1>LogEvolves
  <2>. DEFINE g == checkMemoryExpandAndChargeGas(f, a[1], a[2])
              h == chargeGas(g, 8 * a[2])
  <2>1. 8 * a[2] \in Nat
    OBVIOUS
  <2>2. Evolves(f, g)
    BY MemoryExpandEvolves
  <2>3. Log(f, op, a) = HostWrite(h, op)
    BY DEF Log
  <2>. HIDE DEF g
  <2>4. Evolves(g, h)
    BY <2>1, <2>2, EvolvesFacts, ChargeCalm, CalmFacts, Zenon
  <2>. HIDE DEF h
  <2>5. Evolves(f, h)
    BY <2>2, <2>4, EvolvesTransitive, Zenon
  <2>6. Sound(h) /\ (Running(h) => ~h.static)
    BY <2>5, EvolvesFacts, Zenon
  <2>7. Evolves(h, HostWrite(h, op))
    BY <2>6, HostWriteCalm, CalmFacts, Zenon
  <2>. QED BY <2>3, <2>5, <2>7, EvolvesTransitive, Zenon
(* CREATE and CREATE2 never leave the caller with more gas, whatever the
   nested frame answers. *)
<1>CreateEvolves.
      ASSUME NEW f, Sound(f), NEW op \in Nat, NEW a, a[1] \in Nat, a[2] \in Nat, a[3] \in Nat,
             NEW in, Answer(in)
      PROVE  Evolves(f, Create(f, op, a, in))
  <2>. USE <1>CreateEvolves
  <2>. DEFINE size == a[3]
              word == (IF op = CREATE2 THEN 6 ELSE 0) + (IF f.rev >= SHANGHAI THEN 2 ELSE 0)
              cost == word * uint256ToUint64(numWords(size))
              r == SetRet(f, 0)
              s == RequireNotStatic(r)
              g == checkMemoryExpandAndChargeGas(s, a[2], size)
              h == IF f.rev >= SHANGHAI /\ size > MaxInitcode THEN Fail(g, "OUT_OF_GAS")
                   ELSE chargeGas(g, cost)
              w == HostWrite(h, op)
              u == ChargeUsed(w, AllButOne64th(h.gas), in)
              done == addGasRefund(u, in.refund)
  <2>1. 0 \in Nat /\ word \in Nat
    OBVIOUS
  <2>2. cost \in Nat
    <3>1. numWords(size) \in Nat
      BY NumWords, Zenon
    <3>2. uint256ToUint64(numWords(size)) \in Nat
      BY <3>1, U64Type, Zenon
    <3>. HIDE DEF word
    <3>. QED BY <2>1, <3>2
  <2>3. Create(f, op, a, in) =
          IF ~Running(h) THEN h
          ELSE IF h.deep \/ (a[1] # 0 /\ in.poor) THEN Push(h, 0)
          ELSE IF in.ok THEN Push(SetRet(done, 0), in.word) ELSE Push(SetRet(done, in.size), 0)
    BY DEF Create
  <2>. HIDE DEF word, cost
  <2>4. Evolves(f, r) /\ Sound(r)
    BY <2>1, SetRetCalm, CalmFacts, Zenon
  <2>. HIDE DEF r
  <2>5. Evolves(f, s) /\ Sound(s) /\ (Running(s) => ~s.static)
    <3>1. Evolves(r, s)
      BY <2>4, RequireNotStaticCalm, CalmFacts, Zenon
    <3>. QED BY <2>4, <3>1, RequireNotStaticCalm, EvolvesFacts, EvolvesTransitive, Zenon
  <2>. HIDE DEF s
  <2>6. Evolves(s, g) /\ Sound(g)
    BY <2>5, MemoryExpandEvolves, EvolvesFacts, Zenon
  <2>. HIDE DEF g
  <2>7. Evolves(g, h)
    <3>1. Evolves(g, Fail(g, "OUT_OF_GAS"))
      BY <2>6, FailCalm, CalmFacts, Zenon DEF Statuses
    <3>2. Evolves(g, chargeGas(g, cost))
      BY <2>2, <2>6, ChargeCalm, CalmFacts, Zenon
    <3>. QED BY <3>1, <3>2, Zenon
  <2>. HIDE DEF h
  <2>8. Evolves(s, h) /\ Evolves(f, h) /\ Sound(h)
    BY <2>5, <2>6, <2>7, EvolvesTransitive, EvolvesFacts, Zenon
  <2>9. Running(h) => ~h.static
    BY <2>5, <2>8, EvolvesFacts, Zenon
  <2>10. Evolves(h, w) /\ Sound(w)
    BY <2>8, <2>9, HostWriteCalm, CalmFacts, Zenon
  <2>11. AllButOne64th(h.gas) \in Nat
    BY <2>8, FrameFields, AllButOne64thType, Zenon
  <2>. HIDE DEF w
  <2>12. Evolves(w, u) /\ Sound(u)
    BY <2>10, <2>11, ChargeUsedCalm, CalmFacts, Zenon DEF Answer
  <2>. HIDE DEF u
  <2>13. Evolves(u, done) /\ Sound(done)
    BY <2>12, RefundCalm, CalmFacts, Zenon DEF Answer
  <2>. HIDE DEF done
  <2>14. Evolves(f, done)
    <3>1. Evolves(f, w)
      BY <2>8, <2>10, EvolvesTransitive, Zenon
    <3>2. Evolves(f, u)
      BY <3>1, <2>12, EvolvesTransitive, Zenon
    <3>. QED BY <3>2, <2>13, EvolvesTransitive, Zenon
  <2>15. ASSUME NEW n \in Nat, NEW v \in Nat PROVE Evolves(f, Push(SetRet(done, n), v))
    <3>1. Evolves(done, SetRet(done, n)) /\ Sound(SetRet(done, n))
      BY <2>13, SetRetCalm, CalmFacts, Zenon
    <3>2. Evolves(SetRet(done, n), Push(SetRet(done, n), v))
      BY <3>1, PushCalm, CalmFacts, Zenon
    <3>. QED BY <2>14, <3>1, <3>2, EvolvesTransitive, Zenon
  <2>16. Evolves(f, Push(h, 0))
    <3>1. Evolves(h, Push(h, 0))
      BY <2>1, <2>8, PushCalm, CalmFacts, Zenon
    <3>. QED BY <2>8, <3>1, EvolvesTransitive, Zenon
  <2>17. Evolves(f, Push(SetRet(done, 0), in.word)) /\ Evolves(f, Push(SetRet(done, in.size), 0))
    BY <2>1, <2>15, Zenon DEF Answer
  <2>. QED BY <2>3, <2>8, <2>16, <2>17, Zenon
(* The four call opcodes never leave the caller with more gas, the
   stipend included, whatever the nested frame answers. *)
<1>CallEvolves.
      ASSUME NEW f, Sound(f), NEW op \in CallOps, NEW a \in Seq(Nat), Len(a) = Required(op),
             NEW in, Answer(in)
      PROVE  Evolves(f, Call(f, op, a, in))
  <2>. USE <1>CallEvolves
  <2>. DEFINE value == CallValueOf(op, a)
              r == RangesOf(op, a)
              c0 == SetRet(f, 0)
              c1 == ChargeCold(c0, in, ADDITIONAL_COLD_ACCOUNT_ACCESS_COST)
              c == resolveDelegatedCallCodeAddress(c1, in)
              s == IF op = CALL /\ value # 0 THEN RequireNotStatic(c) ELSE c
              m1 == checkMemoryExpandAndChargeGas(s, r[1], r[2])
              m == checkMemoryExpandAndChargeGas(m1, r[3], r[4])
              v == chargeGas(m, ValueCost(op, value, in))
              cap == AllButOne64th(v.gas)
              want == uint256ToUint64(a[1])
              stipend == IF value # 0 THEN CALL_GAS_STIPEND ELSE 0
              given == (IF want < cap THEN want ELSE cap) + stipend
              g == [v EXCEPT !.gas = @ + stipend]
              write == IF op = STATICCALL \/ f.static THEN g ELSE HostWrite(g, op)
              p == Push(write, IF in.ok THEN 1 ELSE 0)
              t == SetRet(p, in.size)
              done == ChargeUsed(t, given, in)
  <2>1. /\ a[1] \in Nat /\ value \in Nat
        /\ r[1] \in Nat /\ r[2] \in Nat /\ r[3] \in Nat /\ r[4] \in Nat
    <3>1. 1 \in 1..4 /\ 2 \in 1..4 /\ 3 \in 1..4 /\ 4 \in 1..4
      OBVIOUS
    <3>. QED BY <3>1, RangesType, Zenon
  <2>2. /\ ADDITIONAL_COLD_ACCOUNT_ACCESS_COST \in Nat /\ CALL_GAS_STIPEND \in Nat /\ 0 \in Nat
        /\ 1 \in Nat /\ op \in Nat
    BY DEF ADDITIONAL_COLD_ACCOUNT_ACCESS_COST, COLD_ACCOUNT_ACCESS_COST, WARM_STORAGE_READ_COST,
           CALL_GAS_STIPEND, CallOps, CALL, CALLCODE, DELEGATECALL, STATICCALL
  <2>3. Call(f, op, a, in) =
          IF ~Running(v) THEN v
          ELSE IF (value # 0 /\ in.poor) \/ f.deep THEN Push(g, 0)
          ELSE addGasRefund(done, in.refund)
    BY DEF Call
  <2>. HIDE DEF value, r
  <2>4. Evolves(f, c0) /\ Sound(c0)
    BY <2>2, SetRetCalm, CalmFacts, Zenon
  <2>. HIDE DEF c0
  <2>5. Evolves(c0, c1) /\ Sound(c1)
    BY <2>2, <2>4, ChargeColdCalm, CalmFacts, Zenon
  <2>. HIDE DEF c1
  <2>6. Evolves(c1, c) /\ Sound(c)
    BY <2>5, DelegatedCalm, CalmFacts, Zenon
  <2>. HIDE DEF c
  <2>7. Evolves(c, s) /\ Sound(s)
    BY <2>6, RequireNotStaticCalm, CalmReflexive, CalmFacts, Zenon
  <2>. HIDE DEF s
  <2>8. Evolves(s, m1) /\ Sound(m1)
    BY <2>1, <2>7, MemoryExpandEvolves, EvolvesFacts, Zenon
  <2>. HIDE DEF m1
  <2>9. Evolves(m1, m) /\ Sound(m)
    BY <2>1, <2>8, MemoryExpandEvolves, EvolvesFacts, Zenon
  <2>. HIDE DEF m
  <2>10. Evolves(f, m)
    <3>1. Evolves(f, c1)
      BY <2>4, <2>5, EvolvesTransitive, Zenon
    <3>2. Evolves(f, c)
      BY <3>1, <2>6, EvolvesTransitive, Zenon
    <3>3. Evolves(f, s)
      BY <3>2, <2>7, EvolvesTransitive, Zenon
    <3>4. Evolves(f, m1)
      BY <3>3, <2>8, EvolvesTransitive, Zenon
    <3>. QED BY <3>4, <2>9, EvolvesTransitive, Zenon
  <2>11. ValueCost(op, value, in) \in Nat
    BY <2>1, ValueCostType, Zenon
  <2>12. /\ Evolves(m, v) /\ Sound(v)
         /\ Running(v) => v.gas = m.gas - ValueCost(op, value, in)
    BY <2>9, <2>11, ChargeCalm, CalmFacts, Zenon
  <2>. HIDE DEF v
  <2>13. Evolves(f, v)
    BY <2>10, <2>12, EvolvesTransitive, Zenon
  <2>14. stipend \in Nat /\ stipend <= ValueCost(op, value, in)
    BY <2>1, <2>2, <2>11, ValueCostType
  <2>. HIDE DEF stipend
  <2>. SUFFICES ASSUME Running(v) PROVE Evolves(f, Call(f, op, a, in))
    BY <2>3, <2>13, Zenon
  <2>15. v.gas + stipend <= f.gas
    <3>1. v.gas \in Nat /\ m.gas \in Nat /\ f.gas \in Nat
      BY <2>9, <2>12, FrameFields, Zenon
    <3>2. m.gas <= f.gas
      BY <2>10, EvolvesFacts, Zenon
    <3>. QED BY <2>11, <2>12, <2>14, <3>1, <3>2
  <2>16. Evolves(f, g) /\ Sound(g)
    BY <2>13, <2>14, <2>15, StipendEvolves, EvolvesFacts, Zenon
  <2>17. given \in Nat
    <3>1. cap \in Nat /\ want \in Nat
      BY <2>1, <2>12, FrameFields, AllButOne64thType, U64Type, Zenon
    <3>. HIDE DEF cap, want
    <3>. QED BY <2>14, <3>1
  <2>. HIDE DEF given, g
  <2>18. Evolves(f, write) /\ Sound(write)
    <3>1. ~f.static => Evolves(g, HostWrite(g, op))
      <4>1. ~f.static => ~g.static
        BY <2>16, EvolvesFacts, Zenon
      <4>. QED BY <2>2, <2>16, <4>1, HostWriteCalm, CalmFacts, Zenon
    <3>. QED BY <2>16, <3>1, EvolvesTransitive, EvolvesFacts, Zenon
  <2>. HIDE DEF write
  <2>19. Evolves(write, p) /\ Sound(p)
    <3>1. (IF in.ok THEN 1 ELSE 0) \in Nat
      OBVIOUS
    <3>. QED BY <2>18, <3>1, PushCalm, CalmFacts, Zenon
  <2>. HIDE DEF p
  <2>20. Evolves(p, t) /\ Sound(t)
    BY <2>19, SetRetCalm, CalmFacts, Zenon DEF Answer
  <2>. HIDE DEF t
  <2>21. Evolves(t, done) /\ Sound(done)
    BY <2>17, <2>20, ChargeUsedCalm, CalmFacts, Zenon DEF Answer
  <2>. HIDE DEF done
  <2>22. Evolves(done, addGasRefund(done, in.refund))
    BY <2>21, RefundCalm, CalmFacts, Zenon DEF Answer
  <2>23. Evolves(f, addGasRefund(done, in.refund))
    <3>1. Evolves(f, p)
      BY <2>18, <2>19, EvolvesTransitive, Zenon
    <3>2. Evolves(f, t)
      BY <3>1, <2>20, EvolvesTransitive, Zenon
    <3>3. Evolves(f, done)
      BY <3>2, <2>21, EvolvesTransitive, Zenon
    <3>. QED BY <3>3, <2>22, EvolvesTransitive, Zenon
  <2>24. Evolves(f, Push(g, 0))
    <3>1. Evolves(g, Push(g, 0))
      BY <2>2, <2>16, PushCalm, CalmFacts, Zenon
    <3>. QED BY <2>16, <3>1, EvolvesTransitive, Zenon
  <2>. QED BY <2>3, <2>23, <2>24, Zenon
(* RETURN and REVERT expand the memory and end the frame. *)
<1>ReturnEvolves.
      ASSUME NEW f, Sound(f), NEW a, a[1] \in Nat, a[2] \in Nat
      PROVE  Evolves(f, Return(f, a)) /\ Evolves(f, Revert(f, a))
  <2>. USE <1>ReturnEvolves
  <2>. DEFINE g == checkMemoryExpandAndChargeGas(f, a[1], a[2])
  <2>1. Evolves(f, g) /\ Sound(g)
    BY MemoryExpandEvolves, EvolvesFacts, Zenon
  <2>2. /\ Return(f, a) = IF Running(g) THEN [g EXCEPT !.st = "SUCCESS", !.ret = a[2]] ELSE g
        /\ Revert(f, a) =
             IF Running(g) THEN [g EXCEPT !.st = "REVERT", !.ret = a[2], !.refund = f.snap] ELSE g
    BY DEF Return, Revert
  <2>. HIDE DEF g
  <2>3. f.snap \in Int /\ "SUCCESS" \in Statuses /\ "REVERT" \in Statuses
    BY FrameFields DEF Statuses
  <2>4. Running(g) => /\ Evolves(g, [g EXCEPT !.st = "SUCCESS", !.ret = a[2]])
                      /\ Evolves(g, [g EXCEPT !.st = "REVERT", !.ret = a[2], !.refund = f.snap])
    BY <2>1, <2>3, EndEvolves, CalmFacts, Zenon
  <2>. QED BY <2>1, <2>2, <2>4, EvolvesTransitive, Zenon
<1>Handler.
      ASSUME NEW f, Sound(f), Running(f), NEW op \in Bytes, NEW a \in Seq(Nat),
             Len(a) = Required(op), Len(a) + Len(f.stack) <= MaxStack, NEW value \in Nat,
             NEW in, Answer(in), op \in WriteOps => ~f.static
      PROVE  Evolves(f, Handler(f, op, a, value, in))
  <2>. USE <1>Handler
  <2>. DEFINE Ok(g) == Evolves(f, g)
  <2>1. op \in Nat /\ in.word \in Nat
    BY DEF Bytes, Answer
  <2>2. op \in {TSTORE} => Ok(HostWrite(f, TSTORE))
    <3>1. TSTORE \in Nat
      BY DEF TSTORE
    <3>. QED BY <3>1, HostWriteCalm, CalmFacts, Zenon DEF WriteOps
  <2>3. Ok(Fail(f, "INVALID_INSTRUCTION")) /\ Ok(Stop(f)) /\ Ok(f) /\ Ok(Push(f, value))
    BY FailCalm, StopCalm, CalmReflexive, PushCalm, CalmFacts, Zenon DEF Statuses
  <2>4. op \in {RETURN, REVERT} => Ok(Return(f, a)) /\ Ok(Revert(f, a))
    BY OperandTypes, <1>ReturnEvolves, Zenon
  <2>5. op = SELFDESTRUCT => Ok(SelfDestruct(f, in))
    BY SelfDestructCalm, CalmFacts, Zenon DEF WriteOps
  <2>6. op \in DupOps => Ok(DupWord(f, a, op - DUP1 + 1))
    BY OperandTypes, <1>DupCalm, CalmFacts, Zenon
  <2>7. op \in SwapOps => Ok(SwapWords(f, a, op - SWAP1 + 2))
    BY OperandTypes, SwapCalm, CalmFacts, Zenon
  <2>8. Ok(Push(f, EnvValue(f, op, in)))
    BY <2>1, EnvValueType, PushCalm, CalmFacts, Zenon
  <2>9. op \in LoadOps => Ok(Load(f, op, a, in))
    BY <2>1, OperandTypes, <1>LoadEvolves, Zenon
  <2>10. Ok(Arithmetic(f, op, a, in))
    BY <2>1, OperandTypes, <1>ArithmeticCalm, CalmFacts, Zenon
  <2>11. op = KECCAK256 => Ok(Keccak256(f, a, in))
    BY <2>1, OperandTypes, <1>Keccak256Evolves, Zenon
  <2>12. op \in {MSTORE, MSTORE8} => Ok(MStore(f, op, a))
    BY OperandTypes, <1>MStoreEvolves, Zenon
  <2>13. op = SSTORE => Ok(SStore(f, in))
    BY <1>SStoreEvolves, Zenon DEF WriteOps
  <2>14. op \in CopyOps => Ok(Copy(f, a)) /\ Ok(ReturnDataCopy(f, a)) /\ Ok(MCopy(f, a))
    BY OperandTypes, <1>CopyEvolves, <1>ReturnDataCopyEvolves, <1>MCopyEvolves, Zenon
  <2>15. op = EXTCODECOPY => Ok(ExtCodeCopy(f, a, in))
    BY OperandTypes, <1>ExtCodeCopyEvolves, Zenon
  <2>16. op \in LogOps => Ok(Log(f, op, a))
    BY <2>1, OperandTypes, <1>LogEvolves, Zenon DEF WriteOps
  <2>17. op \in CreateOps => Ok(Create(f, op, a, in))
    BY <2>1, OperandTypes, <1>CreateEvolves, Zenon
  <2>18. op \in CallOps => Ok(Call(f, op, a, in))
    BY <1>CallEvolves, Zenon
  <2>19. op \in {CALLDATACOPY, CODECOPY, RETURNDATACOPY, MCOPY} => op \in CopyOps
    BY DEF CopyOps
  <2>. HIDE DEF Ok
  <2>20. Ok(Handler(f, op, a, value, in))
    BY <2>2, <2>3, <2>4, <2>5, <2>6, <2>7, <2>8, <2>9, <2>10, <2>11, <2>12, <2>13, <2>14, <2>15,
       <2>16, <2>17, <2>18, <2>19 DEF Handler
  <2>. QED BY <2>20 DEF Ok
<1>. QED BY <1>Handler, Zenon

(* What a whole instruction may do: the frame stays sound, no gas comes
   back, the call's parameters stay, a static frame writes nothing, and
   control falls to the next instruction or jumps to a JUMPDEST, and a jump
   leaves the paid chunk. *)
Moves(f, g, op, dests) ==
  /\ Sound(g)
  /\ g.gas <= f.gas
  /\ g.snap = f.snap /\ g.rev = f.rev /\ g.static = f.static /\ g.deep = f.deep
  /\ f.static => g.log = f.log
  /\ Running(g) => g.pc \in dests \/ g.pc = f.pc + opcodeLen(op)
  /\ Running(g) /\ op \notin {JUMP, JUMPI} => g.pc = f.pc + opcodeLen(op)
  /\ ~Running(g) => g.pc = f.pc
  /\ g.until = f.until \/ (op \in {JUMP, JUMPI} /\ g.until = 0)
  /\ Running(g) => g.until = 0 \/ g.pc = f.pc + opcodeLen(op)

(* A handler followed by the move past its instruction is one step of the
   interpreter. *)
LEMMA AdvanceMoves ==
  ASSUME NEW f, NEW g, Sound(f), Evolves(f, g), NEW op \in Bytes, NEW dests
  PROVE  Moves(f, Advance(g, op), op, dests)
<1>. DEFINE h == [g EXCEPT !.pc = @ + opcodeLen(op)]
<1>1. Sound(g)
  BY EvolvesFacts
<1>2. g \in Frames /\ g.pc \in Nat /\ opcodeLen(op) \in Nat
  <2>1. opcodeLen(op) \in 1..33
    BY OpcodeLenType, Zenon
  <2>2. \A x \in 1..33 : x \in Nat
    OBVIOUS
  <2>3. g \in Frames /\ g.pc \in Nat
    BY <1>1, FrameFields, Zenon DEF Sound
  <2>. QED BY <2>1, <2>2, <2>3, Zenon
<1>3. g.pc + opcodeLen(op) \in Nat
  <2>1. \A x \in Nat : g.pc + x \in Nat
    BY <1>2
  <2>. QED BY <1>2, <2>1, Zenon
<1>4. h \in Frames
  BY <1>2, <1>3, Zenon DEF Frames
<1>5. /\ h.gas = g.gas /\ h.stack = g.stack /\ h.mem = g.mem /\ h.pc = g.pc + opcodeLen(op)
      /\ h.until = g.until /\ h.snap = g.snap /\ h.rev = g.rev /\ h.static = g.static
      /\ h.deep = g.deep /\ h.log = g.log /\ h.st = g.st
  BY <1>2 DEF Frames
<1>6. Advance(g, op) = IF Running(g) THEN h ELSE g
  BY DEF Advance
<1>. HIDE DEF h
<1>7. Sound(h)
  BY <1>1, <1>4, <1>5 DEF Sound
<1>8. Running(h) <=> Running(g)
  BY <1>5 DEF Running
<1>9. CASE Running(g)
  BY <1>5, <1>6, <1>7, <1>8, <1>9, Zenon DEF Moves, Evolves
<1>10. CASE ~Running(g)
  BY <1>6, <1>10, Zenon DEF Moves, Evolves
<1>. QED BY <1>9, <1>10, Zenon

(* A handler followed by a jump is one step: it lands on a valid
   destination or fails. *)
LEMMA JumpMoves ==
  ASSUME NEW f, NEW g, Sound(f), Evolves(f, g), Running(g), NEW op \in {JUMP, JUMPI}, NEW dest,
         NEW dests \in SUBSET Nat
  PROVE  Moves(f, JumpTo(g, dest, dests), op, dests)
<1>. DEFINE h == [g EXCEPT !.pc = dest, !.until = 0]
<1>1. Sound(g)
  BY EvolvesFacts
<1>2. CASE dest <= U64Max /\ dest \in dests
  <2>1. g \in Frames /\ dest \in Nat /\ 0 \in Nat
    BY <1>1, <1>2 DEF Sound
  <2>2. h \in Frames
    BY <2>1, Zenon DEF Frames
  <2>3. /\ h.gas = g.gas /\ h.stack = g.stack /\ h.mem = g.mem /\ h.pc = dest
        /\ h.until = 0 /\ h.snap = g.snap /\ h.rev = g.rev /\ h.static = g.static
        /\ h.deep = g.deep /\ h.log = g.log /\ h.st = g.st
    BY <2>1 DEF Frames
  <2>4. JumpTo(g, dest, dests) = h
    BY <1>2 DEF JumpTo
  <2>. HIDE DEF h
  <2>5. Sound(h)
    BY <1>1, <2>2, <2>3 DEF Sound
  <2>6. Running(h)
    BY <2>3 DEF Running
  <2>. QED BY <1>2, <2>3, <2>4, <2>5, <2>6, Zenon DEF Moves, Evolves
<1>3. CASE ~(dest <= U64Max /\ dest \in dests)
  <2>1. JumpTo(g, dest, dests) = Fail(g, "BAD_JUMP_DESTINATION")
    BY <1>3 DEF JumpTo
  <2>2. ~Running(Fail(g, "BAD_JUMP_DESTINATION"))
    BY <1>1 DEF Fail, Running, Sound, Frames
  <2>3. Evolves(g, Fail(g, "BAD_JUMP_DESTINATION"))
    BY <1>1, FailCalm, CalmFacts, Zenon DEF Statuses
  <2>4. Evolves(f, Fail(g, "BAD_JUMP_DESTINATION"))
    BY <2>3, EvolvesTransitive, Zenon
  <2>. QED BY <2>1, <2>2, <2>4, Zenon DEF Moves, Evolves
<1>. QED BY <1>2, <1>3, Zenon

(* The tests before a handler either end the frame or change nothing, and
   those of the writing opcodes exclude a static frame. *)
LEMMA PrecheckEvolves ==
  ASSUME NEW f, Sound(f), NEW op
  PROVE  /\ Calm(f, Precheck(f, op))
         /\ Running(Precheck(f, op)) => Precheck(f, op) = f /\ (op \in WriteOps => ~f.static)
<1>. DEFINE g == IF op \in {SSTORE, TSTORE, SELFDESTRUCT} \cup LogOps
                 THEN RequireNotStatic(f) ELSE f
<1>1. Calm(f, g) /\ (Running(g) => g = f /\ (op \in WriteOps => ~f.static))
  BY RequireNotStaticCalm, CalmReflexive, Zenon DEF WriteOps
<1>2. Precheck(f, op) = IF op = SSTORE /\ f.rev >= ISTANBUL /\ g.gas <= SSTORE_REQUIRED_ISTANBUL
                        THEN Fail(g, "OUT_OF_GAS") ELSE g
  BY DEF Precheck
<1>. HIDE DEF g
<1>3. Sound(g)
  BY <1>1, CalmFacts, Zenon
<1>4. ~Running(Fail(g, "OUT_OF_GAS"))
  BY <1>3 DEF Fail, Running, Sound, Frames
<1>5. Calm(f, Fail(g, "OUT_OF_GAS"))
  <2>1. Calm(g, Fail(g, "OUT_OF_GAS"))
    BY <1>3, FailCalm, Zenon DEF Statuses
  <2>. QED BY <1>1, <2>1, CalmTransitive, Zenon
<1>. QED BY <1>1, <1>2, <1>4, <1>5, Zenon

(* doExecute, for every opcode and every host answer, moves to the next
   instruction or to a jump destination, or ends the frame, and leaves no
   more gas than it found. *)
LEMMA ExecuteMoves ==
  ASSUME NEW frame, Sound(frame), Running(frame), NEW op \in Bytes, NEW value \in Nat,
         NEW dests \in SUBSET Nat, NEW in, Answer(in)
  PROVE  Moves(frame, doExecute(frame, op, value, dests, in), op, dests)
<1>. DEFINE n == Required(op)
            c == Precheck(frame, op)
            p == EVM_STACK_CHECK(c, n)
            a == SubSeq(frame.stack, 1, n)
            f == Drop(p, n)
            h == Handler(f, op, a, value, in)
<1>1. n \in Nat
  <2>1. n \in 0..17
    BY MetricsType, Zenon
  <2>. HIDE DEF n
  <2>. QED BY <2>1
<1>2. doExecute(frame, op, value, dests, in) =
        IF ~Running(p) THEN p
        ELSE IF op = JUMP THEN JumpTo(f, a[1], dests)
        ELSE IF op = JUMPI /\ a[2] # 0 THEN JumpTo(f, a[1], dests)
        ELSE Advance(h, op)
  BY DEF doExecute
<1>3. Calm(frame, c) /\ Sound(c)
  BY PrecheckEvolves, CalmFacts, Zenon
<1>4. Calm(frame, p)
  <2>1. Calm(c, Fail(c, "STACK_UNDERFLOW"))
    BY <1>3, FailCalm, Zenon DEF Statuses
  <2>2. Calm(frame, Fail(c, "STACK_UNDERFLOW"))
    BY <1>3, <2>1, CalmTransitive, Zenon
  <2>. QED BY <1>3, <2>2, Zenon DEF EVM_STACK_CHECK
<1>5. Running(p) => p = frame /\ n <= Len(frame.stack) /\ (op \in WriteOps => ~frame.static)
  <2>1. ~Running(Fail(c, "STACK_UNDERFLOW"))
    BY <1>3 DEF Fail, Running, Sound, Frames
  <2>2. Running(p) => p = c /\ ~(Len(c.stack) < n)
    BY <2>1, Zenon DEF EVM_STACK_CHECK
  <2>3. Running(p) => p = frame /\ ~(Len(frame.stack) < n) /\ (op \in WriteOps => ~frame.static)
    BY <2>2, PrecheckEvolves, Zenon
  <2>4. Len(frame.stack) \in Nat
    BY FrameFields
  <2>. HIDE DEF p, n
  <2>. QED BY <1>1, <2>3, <2>4
<1>. HIDE DEF n, c, p
<1>6. CASE ~Running(p)
  <2>1. doExecute(frame, op, value, dests, in) = p
    BY <1>2, <1>6, Zenon
  <2>. QED BY <1>4, <1>6, <2>1, Zenon DEF Moves, Calm, Evolves
<1>7. CASE Running(p)
  <2>1. p = frame /\ n <= Len(frame.stack) /\ (op \in WriteOps => ~frame.static)
    BY <1>5, <1>7
  <2>2. /\ Calm(frame, f) /\ Sound(f) /\ f.static = frame.static
        /\ Len(f.stack) = Len(frame.stack) - n
    BY <1>1, <2>1, DropCalm, CalmFacts, Zenon
  <2>3. Running(f)
    BY <2>1 DEF Drop, Running, Sound, Frames
  <2>4. frame.stack \in Seq(Nat) /\ Len(frame.stack) \in Nat /\ Len(frame.stack) <= MaxStack
    BY FrameFields DEF Sound
  <2>5. a \in Seq(Nat) /\ Len(a) = n
    <3>1. 1 \in Nat \ {0} /\ 1 <= n + 1
      BY <1>1
    <3>2. a \in Seq(Nat) /\ Len(a) = n - 1 + 1
      BY <1>1, <2>1, <2>4, <3>1, SubSeqOfWords, Zenon
    <3>. QED BY <1>1, <3>2
  <2>. HIDE DEF a
  <2>6. Len(a) + Len(f.stack) <= MaxStack
    BY <1>1, <2>2, <2>4, <2>5
  <2>. HIDE DEF f
  <2>7. Evolves(frame, f)
    BY <2>2, CalmFacts, Zenon
  <2>8. op \in {JUMP, JUMPI} => Moves(frame, JumpTo(f, a[1], dests), op, dests)
    BY <2>3, <2>7, JumpMoves, Zenon
  <2>9. Evolves(f, h)
    BY <2>1, <2>2, <2>3, <2>5, <2>6, HandlerEvolves, Zenon DEF n
  <2>10. Moves(frame, Advance(h, op), op, dests)
    <3>. HIDE DEF h
    <3>1. Evolves(frame, h)
      BY <2>7, <2>9, EvolvesTransitive, Zenon
    <3>. QED BY <3>1, AdvanceMoves, Zenon
  <2>. HIDE DEF h
  <2>. QED BY <1>2, <1>7, <2>8, <2>10, Zenon
<1>. QED BY <1>6, <1>7, Zenon

(* The same for a step of the reference: it moves as its opcode does, and
   either burns gas or moves forward. *)
LEMMA SlowPathMoves ==
  ASSUME NEW f, Sound(f), Running(f), NEW code \in Seq(Bytes), NEW dests \in SUBSET Nat,
         NEW in, Answer(in)
  PROVE  LET g == SlowPath(f, code, dests, in)
         IN  /\ Moves(f, g, Byte(code, f.pc), dests)
             /\ Running(g) => f.pc \in PCs(code) /\ (g.gas < f.gas \/ g.pc > f.pc)
<1>. DEFINE op == Byte(code, f.pc)
            g == chargeGas(f, GasCostOf(op, f.rev))
            value == loadPushValue(code, f.pc)
            r == doExecute(g, op, value, dests, in)
            Ok(x) == /\ Moves(f, x, op, dests)
                     /\ Running(x) => f.pc \in PCs(code) /\ (x.gas < f.gas \/ x.pc > f.pc)
<1>1. SlowPath(f, code, dests, in) =
        IF f.pc >= Len(code) THEN Stop(f)
        ELSE IF ~Defined(op, f.rev) THEN Fail(f, "UNDEFINED_INSTRUCTION")
        ELSE IF ~Running(g) THEN g ELSE r
  BY DEF SlowPath
<1>2. ASSUME NEW x, Evolves(f, x), ~Running(x) PROVE Ok(x)
  BY <1>2, Zenon DEF Moves, Evolves
<1>3. Ok(Stop(f))
  <2>1. ~Running(Stop(f))
    BY DEF Stop, Running, Sound, Frames
  <2>. QED BY <1>2, <2>1, StopCalm, CalmFacts, Zenon
<1>4. Ok(Fail(f, "UNDEFINED_INSTRUCTION"))
  <2>1. ~Running(Fail(f, "UNDEFINED_INSTRUCTION"))
    BY DEF Fail, Running, Sound, Frames
  <2>. QED BY <1>2, <2>1, FailCalm, CalmFacts, Zenon DEF Statuses
<1>5. ASSUME ~(f.pc >= Len(code)), ~Running(g) PROVE Ok(g)
  <2>1. f.pc \in PCs(code)
    BY <1>5, FrameFields, LenProperties DEF PCs
  <2>2. Evolves(f, g)
    BY <2>1, ByteType, MetricsType, ChargeCalm, CalmFacts, Zenon
  <2>. QED BY <1>2, <1>5, <2>2, Zenon
<1>6. ASSUME ~(f.pc >= Len(code)), Running(g) PROVE Ok(r)
  <2>1. f.pc \in PCs(code)
    BY <1>6, FrameFields, LenProperties DEF PCs
  <2>2. op \in Bytes /\ GasCostOf(op, f.rev) \in Nat
    BY <2>1, ByteType, MetricsType, Zenon
  <2>3. value \in Nat
    <3>1. value \in 0..(WordMod - 1)
      BY <2>1, PushValueType, Zenon
    <3>. HIDE DEF value
    <3>. QED BY <3>1, CodeAssumption
  <2>. HIDE DEF op, value
  <2>4. Evolves(f, g) /\ Sound(g) /\ g.gas = f.gas - GasCostOf(op, f.rev)
    BY <1>6, <2>2, ChargeCalm, CalmFacts, Zenon
  <2>. HIDE DEF g
  <2>5. Moves(g, r, op, dests)
    BY <1>6, <2>2, <2>3, <2>4, ExecuteMoves, Zenon
  <2>. HIDE DEF r
  <2>6. f.gas \in Nat /\ g.gas \in Nat /\ r.gas \in Nat /\ f.pc \in Nat
    BY <2>4, <2>5, FrameFields, Zenon DEF Moves
  <2>7. g.gas <= f.gas /\ r.gas <= g.gas /\ r.gas <= f.gas
    <3>1. g.gas <= f.gas /\ r.gas <= g.gas
      BY <2>4, <2>5, Zenon DEF Moves, Evolves
    <3>. QED BY <2>6, <3>1
  <2>8. Moves(f, r, op, dests)
    BY <2>4, <2>5, <2>7, Zenon DEF Moves, Evolves
  <2>9. op \in {JUMP, JUMPI} => r.gas < f.gas
    <3>1. op \in {JUMP, JUMPI} => GasCostOf(op, f.rev) > 0
      BY <2>2, MetricsType, Zenon
    <3>. QED BY <2>2, <2>4, <2>6, <2>7, <3>1
  <2>10. Running(r) /\ op \notin {JUMP, JUMPI} => r.pc > f.pc
    <3>1. Running(r) /\ op \notin {JUMP, JUMPI} => r.pc = f.pc + opcodeLen(op)
      BY <2>8, Zenon DEF Moves
    <3>2. \A x \in 1..33 : f.pc + x > f.pc
      BY <2>6
    <3>. QED BY <2>2, <3>1, <3>2, OpcodeLenType, Zenon
  <2>. QED BY <2>1, <2>8, <2>9, <2>10, Zenon
<1>. HIDE DEF Ok
<1>7. Ok(SlowPath(f, code, dests, in))
  <2>. HIDE DEF op, g, r
  <2>. QED BY <1>1, <1>3, <1>4, <1>5, <1>6, Zenon
<1>. QED BY <1>7 DEF Ok

(* Moves, whatever becomes of the paid chunk. *)
Steps(f, g, op, dests) ==
  /\ Sound(g)
  /\ g.gas <= f.gas
  /\ g.snap = f.snap /\ g.rev = f.rev /\ g.static = f.static /\ g.deep = f.deep
  /\ f.static => g.log = f.log
  /\ Running(g) => g.pc \in dests \/ g.pc = f.pc + opcodeLen(op)
  /\ ~Running(g) => g.pc = f.pc

(* A frame that has paid x for the code up to u, and one whose chunk ends at u. *)
PaidUntil(f, x, u) == [f EXCEPT !.gas = @ - x, !.until = u]
EndsChunk(f, u) == [f EXCEPT !.until = u]

(* The metering at the head of the interpreter's loop. *)
Metered(f, code, cache) ==
  IF f.pc < f.until THEN f
  ELSE IF cache.end[f.pc] > f.pc /\ f.gas >= cache.cost[f.pc]
  THEN [f EXCEPT !.gas = @ - cache.cost[f.pc], !.until = cache.end[f.pc]]
  ELSE chargeGas([f EXCEPT !.until = 0], GasCostOf(Byte(code, f.pc), f.rev))

(* Who keeps everything but the gas, the paid chunk and the memory. *)
SameCall(f, g) ==
  /\ g.st = f.st /\ g.stack = f.stack /\ g.mem = f.mem /\ g.pc = f.pc
  /\ g.snap = f.snap /\ g.rev = f.rev /\ g.static = f.static /\ g.deep = f.deep
  /\ g.log = f.log /\ g.ret = f.ret /\ g.refund = f.refund

(* Paying a chunk changes the gas and the end of what is paid, nothing
   else. *)
LEMMA PaidUntilKeeps ==
  ASSUME NEW f, Sound(f), NEW u \in Nat, NEW x \in Nat, x <= f.gas
  PROVE  /\ Sound(PaidUntil(f, x, u)) /\ SameCall(f, PaidUntil(f, x, u))
         /\ PaidUntil(f, x, u).gas = f.gas - x /\ PaidUntil(f, x, u).until = u
<1>. DEFINE g == PaidUntil(f, x, u)
<1>1. f \in Frames /\ f.gas - x \in Nat
  BY FrameFields DEF Sound
<1>2. g \in Frames
  BY <1>1, Zenon DEF Frames, PaidUntil
<1>3. /\ g.gas = f.gas - x /\ g.until = u
      /\ g.st = f.st /\ g.stack = f.stack /\ g.mem = f.mem /\ g.pc = f.pc
      /\ g.snap = f.snap /\ g.rev = f.rev /\ g.static = f.static /\ g.deep = f.deep
      /\ g.log = f.log /\ g.ret = f.ret /\ g.refund = f.refund
  BY <1>1 DEF Frames, PaidUntil
<1>. HIDE DEF g
<1>4. Sound(g)
  BY <1>2, <1>3 DEF Sound
<1>5. /\ Sound(g) /\ SameCall(f, g) /\ g.gas = f.gas - x /\ g.until = u
  BY <1>3, <1>4, Zenon DEF SameCall
<1>. QED BY <1>5, Zenon DEF g

(* Entering an unpaid chunk changes the end of what is paid only. *)
LEMMA EndsChunkKeeps ==
  ASSUME NEW f, Sound(f), NEW u \in Nat
  PROVE  /\ Sound(EndsChunk(f, u)) /\ SameCall(f, EndsChunk(f, u))
         /\ EndsChunk(f, u).gas = f.gas /\ EndsChunk(f, u).until = u
<1>. DEFINE g == EndsChunk(f, u)
<1>1. f \in Frames
  BY DEF Sound
<1>2. g \in Frames
  BY <1>1, Zenon DEF Frames, EndsChunk
<1>3. /\ g.gas = f.gas /\ g.until = u
      /\ g.st = f.st /\ g.stack = f.stack /\ g.mem = f.mem /\ g.pc = f.pc
      /\ g.snap = f.snap /\ g.rev = f.rev /\ g.static = f.static /\ g.deep = f.deep
      /\ g.log = f.log /\ g.ret = f.ret /\ g.refund = f.refund
  BY <1>1 DEF Frames, EndsChunk
<1>. HIDE DEF g
<1>4. Sound(g)
  BY <1>2, <1>3 DEF Sound
<1>5. /\ Sound(g) /\ SameCall(f, g) /\ g.gas = f.gas /\ g.until = u
  BY <1>3, <1>4, Zenon DEF SameCall
<1>. QED BY <1>5, Zenon DEF g

(* The metering at the head of the interpreter's loop leaves a sound
   frame with no more gas, in the same place. *)
LEMMA MeteredKeeps ==
  ASSUME NEW f, Sound(f), Running(f), NEW code \in Seq(Bytes), f.pc \in PCs(code), NEW cache,
         cache.end \in [PCs(code) -> Nat], cache.cost \in [PCs(code) -> Nat]
  PROVE  LET g == Metered(f, code, cache)
         IN  /\ Sound(g) /\ g.gas <= f.gas /\ g.pc = f.pc
             /\ g.snap = f.snap /\ g.rev = f.rev /\ g.static = f.static /\ g.deep = f.deep
             /\ f.static => g.log = f.log
<1>. DEFINE Ok(g) == /\ Sound(g) /\ g.gas <= f.gas /\ g.pc = f.pc
                     /\ g.snap = f.snap /\ g.rev = f.rev /\ g.static = f.static
                     /\ g.deep = f.deep /\ (f.static => g.log = f.log)
            cost == GasCostOf(Byte(code, f.pc), f.rev)
            h == EndsChunk(f, 0)
            p == PaidUntil(f, cache.cost[f.pc], cache.end[f.pc])
<1>1. f.gas \in Nat /\ cache.end[f.pc] \in Nat /\ cache.cost[f.pc] \in Nat
  BY FrameFields
<1>2. cost \in Nat
  BY ByteType, MetricsType, Zenon
<1>3. Ok(f)
  BY <1>1
<1>4. f.gas >= cache.cost[f.pc] => Ok(p)
  <2>. SUFFICES ASSUME f.gas >= cache.cost[f.pc] PROVE Ok(p)
    OBVIOUS
  <2>1. Sound(p) /\ SameCall(f, p) /\ p.gas = f.gas - cache.cost[f.pc]
    BY <1>1, PaidUntilKeeps
  <2>2. f.gas - cache.cost[f.pc] <= f.gas
    BY <1>1
  <2>. HIDE DEF p
  <2>. QED BY <2>1, <2>2, Zenon DEF SameCall
<1>5. Ok(chargeGas(h, cost))
  <2>2. Sound(h) /\ SameCall(f, h) /\ h.gas = f.gas
    BY EndsChunkKeeps
  <2>. HIDE DEF h, cost
  <2>3. Evolves(h, chargeGas(h, cost))
    BY <1>2, <2>2, ChargeCalm, CalmFacts, Zenon
  <2>. QED BY <2>2, <2>3, Zenon DEF Evolves, SameCall
<1>. HIDE DEF Ok, p
<1>6. Metered(f, code, cache) =
        IF f.pc < f.until THEN f
        ELSE IF cache.end[f.pc] > f.pc /\ f.gas >= cache.cost[f.pc] THEN p
        ELSE chargeGas(h, cost)
  BY DEF Metered, p, PaidUntil, EndsChunk
<1>7. Ok(Metered(f, code, cache))
  <2>. HIDE DEF h, cost
  <2>. QED BY <1>3, <1>4, <1>5, <1>6, Zenon
<1>. QED BY <1>7 DEF Ok

(* One turn of interpret is a step of the machine, and it only keeps
   running inside the code. *)
LEMMA InterpretSteps ==
  ASSUME NEW f, Sound(f), Running(f), NEW code \in Seq(Bytes), NEW cache,
         cache.dests \in SUBSET Nat, NEW in, Answer(in),
         cache.end \in [PCs(code) -> Nat], cache.cost \in [PCs(code) -> Nat]
  PROVE  LET r == interpret(f, code, cache, in)
         IN  /\ Steps(f, r, Byte(code, f.pc), cache.dests)
             /\ Running(r) => f.pc \in PCs(code)
<1>. DEFINE op == Byte(code, f.pc)
            g == Metered(f, code, cache)
            value == loadPushValue(code, f.pc)
            r == doExecute(g, op, value, cache.dests, in)
            Ok(x) == Steps(f, x, op, cache.dests) /\ (Running(x) => f.pc \in PCs(code))
<1>1. interpret(f, code, cache, in) =
        IF f.pc >= Len(code) THEN Stop(f)
        ELSE IF ~Defined(op, f.rev) THEN Fail(g, "UNDEFINED_INSTRUCTION")
        ELSE IF ~Running(g) THEN g ELSE r
  BY DEF interpret, Metered
<1>2. Ok(Stop(f))
  <2>1. ~Running(Stop(f))
    BY DEF Stop, Running, Sound, Frames
  <2>2. Evolves(f, Stop(f))
    BY StopCalm, CalmFacts, Zenon
  <2>. QED BY <2>1, <2>2, Zenon DEF Steps, Evolves
<1>. SUFFICES ASSUME ~(f.pc >= Len(code)) PROVE Ok(interpret(f, code, cache, in))
  BY <1>1, <1>2
<1>3. f.pc \in PCs(code)
  BY FrameFields, LenProperties DEF PCs
<1>4. op \in Bytes
  BY <1>3, ByteType, Zenon
<1>5. value \in Nat
  <2>1. value \in 0..(WordMod - 1)
    BY <1>3, PushValueType, Zenon
  <2>. HIDE DEF value
  <2>. QED BY <2>1, CodeAssumption
<1>6. /\ Sound(g) /\ g.gas <= f.gas /\ g.pc = f.pc /\ g.snap = f.snap /\ g.rev = f.rev
      /\ g.static = f.static /\ g.deep = f.deep /\ (f.static => g.log = f.log)
  BY <1>3, MeteredKeeps, Zenon
<1>. HIDE DEF op, value, g
<1>7. ~Running(g) => Ok(g)
  BY <1>6, Zenon DEF Steps
<1>8. f.gas \in Nat /\ g.gas \in Nat
  BY <1>6, FrameFields, Zenon
<1>9. Ok(Fail(g, "UNDEFINED_INSTRUCTION"))
  <2>. DEFINE x == Fail(g, "UNDEFINED_INSTRUCTION")
  <2>1. ~Running(x)
    BY <1>6 DEF Fail, Running, Sound, Frames
  <2>2. Evolves(g, x)
    BY <1>6, FailCalm, CalmFacts, Zenon DEF Statuses
  <2>. HIDE DEF x
  <2>3. x.gas <= f.gas
    <3>1. x.gas \in Nat /\ x.gas <= g.gas
      BY <2>2, FrameFields, EvolvesFacts, Zenon
    <3>. QED BY <1>6, <1>8, <3>1
  <2>4. Ok(x)
    BY <1>6, <2>1, <2>2, <2>3, Zenon DEF Steps, Evolves
  <2>. QED BY <2>4 DEF x
<1>10. Running(g) => Ok(r)
  <2>. SUFFICES ASSUME Running(g) PROVE Ok(r)
    OBVIOUS
  <2>1. Moves(g, r, op, cache.dests)
    BY <1>4, <1>5, <1>6, ExecuteMoves, Zenon
  <2>. HIDE DEF r
  <2>2. r.gas <= f.gas
    <3>1. r.gas \in Nat /\ r.gas <= g.gas
      BY <2>1, FrameFields, Zenon DEF Moves
    <3>. QED BY <1>6, <1>8, <3>1
  <2>. QED BY <1>3, <1>6, <2>1, <2>2, Zenon DEF Steps, Moves
<1>. HIDE DEF Ok, r
<1>. QED BY <1>1, <1>7, <1>9, <1>10, Zenon

=============================================================================

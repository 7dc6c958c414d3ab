----------------------------- MODULE MCEvmExec -----------------------------
(***************************************************************************)
(* Programs and messages for EvmExec: short programs built from a small    *)
(* alphabet, and longer ones that reach loops, runs of JUMPDESTs, the      *)
(* memory prechecks and every kind of host call.                           *)
(***************************************************************************)
EXTENDS EvmExec, EvmAnalyzer, EvmCache

P(n) == <<PUSH1, n>>
PP(a, b) == <<PUSH1 + 1, a, b>>

(* Programs whose cost is small, swept over every small gas limit. *)
CheapCodes == {
  \* countdown loop: JUMPDEST (2) dec, jump back while not zero
  P(3) \o <<JUMPDEST>> \o P(1) \o <<SWAP1, SUB, DUP1>> \o P(2) \o <<JUMPI, STOP>>,
  \* a run of three JUMPDESTs, entered by falling, then in its middle
  P(1) \o <<JUMPDEST, JUMPDEST, JUMPDEST>> \o P(0) \o <<SWAP1>> \o P(3) \o <<JUMPI>>,
  \* starts with a run
  <<JUMPDEST, JUMPDEST, GAS, POP, MSIZE>>,
  \* jump over push data that looks like a JUMPDEST
  P(4) \o <<JUMP, PUSH1, JUMPDEST, JUMPDEST, STOP>>,
  P(5) \o <<JUMP, PUSH1, JUMPDEST, JUMPDEST, STOP>>,
  \* JUMPI into nothing, JUMPI as the last instruction, truncated PUSH
  P(0) \o P(9) \o <<JUMPI, GAS, POP>>,
  P(1) \o P(9) \o <<JUMPI>>,
  <<PUSH1 + 1, 1>>,
  \* underflow in the middle of a block, after effects that are paid for
  P(1) \o <<GAS, POP, ADD, STOP>>,
  \* fills the stack and loops: overflow in the middle of a block
  <<JUMPDEST>> \o P(1) \o P(1) \o P(0) \o <<JUMP>>,
  \* undefined and INVALID after a payable prefix
  P(1) \o <<POP, 12, JUMPDEST, STOP>>,
  P(1) \o <<INVALID, JUMPDEST>>,
  \* constant precheck of two stores and a load
  P(7) \o P(0) \o <<MSTORE>> \o P(1) \o P(64) \o <<MSTORE8>> \o P(3) \o <<MLOAD, POP, MSIZE>>,
  \* constant precheck whose later access runs out of gas or memory
  P(0) \o <<MLOAD, POP>> \o PP(3, 225) \o <<MLOAD, STOP>>,
  \* address known by addition, then a terminator inside
  P(32) \o P(32) \o <<ADD, MLOAD>> \o P(1) \o <<MSTORE>> \o P(0) \o P(0) \o <<RETURN>>,
  \* unknown address after a load: no precheck
  P(0) \o <<MLOAD, MLOAD, POP, MSIZE>>,
  \* MCOPY and RETURN that grow memory, one operand too large
  P(3) \o P(33) \o P(0) \o <<MCOPY, MSIZE, POP>>,
  P(33) \o P(0) \o <<RETURN>>,
  P(1) \o P(0) \o <<SUB, DUP1, MLOAD>>,
  P(1) \o P(0) \o <<SUB>> \o P(0) \o <<RETURN>>,
  P(5) \o P(1) \o <<REVERT>>,
  P(0) \o P(0) \o P(0) \o <<RETURNDATACOPY>> \o P(1) \o P(0) \o P(0) \o <<RETURNDATACOPY>>,
  P(33) \o P(2) \o P(0) \o <<CALLDATACOPY, MSIZE>> \o P(2) \o P(0) \o P(64) \o <<CODECOPY, MSIZE>>,
  P(1) \o P(0) \o <<SUB>> \o P(0) \o P(0) \o <<CODECOPY>>,
  \* PUSH0 and other opcodes that only later revisions define
  <<PUSH0, PUSH0, BASEFEE, CLZ>>,
  P(2) \o P(2) \o <<EXP, POP>> }

(* A repeated motif that steps a pointer by a stride read from calldata. *)
LinearCodes == {
  P(0) \o <<CALLDATALOAD>> \o P(0) \o <<DUP1, MLOAD, POP, DUP2, ADD, DUP1, MLOAD, POP,
    DUP2, ADD, DUP1, MLOAD, POP, DUP2, ADD, STOP>>,
  <<JUMPDEST>> \o P(0) \o <<CALLDATALOAD>> \o P(0) \o <<DUP1, DUP1, MSTORE, DUP2, ADD,
    DUP1, DUP1, MSTORE, DUP2, ADD>> }

(* Programs that reach the host, run with larger gas limits. *)
HostCodes == {
  P(1) \o P(0) \o <<SSTORE>> \o P(0) \o <<SLOAD, STOP>>,
  \* a value computed in the chunk that SSTORE ends, then GAS
  P(1) \o <<DUP1, SSTORE, GAS, POP>>,
  P(1) \o <<DUP1, TSTORE, DUP1, TLOAD>>,
  P(0) \o P(33) \o P(0) \o <<LOG1, MSIZE>>,
  P(40) \o P(0) \o <<KECCAK256, MSIZE, POP>>,
  P(40) \o P(0) \o P(0) \o P(1) \o <<EXTCODECOPY, MSIZE>>,
  P(0) \o <<BALANCE, EXTCODESIZE, EXTCODEHASH, SELFDESTRUCT>>,
  P(2) \o P(0) \o P(0) \o <<CREATE>> \o P(1) \o P(0) \o P(0) \o <<RETURNDATACOPY, STOP>>,
  P(0) \o P(49) \o P(0) \o P(1) \o <<CREATE2, GAS>>,
  \* CALL with value, output area beyond the input area, then REVERT
  P(32) \o P(64) \o P(1) \o P(0) \o P(1) \o P(0) \o P(100) \o <<CALL, MSIZE, MLOAD>>,
  P(0) \o P(0) \o P(0) \o P(0) \o P(0) \o P(0) \o <<DUP1, SUB, GAS, CALL, RETURNDATASIZE, POP>>,
  P(0) \o P(0) \o P(0) \o P(0) \o P(3) \o P(0) \o <<GAS, CALLCODE>> \o P(0) \o P(0) \o <<REVERT>>,
  P(0) \o P(0) \o P(32) \o P(64) \o P(0) \o P(200) \o <<DELEGATECALL, MSIZE>>,
  P(0) \o P(0) \o P(0) \o P(0) \o P(0) \o P(200) \o <<STATICCALL>> \o P(1) \o P(0) \o <<SSTORE>> }

(* All programs of four pieces, the last three of a small alphabet. *)
Alphabet == {P(0), P(3), <<JUMPDEST>>, <<JUMP>>, <<JUMPI>>, <<DUP1>>, <<MLOAD>>, <<PUSH1>>}
ShortCodes == {a \o b \o c \o d : a \in {P(4), <<JUMPDEST>>}, b, c, d \in Alphabet}

(* Control-flow graphs of four blocks at 0, 5, 10 and 15: each jumps, jumps
   or falls, reads its gas and falls, or stops. *)
Exits == {P(0) \o <<JUMP, STOP>>, P(15) \o <<JUMP, STOP>>,
          P(0) \o <<JUMPI, CALLER>>, P(10) \o <<JUMPI, CALLER>>, P(15) \o <<JUMPI, CALLER>>,
          <<CALLER, GAS, POP, POP>>, <<CALLER, STOP, STOP, STOP>>}
GraphCodes ==
  {<<JUMPDEST>> \o a \o <<JUMPDEST>> \o b \o <<JUMPDEST>> \o c \o <<JUMPDEST, STOP>> :
     a, b, c \in Exits}

Program(code, rev) ==
  [code |-> code, rev |-> rev, cache |-> GasChunks(code, rev), front |-> Analyze(code, rev)]

Msg(gas, static, deep) == [gas |-> gas, static |-> static, deep |-> deep, refund |-> 7]

(* Kinds of programs, with revisions and messages to run them with. *)
Families == {
  [codes |-> CheapCodes, revs |-> {ISTANBUL, OSAKA},
   msgs |-> {Msg(g, FALSE, FALSE) : g \in 0..46 \cup {140, 300}}],
  [codes |-> LinearCodes, revs |-> {CANCUN},
   msgs |-> {Msg(g, FALSE, FALSE) : g \in 30..70 \cup {500}}],
  [codes |-> HostCodes, revs |-> {ISTANBUL, LONDON, PRAGUE},
   msgs |-> {Msg(g, s, d) : s \in BOOLEAN, d \in BOOLEAN,
               g \in {110, 780, 2310, 2420, 12200, 22300, 34100, 60000}}],
  [codes |-> ShortCodes, revs |-> {CANCUN}, msgs |-> {Msg(g, FALSE, FALSE) : g \in {8, 60}}],
  [codes |-> GraphCodes, revs |-> {LONDON}, msgs |-> {Msg(45, FALSE, FALSE)}] }

MCMessages ==
  UNION {{Program(c, r) : c \in f.codes, r \in f.revs} \X f.msgs : f \in Families}

(* Returns as many bytes as MSIZE says, read between two loads. *)
MCMsizeMessages ==
  {Program(P(0) \o <<MLOAD, POP, MSIZE>> \o P(64) \o <<MLOAD, POP>> \o P(0) \o <<RETURN>>, CANCUN)}
    \X {Msg(g, FALSE, FALSE) : g \in {20, 100}}

MCWords == {0, 40, 70000}

MCNestedCalls ==
  {[Quiet EXCEPT !.cold = c, !.ok = k, !.left = l, !.size = s] :
     c \in {TRUE, FALSE}, k \in {TRUE, FALSE}, l \in 0..2, s \in {0, 1}}
    \cup {[Quiet EXCEPT !.poor = TRUE], [Quiet EXCEPT !.missing = TRUE, !.refund = 5, !.word = 9],
          [Quiet EXCEPT !.delegate = "warm"], [Quiet EXCEPT !.delegate = "cold"],
          [Quiet EXCEPT !.refund = -3, !.ok = FALSE]}
=============================================================================

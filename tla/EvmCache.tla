------------------------------ MODULE EvmCache ------------------------------
(***************************************************************************)
(* The bytecode cache of the EVM interpreter and JIT (evm_cache.cpp): the  *)
(* gas chunks whose base gas is paid once.                                 *)
(*                                                                         *)
(* buildGasChunksSPP also moves costs between the chunks of a control-flow *)
(* graph; it then stores the base cost of every chunk all the same, so     *)
(* that pass has no effect and is not modelled.                            *)
(***************************************************************************)
EXTENDS EvmCode
LOCAL INSTANCE SequencesExt
LOCAL INSTANCE FiniteSetsExt

(* The tuple <<F(1), ..., F(n)>>. *)
Tabulate(n, F(_)) == SubSeq([i \in 1..n |-> F(i)], 1, n)

BlockStarts(code) ==
  LET I == InstrStarts(code)
  IN  {pc \in I : \/ pc = 0
                  \/ Byte(code, pc) = JUMPDEST
                  \/ \E q \in I : /\ isGasChunkTerminator(Byte(code, q))
                                  /\ q + opcodeLen(Byte(code, q)) = pc}

buildGasBlocks(code, rev) ==
  LET I == InstrStarts(code)
      starts == BlockStarts(code)
      Body(s) == {q \in I : q >= s /\ ~\E t \in starts : s < t /\ t <= q}
      GasBlock(s) ==
        LET body == Body(s)
            last == Max(body)
        IN  [start |-> s,
             end   |-> last + opcodeLen(Byte(code, last)),
             cost  |-> MapThenSumSet(LAMBDA q : GasCostOf(Byte(code, q), rev), body)]
      order == SelectSeq([i \in 1..Len(code) |-> i - 1], LAMBDA pc : pc \in starts)
  IN  Tabulate(Len(order), LAMBDA i : GasBlock(order[i]))

(* buildBytecodeCache.  Both branches of buildGasChunksSPP, for programs
   with a jump it cannot resolve and without, store the base cost. *)
GasChunks(code, rev) ==
  LET blocks == buildGasBlocks(code, rev)
      At(pc) == SelectInSeq(blocks, LAMBDA b : b.start = pc)
  IN  [end  |-> [pc \in PCs(code) |-> IF At(pc) = 0 THEN 0 ELSE blocks[At(pc)].end],
       cost |-> [pc \in PCs(code) |-> IF At(pc) = 0 THEN 0 ELSE blocks[At(pc)].cost],
       dests |-> JumpDests(code)]
=============================================================================

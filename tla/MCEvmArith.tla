----------------------------- MODULE MCEvmArith -----------------------------
(* Limbs of 6 bits and bytes of 2: the word has 24 bits and 12 bytes, and a *)
(* limb can hold every shift amount and byte index as the 64-bit limb can.  *)
EXTENDS EvmArith

MCWords == {<<a, 0, 0, 0>> : a \in {0, 1, 2, 5, 7, 11, 12, 23, 24, 32, 63}}
           \cup {<<1, 1, 0, 0>>, <<63, 63, 0, 0>>, <<0, 0, 1, 0>>, <<0, 0, 0, 32>>,
                 <<63, 63, 63, 31>>, <<12, 0, 0, 1>>, <<62, 63, 63, 63>>, <<63, 63, 63, 63>>,
                 <<17, 42, 9, 51>>, <<5, 0, 63, 1>>}

MCForms(w) == {Const(w), Inst(w), InstIn(w, RangeOf(w))}
              \cup (IF w[1] \in {1, 17} THEN {createDeferred("not", w)} ELSE {})
              \cup (IF w[4] = 32 THEN {createDeferred(k, w) : k \in {"zeq", "zne"}} ELSE {})

MCInputs(d) == IF d = 0 THEN UNION {MCForms(w) : w \in MCWords}
               ELSE {InstIn(<<63, 0, 0, 0>>, U64), Const(<<2, 0, 0, 0>>), Inst(<<0, 0, 0, 0>>),
                     InstIn(<<63, 63, 0, 0>>, U128)}

MCModuli == {Inst(ZeroWord), Const(<<7, 0, 0, 0>>), Inst(<<0, 0, 0, 32>>), Inst(<<63, 63, 63, 31>>),
             Inst(<<1, 0, 0, 1>>)}

\* Chains go on from the words whose form or range a later opcode looks at.
MCChain == depth = 0 \/ acc.kind \in Deferred \/ acc.range # U256 \/ ex.pc # "idle"
=============================================================================

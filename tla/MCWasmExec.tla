----------------------------- MODULE MCWasmExec -----------------------------
(***************************************************************************)
(* Functions for WasmExec: 1 an imported host function, 2 the gas import,  *)
(* 3 the function under test, 4 a callee with a local and nested blocks,   *)
(* 5 one that grows the memory and writes a global, 6 one of another type, *)
(* 7 one with more parameters than registers, 8 one with float parameters. *)
(***************************************************************************)
EXTENDS WasmExec

(* Instructions. *)
I(op) == [op |-> op]
N(op, n) == [op |-> op, n |-> n]
B(op, t) == [op |-> op, t |-> t]
C(t, n) == [op |-> "const", t |-> t, n |-> n]
Num(t, f) == [op |-> "num", f |-> f, t |-> t, from |-> "VOID"]
Cvt(t, f, from) == [op |-> "num", f |-> f, t |-> t, from |-> from]
Ld(t, n, w, s) == [op |-> "load", t |-> t, n |-> n, w |-> w, s |-> s]
St(t, n, w) == [op |-> "store", t |-> t, n |-> n, w |-> w]
BrTbl(tbl) == [op |-> "br_table", tbl |-> tbl]
Get(n) == N("get_local", n)
Set(n) == N("set_local", n)
Tee(n) == N("tee_local", n)
c(n) == C("I32", n)
End1 == I("end")
Drop == I("drop")
Add == Num("I32", "add")

MCTypes == <<[params |-> <<"I32">>, rets |-> <<"I32">>],
             [params |-> <<"I64">>, rets |-> <<>>],
             [params |-> <<"I32", "I32">>, rets |-> <<"I32">>],
             [params |-> <<>>, rets |-> <<>>],
             [params |-> <<"I32">>, rets |-> <<"I32">>],
             [params |-> <<"I32", "I32", "I32", "I32", "I32", "F32", "I32">>, rets |-> <<"I32">>],
             [params |-> <<"I32", "F32", "F32", "F32", "F32">>, rets |-> <<"I32">>]>>

F(t, kind, locals) == [type |-> t, kind |-> kind, locals |-> locals]
MCFuncs == <<F(1, "host", <<>>), F(2, "gas", <<>>), F(3, "code", <<"I64">>), F(1, "code", <<"I64", "I32">>),
             F(4, "code", <<>>), F(3, "code", <<>>), F(6, "code", <<>>), F(7, "code", <<>>)>>

MCBodies ==
  LET Mix(k) == <<c(3), Num("I32", "mul"), Get(k), Num("I32", "xor")>>
      MixF(k) == <<c(3), Num("I32", "mul"), Get(k), Cvt("I32", "reinterpret", "F32"), Num("I32", "xor")>>
  IN <<<<>>, <<>>, <<>>,
       <<B("block", "I32"), Get(1), Get(1), Num("I32", "eqz"), N("br_if", 0), Get(3), Add,
         c(1), N("call", 1), Add, End1, End1>>,
       <<c(1), I("memory_grow"), N("set_global", 1), c(0), c(9), St("I32", 0, 1), End1>>,
       <<Get(1), Get(2), Num("I32", "div_u"), End1>>,
       <<Get(1)>> \o Mix(2) \o Mix(3) \o Mix(4) \o Mix(5) \o <<Get(6), Cvt("I32", "reinterpret", "F32"), Add>> \o Mix(7) \o <<End1>>,
       <<Get(1)>> \o MixF(3) \o MixF(5) \o <<End1>>>>

MCGlobals == <<[type |-> "I32", mutable |-> TRUE, init |-> 3],
               [type |-> "I64", mutable |-> TRUE, init |-> 129]>>
MCTable == <<4, 6, NoFunc>>

Pairs(S, T) == {<<a, b>> : a \in S, b \in T}

(* Blocks, branches and dead code: the stack the loader accepts behind them. *)
Structure ==
  [slots |-> <<{<<Get(1)>>},
               {<<B("block", "I32")>>, <<B("block", "VOID")>>, <<B("loop", "I32")>>, <<B("loop", "VOID")>>,
                <<Get(2), B("if", "I32")>>, <<Get(2), B("if", "VOID")>>, <<c(1), B("block", "I64"), Get(3)>>},
               {<<N("br", 0)>>, <<c(5), N("br", 0)>>, <<c(5), N("br", 1)>>, <<I("unreachable")>>, <<c(5), I("return")>>,
                <<c(5), c(6), Get(2), N("br_if", 0)>>, <<Get(2), N("br_if", 0)>>, <<c(5)>>, <<I("nop")>>,
                <<C("I64", 70), N("br", 0)>>, <<c(5), Get(2), BrTbl(<<0, 1>>)>>},
               {<<I("select")>>, <<Drop>>, <<c(7)>>, <<I("else")>>, <<I("else"), c(8)>>, <<c(4), I("else"), c(8)>>,
                <<C("I64", 9)>>, <<B("block", "VOID"), I("else"), End1>>, <<B("block", "VOID"), End1>>, <<I("nop")>>},
               {<<Drop>>, <<End1>>, <<c(2), Add>>, <<I("nop")>>, <<Set(3), Get(3)>>, <<Get(1), I("select")>>},
               {<<End1, End1>>, <<End1, Drop, End1>>, <<End1, Add, End1>>, <<Drop, End1, End1>>, <<Add, End1>>, <<End1>>}>>,
   args |-> Pairs({2}, {0, 1}), gas |-> 9]

(* A comparison and the instruction it may be fused with. *)
Fusion ==
  [slots |-> <<{<<B("block", "I32"), c(3), c(4)>>},
               {<<Get(1), Get(2), Num("I32", f)>> : f \in Compares}
                 \cup {<<Get(1), Num("I32", "eqz")>>, <<Get(1), Cvt("I64", "extend_s", "I32"), Num("I64", "eqz")>>,
                       <<Get(1), Cvt("I64", "extend_s", "I32"), C("I64", 250), Num("I64", "lt_s")>>},
               {<<>>, <<I("nop")>>, <<Num("I32", "eqz")>>},
               {<<I("select")>>, <<N("br_if", 0), Add>>, <<N("br_if", 1), Add>>, <<B("if", "I32"), c(1), I("else"), Get(2), End1, Add, Add>>,
                <<B("if", "VOID"), Get(1), Set(2), End1, Add>>, <<B("if", "VOID"), I("else"), c(6), N("set_global", 1), End1, Add>>,
                <<Add, Add>>},
               {<<End1, End1>>}>>,
   args |-> Pairs({7, 8, 15}, {7, 8}), gas |-> 9]

(* A value read, something that changes what it was read from, its use. *)
Lazy ==
  LET reads == {<<Get(1)>>, <<N("get_global", 1)>>, <<c(0), Ld("I32", 0, 2, FALSE)>>, <<I("memory_size")>>, <<c(6)>>,
                <<Get(1), c(2), Num("I32", "mul")>>, <<N("get_global", 2), Cvt("I32", "wrap", "I64")>>}
      effects == {<<c(5), Set(1)>>, <<c(5), Tee(1), Drop>>, <<c(5), N("set_global", 1)>>, <<c(0), c(11), St("I32", 0, 2)>>,
                  <<c(1), I("memory_grow"), Drop>>, <<Get(2), N("call", 1), Drop>>, <<Get(2), N("call", 4), N("set_global", 1)>>,
                  <<N("call", 5)>>, <<Get(2), B("if", "VOID"), c(9), Set(1), End1>>, <<C("I64", 4), N("call", 2)>>,
                  <<Get(2), B("if", "VOID"), I("unreachable"), End1>>, <<C("I64", 44), N("set_global", 2)>>}
      later == {<<>>, <<c(5), N("set_global", 1)>>, <<c(0), c(11), St("I32", 0, 2)>>, <<Get(2), N("call", 4), N("set_global", 1)>>, <<N("call", 5)>>}
  IN [slots |-> <<reads, {<<Get(1)>>, <<N("get_global", 1)>>, <<c(0), Ld("I32", 0, 2, FALSE)>>}, effects, later,
                  {<<Num("I32", "sub"), End1>>, <<Get(2), c(3), Num("I32", "lt_u"), I("select"), End1>>}>>,
      args |-> Pairs({2}, {0, 3}), gas |-> 6]

(* Loops, and branch tables with and without a value. *)
Loops ==
  [slots |-> <<{<<B("block", "I32"), B("block", "I32")>>, <<B("block", "I32"), B("loop", "I32")>>},
               {<<Get(2), c(1), Num("I32", "sub"), Tee(2)>>, <<Get(1), Get(2), c(1), Num("I32", "sub"), Set(2)>>, <<Get(1), c(2), Num("I32", "mul"), Tee(1)>>,
                <<Get(1), c(3), Num("I32", "mul")>>},
               {<<Get(2), N("br_if", 0)>>, <<Get(2), BrTbl(<<0, 1>>)>>, <<Get(2), BrTbl(<<1, 0, 1>>)>>, <<Get(2), BrTbl(<<0, 1, 1, 0, 1, 0>>)>>,
                <<Get(2), BrTbl(<<1, 1>>)>>, <<Get(2), N("br_if", 1)>>, <<Drop, c(4), Get(2), BrTbl(<<0>>)>>, <<Drop, Get(2), N("br_if", 0), c(7)>>},
               {<<End1>>, <<c(1), Add, End1>>, <<N("br", 1), End1>>},
               {<<Get(1), Add>>, <<>>},
               {<<End1, c(1), Add, End1>>, <<End1, End1>>}>>,
   args |-> Pairs({1, 6}, 0 .. 3), gas |-> 9]

(* Every integer operator on operands that are variables or constants. *)
Numerics ==
  LET Wide(k) == {<<Get(k), Cvt("I64", "extend_s", "I32")>>, <<Get(k), Cvt("I64", "extend_u", "I32"), C("I64", 25), Num("I64", "mul")>>}
      fs == Binaries \cup Shifts \cup Divs
      Keep == <<N("set_global", 2), c(0), End1>>
  IN [slots |-> <<{<<Get(1)>>, <<c(9)>>} \cup Wide(1),
                  {<<Get(2)>>, <<c(4)>>, <<c(15)>>, <<C("I64", 8)>>} \cup Wide(2),
                  {<<Num("I32", f), End1>> : f \in fs} \cup {<<Num("I64", f)>> \o Keep : f \in fs}
                    \cup {<<Num("I32", f), Add, End1>> : f \in Counts \cup Extends}
                    \cup {<<Num("I64", f), Num("I64", "xor")>> \o Keep : f \in Counts \cup Extends}
                    \cup {<<Num("I64", f), End1>> : f \in Compares}
                    \cup {<<Num("I32", f), Drop, c(1), End1>> : f \in Divs}>>,
      args |-> Pairs({3, 8, 15}, {0, 1, 15}), gas |-> 9]

(* Float to integer conversions. *)
Truncations(t, pattern, second) ==
  LET Keep == <<N("set_global", 2), c(0), End1>>
  IN [slots |-> <<{pattern},
                  {<<Cvt("I32", f, t), End1>> : f \in {"trunc_s", "trunc_u"}} \cup {<<Cvt("I64", f, t)>> \o Keep : f \in {"trunc_s", "trunc_u"}}
                    \cup {<<Cvt("I32", "trunc_s", t), Drop, c(1), End1>>}>>,
      args |-> Pairs(0 .. 15, second), gas |-> 9]
TruncationsF32 == Truncations("F32", <<Get(1), Cvt("F32", "reinterpret", "I32")>>, {0})
TruncationsF64 ==
  Truncations("F64", <<Get(1), Cvt("I64", "extend_u", "I32"), C("I64", 16), Num("I64", "mul"), Get(2), Cvt("I64", "extend_u", "I32"),
                       Num("I64", "add"), Cvt("F64", "reinterpret", "I64")>>, {0, 1, 2, 7, 8, 15})

(* Accesses around the end of the memory, with constant and variable bases. *)
Memory ==
  LET bases == {<<Get(1)>>, <<c(0)>>, <<c(3)>>, <<c(7)>>, <<c(9)>>}
  IN [slots |-> <<{<<>>, <<c(1), I("memory_grow"), Drop>>, <<Get(2), I("memory_grow"), Set(2)>>},
                  bases,
                  {<<Get(2), St("I32", n, w)>> : n \in {0, 2, 6, 9}, w \in {1, 2}} \cup {<<C("I64", 173), St("I64", n, 4)>> : n \in {0, 4, 8}},
                  {<<c(1), Ld("I32", 2, 2, FALSE), End1>>, <<Get(1), Ld("I32", 0, 1, TRUE), End1>>, <<Get(1), Ld("I64", 1, 2, TRUE), N("set_global", 2), c(7), Ld("I32", 1, 1, FALSE), End1>>,
                   <<c(9), Ld("I32", 0, 2, TRUE), End1>>}>>,
      args |-> Pairs({0, 2, 6, 15}, {1, 15}), gas |-> 9]

(* Indirect calls, and gas running out. *)
Calls ==
  [slots |-> <<{<<>>, <<C("I64", 3), N("call", 2)>>, <<C("I64", 10), N("call", 2)>>},
               {<<Get(2)>>, <<Get(2), Get(2)>>},
               {<<Get(1), N("call_indirect", 1)>>, <<Get(1), N("call_indirect", 3)>>, <<Get(1), N("call_indirect", 5)>>, <<N("call", 4)>>, <<N("call", 6)>>},
               {<<>>, <<Get(1), Add>>, <<N("call", 4), C("I64", 7), N("call", 2)>>},
               {<<End1>>}>>,
   args |-> Pairs({0, 1, 2, 3, 15}, {0, 2}), gas |-> 9]

(* More live operands than registers, while something that needs one runs. *)
Pressure ==
  LET Fl(k) == <<Get(k), Cvt("F32", "reinterpret", "I32")>>
      Back == <<Cvt("I32", "reinterpret", "F32")>>
      args1 == <<c(1), Get(1), Get(2), c(2), Get(1)>> \o Fl(2) \o <<Get(2)>>
      args2 == <<Get(1), Get(2), c(5), c(6), Get(2)>> \o Fl(1) \o <<c(7)>>
  IN [slots |-> <<{<<Get(1), Get(2)>>, <<Get(1), Get(2), Get(1), Get(2), Get(1), Get(2)>>,
                   <<Get(1), c(3), Get(2), N("get_global", 1), Get(1), Get(2), Get(1), Get(2)>>},
                  {args1 \o <<N("call", 7)>>, args2 \o <<N("call", 7)>>, <<Get(2)>> \o Fl(1) \o Fl(2) \o Fl(2) \o Fl(1) \o <<N("call", 8)>>,
                   <<Get(1), Get(2), Num("I32", "lt_s")>>,
                   <<c(9), Get(1), Num("I32", "gt_u")>>, <<Get(2), Num("I32", "rem_s")>>, <<Get(1), Num("I32", "shl")>>,
                   <<c(1), Ld("I32", 0, 2, TRUE)>>, <<Get(2), I("memory_grow")>>, <<N("get_global", 2), Cvt("I32", "wrap", "I64"), Ld("I32", 0, 1, FALSE)>>,
                   <<Get(1), Get(2), I("select")>>, <<c(2), c(4), Get(2), I("select")>>, <<c(2), Get(1), c(1), I("select")>>,
                   <<Get(2), Get(1), Num("I32", "le_u"), B("if", "I32"), Get(1), I("else"), c(8), End1>>,
                   <<B("block", "I32"), Get(1), Get(2), N("br", 0), End1>>, <<C("I64", 100), C("I64", 28), Num("I64", "div_s"), Cvt("I32", "wrap", "I64")>>,
                   <<B("block", "I32"), Get(2), c(1), BrTbl(<<0, 0>>), End1>>, <<Num("I32", "clz"), Get(2), N("call", 4)>>,
                   Fl(1) \o Fl(2) \o <<Get(2), I("select")>> \o Back, Fl(1) \o Fl(2) \o <<Get(2), N("call", 4), Drop, Drop>> \o Back},
                  {<<>>, <<N("call", 5), N("get_global", 1)>>, <<Get(1), Get(2), Num("I32", "xor"), Get(2), N("call", 4)>>},
                  {<<Num("I32", "sub"), Num("I32", "xor"), Add, Set(1), Set(2), Get(1), Get(2), Num("I32", "sub"), I("return"), End1>>,
                   <<Num("I32", "sub"), Num("I32", "xor"), Num("I32", "sub"), Num("I32", "xor"), Num("I32", "sub"), Num("I32", "mul"), I("return"), End1>>}>>,
      args |-> Pairs({2, 9}, {0, 3}), gas |-> 9]

(* Behind a branch, SELECT of two unknown operands is stored in a 64-bit    *)
(* local; the code behind the block then uses the stack to its full height. *)
SelectSkeletons ==
  <<[slots |-> <<{<<Get(1), B("block", "I32"), c(5)>>},
                 {<<N("br", 0)>>, <<Get(2), BrTbl(<<0, 0>>)>>},
                 {<<I("select"), Set(3), c(7), End1>>, <<I("select"), Drop, c(7), End1>>, <<c(7), End1>>},
                 {<<c(2), c(3), Add>>, <<c(2), c(3), c(4), Add, Add>>},
                 {<<Add, I("return"), End1>>}>>,
     args |-> Pairs({2}, {0, 1}), gas |-> 9]>>

(* A call with float arguments while a float is live. *)
ArgumentSkeletons ==
  LET Fl(k) == <<Get(k), Cvt("F32", "reinterpret", "I32")>>
  IN <<[slots |-> <<{<<>>, Fl(1), Fl(1) \o Fl(2)},
                    {<<c(1)>>, <<Get(2)>>},
                    {Fl(1) \o Fl(2) \o Fl(2) \o Fl(1) \o <<N("call", 8)>>},
                    {<<I("return"), End1>>}>>,
       args |-> Pairs({2, 9}, {0, 3}), gas |-> 9]>>

MCSkeletons == <<Structure, Fusion, Lazy, Loops, Numerics, TruncationsF32, TruncationsF64, Memory, Calls, Pressure>>
=============================================================================

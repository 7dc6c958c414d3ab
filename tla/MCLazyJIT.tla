------------------------------ MODULE MCLazyJIT ------------------------------
(* Instances of LazyJIT: modules of two functions. *)
EXTENDS LazyJIT, TLC

CONSTANTS f1, f2, w1, w2, c1, c2

TwoFuncs == {f1, f2}
TwoWorkers == {w1, w2}

(* Mutual recursion with a repeated callee; a start function and a function *)
(* that only the guest's table can reach; two exports, one of them listed   *)
(* twice.                                                                   *)
Mutual == [exported |-> <<f1>>, start |-> None,
           calls |-> (f1 :> <<f2, f2>> @@ f2 :> <<f1>>)]
Hidden == [exported |-> <<f1>>, start |-> f1,
           calls |-> (f1 :> << >> @@ f2 :> <<f1>>)]
Twice == [exported |-> <<f2, f1, f2>>, start |-> None,
          calls |-> (f1 :> << >> @@ f2 :> <<f1>>)]
CallGraphs == {Mutual, Hidden, Twice}
=============================================================================

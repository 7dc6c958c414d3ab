------------------------------ MODULE MCEvmcVm ------------------------------
(* Small instances of EvmcVm.                                              *)
EXTENDS EvmcVm, TLC

CONSTANTS a1, a2, empty, c1, c2, frontier, cancun

(* The fingerprints (size, head and tail) of the codes.                    *)
Apart == empty :> 0 @@ c1 :> 1 @@ c2 :> 2

Interpreted == {[mode |-> "interpreter", metering |-> TRUE]}
EitherMode == Interpreted \cup {[mode |-> "multipass", metering |-> TRUE]}

Interchangeable == Permutations(Slots) \cup Permutations(Threads)
                     \cup Permutations(Contexts) \cup Permutations(Addrs)
=============================================================================

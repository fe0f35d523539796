-------------------------- MODULE MCBoundedBuffer --------------------------
(***************************************************************************)
(* class Buffer with two producers, two consumers, two distinguishable     *)
(* items and a deque of two, so that it fills up and runs empty while      *)
(* threads of both kinds sleep on the one condition variable.  Items are   *)
(* interchangeable: nothing in the class compares them.                    *)
(***************************************************************************)
EXTENDS BoundedBuffer, TLC

Symmetry == Permutations(Producers) \cup Permutations(Consumers)
              \cup Permutations(Items)
=============================================================================

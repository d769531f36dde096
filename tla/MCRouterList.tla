---------------------------- MODULE MCRouterList ----------------------------
(***************************************************************************)
(* Model checking of the router list.                                      *)
(***************************************************************************)
EXTENDS RouterList, TLC

Symmetry == Permutations(Addr) \cup Permutations(Router) \cup Permutations(Walker)
=============================================================================

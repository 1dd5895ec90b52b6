------------------------------ MODULE MCFiber ------------------------------
(* Instances of Fiber for TLC. *)
EXTENDS Fiber, TLC

\* Nothing in Fiber distinguishes two fibers or two Resumables.
Symmetry == Permutations(Fibers) \cup Permutations(Resumables)
=============================================================================

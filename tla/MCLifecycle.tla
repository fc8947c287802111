---------------------------- MODULE MCLifecycle ----------------------------
(* Lifecycle for TLC: the calls of each kind are interchangeable.          *)
EXTENDS Lifecycle, TLC

Symmetry == Permutations(Calls) \cup Permutations(Closers)
=============================================================================

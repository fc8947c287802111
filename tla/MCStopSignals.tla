--------------------------- MODULE MCStopSignals ---------------------------
(* StopSignals for TLC: the calls of each kind are interchangeable.        *)
EXTENDS StopSignals, TLC

Symmetry == Permutations(Calls) \cup Permutations(Closers)
=============================================================================

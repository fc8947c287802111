------------------------------ MODULE MCPoller ------------------------------
(* Poller for TLC: its workers are interchangeable.                        *)
EXTENDS Poller, TLC

Symmetry == Permutations(PollerWorkers)
=============================================================================

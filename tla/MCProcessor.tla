---------------------------- MODULE MCProcessor ----------------------------
(* Processor for TLC: its workers are interchangeable.                     *)
EXTENDS Processor, TLC

Symmetry == Permutations(ProcessorWorkers)
=============================================================================

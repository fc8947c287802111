--------------------------- MODULE MCSQSConsumer ---------------------------
(* SQSConsumer for TLC: workers of one pool are interchangeable.           *)
EXTENDS SQSConsumer, TLC

Symmetry == Permutations(PollerWorkers) \cup Permutations(ProcessorWorkers)
=============================================================================

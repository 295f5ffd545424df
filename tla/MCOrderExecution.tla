-------------------------- MODULE MCOrderExecution --------------------------
(* OrderExecution on small sets of requests, approvals, callers and keys. *)
EXTENDS OrderExecution, TLC

Symmetry == Permutations(Requests) \cup Permutations(Approvals) \cup Permutations(Humans)
=============================================================================

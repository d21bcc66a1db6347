---------------------------- MODULE MCAuditChain ----------------------------
(* AuditChain on a small instance. *)
EXTENDS AuditChain, TLC

CONSTANTS a, b

Symmetry == Permutations(Replica)
=============================================================================

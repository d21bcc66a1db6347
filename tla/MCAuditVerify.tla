--------------------------- MODULE MCAuditVerify ---------------------------
(* AuditVerify on a small instance. *)
EXTENDS AuditVerify, TLC

CONSTANTS a, b

Symmetry == Permutations(Replica)
=============================================================================

-------------------------- MODULE MCClaimRecovery --------------------------
(* A small instance of ClaimRecovery for TLC. *)
EXTENDS ClaimRecovery
=============================================================================

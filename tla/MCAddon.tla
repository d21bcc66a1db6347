------------------------------ MODULE MCAddon ------------------------------
(* A small instance of Addon for TLC. *)
EXTENDS Addon
=============================================================================

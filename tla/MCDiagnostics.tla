---------------------------- MODULE MCDiagnostics ----------------------------
(* A small instance of Diagnostics for TLC. *)
EXTENDS Diagnostics
=============================================================================

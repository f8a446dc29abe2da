--------------------------- MODULE MCQuerySession ---------------------------
(* A small instance of QuerySession for TLC. *)
EXTENDS QuerySession

\* read count=2 of one name, and a backup of two.
McSelections  == {<<"health", "health">>}
McBackupNames == <<"health", "info">>
=============================================================================

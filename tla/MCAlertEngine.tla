----------------------------- MODULE MCAlertEngine -----------------------------
(* Small instances of AlertEngine for TLC. *)
EXTENDS AlertEngine, TLC

CONSTANTS n1, n2, e1, e2

\* n2's clock is one unit ahead.
Apart == (n1 :> 0) @@ (n2 :> 1)

SymmetricEvaluators == Permutations({e1, e2})
=============================================================================

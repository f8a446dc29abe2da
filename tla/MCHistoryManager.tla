-------------------------- MODULE MCHistoryManager --------------------------
(* Small instances of HistoryManager for TLC. *)
EXTENDS HistoryManager, TLC

CONSTANTS j1, j2, c1, c2, t1, t2

\* Two overlapping ranges; chunks of two epochs, the last one short.
McFirst == (j1 :> 0) @@ (j2 :> 1)
McEnd   == (j1 :> 2) @@ (j2 :> 2)
McFirst1 == j1 :> 0
McEnd1   == j1 :> 2

Symmetric == Permutations({c1, c2}) \cup Permutations({t1, t2})
=============================================================================

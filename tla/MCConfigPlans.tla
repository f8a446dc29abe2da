---------------------------- MODULE MCConfigPlans ----------------------------
(* Small instances of ConfigPlans for TLC. *)
EXTENDS ConfigPlans, TLC

CONSTANTS c1, c2

\* Two nodes that differ in their network, their slot time and in half of the
\* profile.
Factory == [f \in Field |-> 0]
McDelivered == <<Factory, [Factory EXCEPT !.network = 1, !.slot = 1, !.uplink = Europe]>>

Symmetry == Permutations(Client)
=============================================================================
